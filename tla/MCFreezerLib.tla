---------------------------- MODULE MCFreezerLib ----------------------------
(***************************************************************************)
(* Small instances of FreezerLib for TLC.                                  *)
(***************************************************************************)
EXTENDS FreezerLib

CONSTANTS root, alice, bob, p1, p2

Strings == {"", "/t"}
Prefixes == {<<d, d>> : d \in Strings} \cup {<<"", "/t">>}

\* A process that freezes and unfreezes files for one user or for everyone
\* except alice, and allows the file "/t", or NULL, to everyone except alice.
FileCalls ==
  [except : {FALSE, TRUE}, resource : {"FILE"}, uid : {alice},
   action : {"LOCK", "UNLOCK"}, data : {NoData}]
    \cup [except : {TRUE}, resource : {"FILE"}, uid : {alice},
          action : {"WHITELIST"}, data : {NoData, "/t"}]

\* Two processes that disturb each other's locks.
LockCalls ==
  [except : {FALSE, TRUE}, resource : {"FILE"}, uid : {alice},
   action : {"LOCK", "UNLOCK"}, data : {NoData}]
    \cup [except : {FALSE}, resource : {"FILE"}, uid : {bob},
          action : {"LOCK", "UNLOCK"}, data : {NoData}]

AllCalls == FileCalls \cup LockCalls

\* Every message the library can be made to send.
Messages == {Message(call, uid) : call \in ApiCalls, uid \in Uid}

LoggedIn == <<NoUser, alice, bob, root>>

=============================================================================
