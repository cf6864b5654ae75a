-------------------------- MODULE MCFreezerModule ---------------------------
(***************************************************************************)
(* Small instances of FreezerModule for TLC.  Strings: "/e" is a prefix of *)
(* the password file and of nothing else, "/t" is a prefix of "/tx".       *)
(***************************************************************************)
EXTENDS FreezerModule

CONSTANTS root, alice, bob, carol

Strings == {"/e", "/e/passwd", "/t", "/tx", "1.1.1.1", "::1"}
Prefixes == {<<d, d>> : d \in Strings}
              \cup {<<"/e", "/e/passwd">>, <<"/t", "/tx">>}
Addresses4 == {"1.1.1.1"}

\* Locks of two resources that openat has to combine, of files for one user
\* more than a table has slots, and the commands that are answered with an
\* error.
LockRequests ==
  [resource : {"FILE"}, uid : {root, alice, bob, carol},
   action : {"LOCK", "UNLOCK"}, data : {"/t"}]
    \cup [resource : {"SESSIONS"}, uid : {alice},
          action : {"LOCK", "UNLOCK"}, data : {"/t"}]
    \cup [resource : {"SESSIONS"}, uid : {alice}, action : {"WHITELIST"}, data : {"/t"}]
    \cup [resource : {"OTHER"}, uid : {alice}, action : {"LOCK", "OTHER"}, data : {"/t"}]
LockCalls ==
  [syscall : {"write", "openat"}, uid : {root, alice}, data : {"/e", "/tx"}]

\* Whitelists of files, for as many users as there is room for, beside locks of
\* files and sessions of one of them.
FileRequests ==
  [resource : {"FILE"}, uid : {alice}, action : {"LOCK"}, data : {"/t"}]
    \cup [resource : {"FILE"}, uid : {alice}, action : {"WHITELIST"},
          data : {"/tx", "/e"}]
    \cup [resource : {"FILE"}, uid : {root, bob}, action : {"WHITELIST"},
          data : {"/tx"}]
    \cup [resource : {"SESSIONS"}, uid : {alice}, action : {"LOCK", "UNLOCK"},
          data : {"/t"}]
FileCalls ==
  [syscall : {"write", "openat"}, uid : {alice}, data : {"/e", "/t", "/tx", NoData}]

\* Processes, and connections, of two users.
ProcessRequests ==
  [resource : {"PROCESS"}, uid : {root, alice}, action : {"LOCK"}, data : {"/t"}]
    \cup [resource : {"PROCESS"}, uid : {root, alice}, action : {"WHITELIST"},
          data : {"/tx"}]
ProcessCalls == [syscall : {"execve"}, uid : {root, alice}, data : {"/t", "/e", NoData}]

NetworkRequests ==
  [resource : {"NETWORK"}, uid : {root, alice}, action : {"LOCK", "UNLOCK"}, data : {"/t"}]
    \cup [resource : {"NETWORK"}, uid : {alice}, action : {"WHITELIST"},
          data : {"1.1.1.1"}]
NetworkCalls == [syscall : {"connect"}, uid : {alice}, data : {"1.1.1.1", "::1", NoData}]

AllRequests == LockRequests \cup FileRequests \cup ProcessRequests \cup NetworkRequests
AllCalls == LockCalls \cup FileCalls \cup ProcessCalls \cup NetworkCalls

\* The properties that fail need few inputs.
TwoLocks ==
  [resource : {"FILE"}, uid : {root, alice, bob}, action : {"LOCK", "UNLOCK"},
   data : {"/t"}]
ProcessLists ==
  [resource : {"PROCESS"}, uid : {alice}, action : {"LOCK", "WHITELIST"},
   data : {"/tx"}]
=============================================================================
