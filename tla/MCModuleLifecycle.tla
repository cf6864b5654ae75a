------------------------- MODULE MCModuleLifecycle --------------------------
(***************************************************************************)
(* A small instance of ModuleLifecycle for TLC.  "/t" is a prefix of       *)
(* "/tx", which is as long as the buffer of a hook.                        *)
(***************************************************************************)
EXTENDS ModuleLifecycle

CONSTANTS root, alice, bob, k1

Strings == {"/t", "/tx", "/u"}
Prefixes == {<<d, d>> : d \in Strings} \cup {<<"/t", "/tx">>}
Lengths == [d \in Strings |-> IF d = "/tx" THEN 3 ELSE 2]

\* alice gets one string that the searches for "/t" find and one they do not,
\* the others an entry in front of hers, behind it, or the last one that is left.
AddCommands ==
  [uid : {alice}, data : {"/tx", "/u"}] \cup [uid : {root, bob}, data : {"/u"}]

\* Strings that fit and that do not, with good and bad pointers, through the
\* last two slots that are replaced.
UserCalls ==
  [syscall : {"execve"}, uid : {alice}, data : {"/t", "/tx"}, pointer : {"good"}]
    \cup [syscall : {"connect"}, uid : {alice}, data : {"/t"}, pointer : {"bad"}]

=============================================================================
