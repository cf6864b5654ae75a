---------------------------- MODULE FreezePolicy ----------------------------
(***************************************************************************)
(* What the freezer promises, without tables, indexes or memory.           *)
(*                                                                         *)
(* An administrator freezes and unfreezes a resource of a user, and allows *)
(* a user some strings of a resource.  Each command touches the pair it    *)
(* names and no other; a command may also have no effect (the module's     *)
(* tables are finite and its memory may run out).  A system call of a user *)
(* is refused exactly when a resource that guards it is frozen for this    *)
(* user and nothing exempts the string it names.                           *)
(***************************************************************************)
EXTENDS Integers

CONSTANTS
  Uid, Data, NoData, PrefixOf,
  PasswdFile,       \* the file no new session can do without
  Ipv4,             \* the addresses of internet connections
  Requests,         \* the commands administrators may send
  Calls             \* the system calls users may make

VARIABLES
  frozen,     \* the pairs <<resource, uid>> that are frozen
  allowed,    \* <<resource, uid, string>> : the string stays usable
  broken,     \* <<resource, uid>> : the user's list ran out of memory
  judged      \* the last command, or the last call and what became of it

vars == <<frozen, allowed, broken, judged>>

Resource == {"FILE", "PROCESS", "NETWORK", "SESSIONS"}
Listed == Resource \ {"SESSIONS"}       \* the resources with a whitelist

Nothing == [kind |-> "none"]

Guards == [execve  |-> {"PROCESS"},
           connect |-> {"NETWORK"},
           write   |-> {"FILE"},
           openat  |-> {"SESSIONS", "FILE"}]

\* The strings the policy is applied to; the other calls are let through.
\* A write whose file has no name is judged all the same.
Subject(syscall) ==
  CASE syscall = "connect" -> Ipv4
    [] syscall = "write" -> Data \cup {NoData}
    [] OTHER -> Data

Exempt(r, c) ==
  IF r = "SESSIONS"
    THEN <<c.data, PasswdFile>> \notin PrefixOf
    ELSE \E d \in Data : <<r, c.uid, d>> \in allowed /\ <<c.data, d>> \in PrefixOf

Refused(c) ==
  /\ c.data \in Subject(c.syscall)
  /\ \E r \in Guards[c.syscall] : <<r, c.uid>> \in frozen /\ ~Exempt(r, c)

\* The calls that need a list which is broken, or have no name to look up on
\* a list of theirs: the process that makes one may die of it.
Unsafe(c) ==
  /\ c.data \in Subject(c.syscall)
  /\ \E r \in Guards[c.syscall] \ {"SESSIONS"} :
       /\ <<r, c.uid>> \in frozen
       /\ \E d \in Data : <<r, c.uid, d>> \in allowed
       /\ <<r, c.uid>> \in broken \/ c.data = NoData

-----------------------------------------------------------------------------

Init ==
  /\ frozen = {}
  /\ allowed = {}
  /\ broken = {}
  /\ judged = Nothing

Freeze(req) ==
  /\ req.action = "LOCK" /\ req.resource \in Resource
  /\ frozen' = frozen \cup {<<req.resource, req.uid>>}
  /\ UNCHANGED <<allowed, broken>>

Unfreeze(req) ==
  /\ req.action = "UNLOCK" /\ req.resource \in Resource
  /\ frozen' = frozen \ {<<req.resource, req.uid>>}
  /\ UNCHANGED <<allowed, broken>>

Allow(req) ==
  /\ req.action = "WHITELIST" /\ req.resource \in Listed
  /\ allowed' = allowed \cup {<<req.resource, req.uid, req.data>>}
  /\ UNCHANGED <<frozen, broken>>

Break(req) ==
  /\ req.action = "WHITELIST" /\ req.resource \in Listed
  /\ \E d \in Data : <<req.resource, req.uid, d>> \in allowed
  /\ broken' = broken \cup {<<req.resource, req.uid>>}
  /\ UNCHANGED <<frozen, allowed>>

Ignore == UNCHANGED <<frozen, allowed, broken>>

Command(req) ==
  /\ judged' = [kind |-> "command", request |-> req]
  /\ Freeze(req) \/ Unfreeze(req) \/ Allow(req) \/ Break(req) \/ Ignore

Judge(c, verdict) ==
  /\ judged' = [kind |-> "call", call |-> c, verdict |-> verdict]
  /\ \/ verdict = "refused" /\ Refused(c)
     \/ verdict = "passed" /\ ~Refused(c) /\ ~Unsafe(c)
     \/ verdict = "died" /\ Unsafe(c)
  /\ UNCHANGED <<frozen, allowed, broken>>

Next ==
  \/ \E req \in Requests : Command(req)
  \/ \E c \in Calls, v \in {"refused", "passed", "died"} : Judge(c, v)

Spec == Init /\ [][Next]_vars

=============================================================================
