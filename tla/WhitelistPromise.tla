-------------------------- MODULE WhitelistPromise --------------------------
(***************************************************************************)
(* What a whitelist promises to the hooks that search it, without entries, *)
(* storage or indexes.                                                     *)
(*                                                                         *)
(* The strings allowed to a user only become more, until the list goes     *)
(* away.  A search that runs beside this finds what was allowed when it    *)
(* began and nothing that is not allowed when it ends.  There are two      *)
(* exceptions: a search that runs while the memory of its user's list is   *)
(* given back, or before the list points to other memory, may answer       *)
(* anything or kill the process, and so may one for a string that does not *)
(* fit its copy; a search of a list that has lost its memory may kill it.  *)
(***************************************************************************)
EXTENDS Integers

CONSTANTS
  Uid, Data, PrefixOf,
  Hooks,       \* the processes that search
  Unfit        \* in place of a string that did not fit its copy

VARIABLES
  allowed,     \* the pairs <<uid, string>>
  broken,      \* the users whose list has lost its memory
  moving,      \* the users whose list points to memory that was given back
  search       \* the search of each process

vars == <<allowed, broken, moving, search>>

Idle == [state |-> "idle"]
Found(uid, data) == \E d \in Data : <<uid, d>> \in allowed /\ <<data, d>> \in PrefixOf

Running(k) == search[k].state = "running"

Init ==
  /\ allowed = {}
  /\ broken = {}
  /\ moving = {}
  /\ search = [k \in Hooks |-> Idle]

Allow(uid, data) ==
  /\ allowed' = allowed \cup {<<uid, data>>}
  /\ UNCHANGED <<broken, moving, search>>

Break(uid) ==
  /\ broken' = broken \cup {uid}
  /\ UNCHANGED <<allowed, moving, search>>

Disturb(users) ==
  search' = [k \in Hooks |->
               IF Running(k) /\ search[k].uid \in users
                 THEN [search[k] EXCEPT !.disturbed = TRUE] ELSE search[k]]

\* Memory of one user's list is given back, because the list grows or because
\* it is over with the list.
GiveBack(uid) ==
  /\ Disturb({uid})
  /\ moving' = moving \cup {uid}
  /\ \/ UNCHANGED <<allowed, broken>>
     \/ /\ allowed' = {p \in allowed : p[1] # uid}
        /\ broken' = broken \ {uid}

\* The list points to its new memory.
Settle(uid) ==
  /\ moving' = moving \ {uid}
  /\ UNCHANGED <<allowed, broken, search>>

\* The module is gone.
Forget ==
  /\ Disturb(Uid)
  /\ allowed' = {} /\ broken' = {} /\ moving' = {}

Begin(k, uid, data) ==
  /\ search[k].state = "idle"
  /\ search' = [search EXCEPT ![k] =
       [state |-> "running", uid |-> uid, data |-> data,
        listed |-> data # Unfit /\ Found(uid, data),
        disturbed |-> data = Unfit \/ uid \in moving]]
  /\ UNCHANGED <<allowed, broken, moving>>

Answer(k, hit) ==
  /\ Running(k)
  /\ LET s == search[k]
     IN  \/ s.disturbed
         \/ hit /\ Found(s.uid, s.data)
         \/ ~hit /\ ~s.listed
  /\ search' = [search EXCEPT ![k] = [state |-> "answered", hit |-> hit]]
  /\ UNCHANGED <<allowed, broken, moving>>

Die(k) ==
  /\ Running(k)
  /\ search[k].disturbed \/ search[k].uid \in broken
  /\ search' = [search EXCEPT ![k] = Idle]
  /\ UNCHANGED <<allowed, broken, moving>>

Leave(k) ==
  /\ search[k].state = "answered"
  /\ search' = [search EXCEPT ![k] = Idle]
  /\ UNCHANGED <<allowed, broken, moving>>

Next ==
  \/ \E uid \in Uid :
       Break(uid) \/ GiveBack(uid) \/ Settle(uid) \/ \E d \in Data : Allow(uid, d)
  \/ Forget
  \/ \E k \in Hooks :
       \/ \E uid \in Uid, data \in Data \cup {Unfit} : Begin(k, uid, data)
       \/ \E hit \in BOOLEAN : Answer(k, hit)
       \/ Die(k) \/ Leave(k)

Safety == Init /\ [][Next]_vars

\* A search that has begun comes to an end.
Spec ==
  /\ Safety
  /\ \A k \in Hooks : WF_vars(Die(k) \/ \E hit \in BOOLEAN : Answer(k, hit))

=============================================================================
