-------------------------- MODULE FreezerLibProofs --------------------------
(***************************************************************************)
(* Theorems about FreezerModule, and about FreezerLib, which extends it.   *)
(*                                                                         *)
(* FreezerModule: its invariants, and that it implements FreezePolicy, for *)
(* every set of users, strings, commands and calls, and every size of the  *)
(* tables.  FreezerLib: the kernel module under the library is the module  *)
(* of FreezerModule, a call gives back what it took, and a call for        *)
(* everyone except a user spares this user; for any number of processes,   *)
(* users and entries of utmp, and for every set of calls.                  *)
(***************************************************************************)
EXTENDS FreezerLib, UidTableProofs, WhitelistProofs

-----------------------------------------------------------------------------
(* FreezerModule. *)

\* The inductive invariant: every table and every list is as the functions of
\* freezer_hook_utils.c need it.
GoodTables ==
  /\ uid_array \in [Resource -> Table]
  /\ \A r \in Resource : NoDuplicate(uid_array[r])
GoodLists ==
  /\ whitelist \in [Listed -> Seq(Entry)]
  /\ \A r \in Listed : GoodList(whitelist[r])
IInv == GoodTables /\ GoodLists /\ event \in Event /\ DoneMeansDone

\* The inductive invariant gives the invariants that the runs check.
LEMMA IInvImplies ==
  IInv => TypeOK /\ OnePlacePerUid /\ PushInBounds /\ DoneMeansDone
BY DEF IInv, GoodTables, GoodLists, GoodList, TypeOK, OnePlacePerUid, PushInBounds

\* It holds when the module has been loaded.
LEMMA IInvInit == Init => IInv
<1> SUFFICES ASSUME Init PROVE IInv
  OBVIOUS
<1>1. GoodTables
  BY EmptyTableFacts DEF Init, GoodTables
<1>2. GoodLists
  <2>1. << >> \in Seq(Entry)
    OBVIOUS
  <2> QED  BY <2>1, EmptyListFacts DEF Init, GoodLists
<1>3. event \in Event /\ DoneMeansDone
  BY DEF Init, Event, Nothing, DoneMeansDone
<1> QED  BY <1>1, <1>2, <1>3 DEF IInv

\* A command is a request, and what is requested has a table or a list.
LEMMA RequestFacts ==
  ASSUME NEW req \in Requests
  PROVE  /\ req \in Request
         /\ req.uid \in Uid /\ req.data \in Data
BY FreezerModuleAssumption DEF Request

\* Whatever a command does to the tables leaves them good.
LEMMA WrapperGood ==
  ASSUME IInv, NEW req \in Requests, NEW refused, freezer_call_wrapper(req, refused)
  PROVE  GoodTables' /\ GoodLists'
<1> USE RequestFacts
<1>1. CASE /\ req.action = "LOCK" /\ req.resource \in Resource
           /\ uid_array' = [uid_array EXCEPT
                              ![req.resource] = add_uid_to_array(@, req.uid)]
           /\ UNCHANGED whitelist
  <2>1. /\ add_uid_to_array(uid_array[req.resource], req.uid) \in Table
        /\ NoDuplicate(add_uid_to_array(uid_array[req.resource], req.uid))
    BY <1>1, AddType, AddNoDuplicate DEF IInv, GoodTables
  <2> QED  BY <1>1, <2>1 DEF IInv, GoodTables, GoodLists
<1>2. CASE /\ req.action = "UNLOCK" /\ req.resource \in Resource
           /\ uid_array' = [uid_array EXCEPT
                              ![req.resource] = remove_uid_from_array(@, req.uid)]
           /\ UNCHANGED whitelist
  <2>1. /\ remove_uid_from_array(uid_array[req.resource], req.uid) \in Table
        /\ NoDuplicate(remove_uid_from_array(uid_array[req.resource], req.uid))
    BY <1>2, RemoveType DEF IInv, GoodTables
  <2> QED  BY <1>2, <2>1 DEF IInv, GoodTables, GoodLists
<1>3. CASE /\ req.action = "WHITELIST" /\ req.resource \in Listed
           /\ whitelist' = [whitelist EXCEPT
                ![req.resource] = add_to_whitelist(@, req.data, req.uid, refused)]
           /\ UNCHANGED uid_array
  <2> DEFINE v == add_to_whitelist(whitelist[req.resource], req.data, req.uid, refused)
  <2>1. GoodList(v)
    BY <1>3, AddToWhitelistFacts DEF IInv, GoodLists
  <2>2. v \in Seq(Entry)
    BY <2>1 DEF GoodList
  <2> QED  BY <1>3, <2>1, <2>2 DEF IInv, GoodTables, GoodLists
<1>4. CASE UNCHANGED <<uid_array, whitelist>>
  BY <1>4 DEF IInv, GoodTables, GoodLists
<1> QED  BY <1>1, <1>2, <1>3, <1>4 DEF freezer_call_wrapper

\* After a command that was answered with NLMSG_DONE.
LEMMA DoneStep ==
  ASSUME IInv, NEW req \in Requests, NEW refused, freezer_recv_msg(req, refused)
  PROVE  DoneMeansDone'
<1> USE RequestFacts
<1> DEFINE r == req.resource
           u == req.uid
<1> SUFFICES ASSUME event'.reply = "DONE", req.action \in {"LOCK", "UNLOCK"}
             PROVE  \/ is_hooked_user(uid_array'[r], u) = (req.action = "LOCK")
                    \/ Full(uid_array'[r])
  BY DEF freezer_recv_msg, DoneMeansDone
<1>1. Accepted(req) /\ "copy" \notin refused
  BY DEF freezer_recv_msg
<1>2. freezer_call_wrapper(req, refused)
  BY <1>1 DEF freezer_recv_msg
<1>3. r \in Resource
  BY <1>1 DEF Accepted, Listed, Resource
<1>4. uid_array[r] \in Table /\ NoDuplicate(uid_array[r])
  BY <1>3 DEF IInv, GoodTables
<1>5. CASE req.action = "LOCK"
  <2>1. uid_array'[r] = add_uid_to_array(uid_array[r], u)
    BY <1>1, <1>2, <1>3, <1>5 DEF freezer_call_wrapper, IInv, GoodTables
  <2>2. CASE Full(uid_array[r])
    BY <2>1, <2>2 DEF add_uid_to_array
  <2>3. CASE ~Full(uid_array[r])
    <3>1. is_hooked_user(uid_array'[r], u)
      BY <1>4, <2>1, <2>3, AddMembers
    <3> QED  BY <1>5, <3>1 DEF is_hooked_user
  <2> QED  BY <2>2, <2>3
<1>6. CASE req.action = "UNLOCK"
  <2>1. uid_array'[r] = remove_uid_from_array(uid_array[r], u)
    BY <1>1, <1>2, <1>3, <1>6 DEF freezer_call_wrapper, IInv, GoodTables
  <2>2. CASE Full(uid_array[r])
    BY <2>1, <2>2 DEF remove_uid_from_array
  <2>3. CASE ~Full(uid_array[r])
    <3>1. ~is_hooked_user(uid_array'[r], u)
      BY <1>4, <2>1, <2>3, RemoveMembers
    <3> QED  BY <1>6, <3>1 DEF is_hooked_user
  <2> QED  BY <2>2, <2>3
<1> QED  BY <1>5, <1>6

\* Every step of the module keeps the inductive invariant.
LEMMA IInvNext ==
  IInv /\ [Next]_vars => IInv'
<1> SUFFICES ASSUME IInv, [Next]_vars PROVE IInv'
  OBVIOUS
<1>1. ASSUME NEW req \in Requests, NEW refused, freezer_recv_msg(req, refused)
      PROVE  IInv'
  <2>1. GoodTables' /\ GoodLists'
    <3>1. CASE "copy" \in refused
      BY <1>1, <3>1 DEF freezer_recv_msg, IInv, GoodTables, GoodLists
    <3>2. CASE "copy" \notin refused
      BY <1>1, <3>2, WrapperGood DEF freezer_recv_msg
    <3> QED  BY <3>1, <3>2
  <2>2. event' \in Event
    BY <1>1, RequestFacts DEF freezer_recv_msg, Event
  <2>3. DoneMeansDone'
    BY <1>1, DoneStep
  <2> QED  BY <2>1, <2>2, <2>3 DEF IInv
<1>2. ASSUME NEW c \in Calls,
             \/ hooked_execve(c) \/ hooked_connect(c) \/ hooked_write(c) \/ hooked_openat(c)
      PROVE  IInv'
  <2>1. PICK result \in {"original", "-1", "0", "EACCES", "oops"} : Return(c, result)
    BY <1>2 DEF hooked_execve, hooked_connect, hooked_write, hooked_openat, Filtered
  <2>2. event' \in Event /\ DoneMeansDone'
    BY <2>1, FreezerModuleAssumption DEF Return, Event, DoneMeansDone
  <2>3. GoodTables' /\ GoodLists'
    BY <2>1 DEF Return, IInv, GoodTables, GoodLists
  <2> QED  BY <2>2, <2>3 DEF IInv
<1>3. CASE UNCHANGED vars
  BY <1>3 DEF vars, IInv, GoodTables, GoodLists, DoneMeansDone
<1> QED  BY <1>1, <1>2, <1>3 DEF Next

\* The inductive invariant holds of the module.
THEOREM IInvAlways == Spec => []IInv
BY IInvInit, IInvNext, PTL DEF Spec

\* The tables, the lists and the last event have their types.
THEOREM TypeCorrect == Spec => []TypeOK
BY IInvAlways, IInvImplies, PTL

\* No uid ever has two slots of a table or two entries of a list, and no entry
\* is empty: the searches of freezer_hook_utils.c may stop at the first match.
THEOREM OnePlacePerUidAlways == Spec => []OnePlacePerUid
BY IInvAlways, IInvImplies, PTL

\* No sequence of pushes, whatever krealloc is refused, makes array_push store
\* beyond the capacity.
THEOREM PushInBoundsAlways == Spec => []PushInBounds
BY IInvAlways, IInvImplies, PTL

\* A lock or unlock answered with NLMSG_DONE took effect, unless the table is
\* full.
THEOREM DoneMeansDoneAlways == Spec => []DoneMeansDone
BY IInvAlways, IInvImplies, PTL

-----------------------------------------------------------------------------
(* The refinement. *)

\* What the policy sees of the tables.
LEMMA FrozenView ==
  ASSUME NEW r \in Resource, NEW u \in Uid
  PROVE  <<r, u>> \in frozen <=> is_hooked_user(uid_array[r], u)
BY DEF frozen

\* What the policy sees of the lists: a lookup finds what is exempt, and fails
\* where the policy says that the call is unsafe.
LEMMA ListView ==
  ASSUME IInv, NEW r \in Listed, NEW c \in Call
  PROVE  /\ resource_data_is_in_whitelist(whitelist[r], c.data, c.uid) <=> Policy!Exempt(r, c)
         /\ lookup_faults(whitelist[r], c.data, c.uid)
              <=> /\ \E d \in Data : <<r, c.uid, d>> \in allowed
                  /\ <<r, c.uid>> \in broken \/ c.data = NoData
<1> DEFINE w == whitelist[r]
<1>1. c.uid \in Uid /\ r # "SESSIONS"
  BY DEF Call, Listed
<1>2. GoodList(w) /\ w \in Seq(Entry)
  BY DEF IInv, GoodLists
<1>3. \A d \in Data : <<r, c.uid, d>> \in allowed <=> d \in Stored(w, c.uid)
  BY <1>1 DEF allowed
<1>4. <<r, c.uid>> \in broken <=> Lost(w, c.uid)
  BY <1>1 DEF broken
<1>5. Stored(w, c.uid) \subseteq Data /\ (HasEntry(w, c.uid) => Stored(w, c.uid) # {})
  BY <1>2, StoredIsData
<1>6. resource_data_is_in_whitelist(w, c.data, c.uid) <=> Policy!Exempt(r, c)
  BY <1>1, <1>3, <1>5 DEF resource_data_is_in_whitelist, Policy!Exempt
<1>7. HasEntry(w, c.uid) <=> \E d \in Data : <<r, c.uid, d>> \in allowed
  BY <1>3, <1>5, StoredNothing
<1>8. lookup_faults(w, c.data, c.uid)
        <=> HasEntry(w, c.uid) /\ (Lost(w, c.uid) \/ c.data = NoData)
  BY DEF lookup_faults
<1> QED  BY <1>4, <1>6, <1>7, <1>8

\* The initial states.
LEMMA InitRefines == Init => Policy!Init
<1> SUFFICES ASSUME Init PROVE Policy!Init
  OBVIOUS
<1>1. frozen = {}
  BY EmptyTableFacts DEF Init, frozen
<1>2. allowed = {} /\ broken = {}
  BY EmptyListFacts DEF Init, allowed, broken
<1>3. judged = Policy!Nothing
  BY DEF Init, judged, Nothing, Policy!Nothing
<1> QED  BY <1>1, <1>2, <1>3 DEF Policy!Init

\* The lists as the policy sees them do not change when they do not.
LEMMA UnchangedLists ==
  ASSUME UNCHANGED whitelist PROVE UNCHANGED <<allowed, broken>>
BY DEF allowed, broken

LEMMA UnchangedTables ==
  ASSUME UNCHANGED uid_array PROVE UNCHANGED frozen
BY DEF frozen

\* A lock or an unlock changes the pair it names, or nothing.
LEMMA LockRefines ==
  ASSUME IInv, NEW req \in Requests, req.action \in {"LOCK", "UNLOCK"},
         req.resource \in Resource, NEW refused, freezer_call_wrapper(req, refused)
  PROVE  /\ \/ frozen' = frozen
            \/ req.action = "LOCK" /\ frozen' = frozen \cup {<<req.resource, req.uid>>}
            \/ req.action = "UNLOCK" /\ frozen' = frozen \ {<<req.resource, req.uid>>}
         /\ UNCHANGED <<allowed, broken>>
<1> USE RequestFacts
<1> DEFINE r == req.resource
           u == req.uid
           t == uid_array[r]
<1>1. t \in Table /\ NoDuplicate(t) /\ uid_array \in [Resource -> Table]
  BY DEF IInv, GoodTables
<1>2. UNCHANGED whitelist
  BY DEF freezer_call_wrapper, Accepted
<1>3. CASE req.action = "LOCK"
  <2>1. uid_array' = [uid_array EXCEPT ![r] = add_uid_to_array(t, u)]
    BY <1>3 DEF freezer_call_wrapper, Accepted
  <2>2. \A v : is_hooked_user(uid_array'[r], v)
                 <=> is_hooked_user(t, v) \/ (v = u /\ ~Full(t))
    BY <1>1, <2>1, AddMembers
  <2>3. \A s \in Resource : s # r => uid_array'[s] = uid_array[s]
    BY <1>1, <2>1
  <2>4. CASE Full(t)
    BY <2>2, <2>3, <2>4, <1>2, UnchangedLists DEF frozen
  <2>5. CASE ~Full(t)
    <3>1. frozen' = frozen \cup {<<r, u>>}
      BY <2>2, <2>3, <2>5 DEF frozen
    <3> QED  BY <1>2, <1>3, <3>1, UnchangedLists
  <2> QED  BY <2>4, <2>5
<1>4. CASE req.action = "UNLOCK"
  <2>1. uid_array' = [uid_array EXCEPT ![r] = remove_uid_from_array(t, u)]
    BY <1>4 DEF freezer_call_wrapper, Accepted
  <2>2. \A v : is_hooked_user(uid_array'[r], v)
                 <=> is_hooked_user(t, v) /\ (v # u \/ Full(t))
    BY <1>1, <2>1, RemoveMembers
  <2>3. \A s \in Resource : s # r => uid_array'[s] = uid_array[s]
    BY <1>1, <2>1
  <2>4. CASE Full(t)
    BY <2>2, <2>3, <2>4, <1>2, UnchangedLists DEF frozen
  <2>5. CASE ~Full(t)
    <3>1. frozen' = frozen \ {<<r, u>>}
      BY <2>2, <2>3, <2>5 DEF frozen
    <3> QED  BY <1>2, <1>4, <3>1, UnchangedLists
  <2> QED  BY <2>4, <2>5
<1> QED  BY <1>3, <1>4

\* A new string on a list allows it, or breaks the list, or changes nothing.
LEMMA WhitelistRefines ==
  ASSUME IInv, NEW req \in Requests, req.action = "WHITELIST",
         req.resource \in Listed, NEW refused, freezer_call_wrapper(req, refused)
  PROVE  LET r == req.resource
             u == req.uid
         IN  /\ UNCHANGED frozen
             /\ \/ UNCHANGED <<allowed, broken>>
                \/ allowed' = allowed \cup {<<r, u, req.data>>} /\ UNCHANGED broken
                \/ /\ \E d \in Data : <<r, u, d>> \in allowed
                   /\ broken' = broken \cup {<<r, u>>} /\ UNCHANGED allowed
<1> USE RequestFacts
<1> DEFINE r == req.resource
           u == req.uid
           w == whitelist[r]
           v == add_to_whitelist(w, req.data, u, refused)
<1>1. GoodList(w) /\ whitelist \in [Listed -> Seq(Entry)]
  BY DEF IInv, GoodLists
<1>2. UNCHANGED uid_array /\ whitelist' = [whitelist EXCEPT ![r] = v]
  BY DEF freezer_call_wrapper, Accepted
<1>3. whitelist'[r] = v /\ \A s \in Listed : s # r => whitelist'[s] = whitelist[s]
  BY <1>1, <1>2
<1>4. UNCHANGED frozen
  BY <1>2, UnchangedTables
<1> HIDE DEF v
<1>5. /\ \A x : x # u => Stored(v, x) = Stored(w, x) /\ (Lost(v, x) <=> Lost(w, x))
      /\ \/ Stored(v, u) = Stored(w, u) /\ (Lost(v, u) <=> Lost(w, u))
         \/ Stored(v, u) = Stored(w, u) \cup {req.data} /\ (Lost(v, u) <=> Lost(w, u))
         \/ Stored(v, u) = Stored(w, u) /\ Stored(w, u) # {} /\ Lost(v, u)
  BY <1>1, AddToWhitelistFacts DEF v
<1>6. ASSUME Stored(v, u) = Stored(w, u)
      PROVE  UNCHANGED allowed
  BY <1>3, <1>5, <1>6 DEF allowed
<1>7. ASSUME Lost(v, u) <=> Lost(w, u)
      PROVE  UNCHANGED broken
  BY <1>3, <1>5, <1>7 DEF broken
<1>8. CASE Stored(v, u) = Stored(w, u) /\ (Lost(v, u) <=> Lost(w, u))
  BY <1>4, <1>6, <1>7, <1>8
<1>9. CASE Stored(v, u) = Stored(w, u) \cup {req.data} /\ (Lost(v, u) <=> Lost(w, u))
  <2>1. allowed' = allowed \cup {<<r, u, req.data>>}
    BY <1>3, <1>5, <1>9 DEF allowed
  <2> QED  BY <1>4, <1>7, <1>9, <2>1
<1>10. CASE Stored(v, u) = Stored(w, u) /\ Stored(w, u) # {} /\ Lost(v, u)
  <2>1. broken' = broken \cup {<<r, u>>}
    BY <1>3, <1>5, <1>10 DEF broken
  <2>2. \E d \in Data : <<r, u, d>> \in allowed
    <3>1. Stored(w, u) \subseteq Data
      BY <1>1, StoredIsData
    <3> QED  BY <1>10, <3>1 DEF allowed
  <2> QED  BY <1>4, <1>6, <1>10, <2>1, <2>2
<1> QED  BY <1>5, <1>8, <1>9, <1>10

\* Every command is a step of the policy.
LEMMA CommandRefines ==
  ASSUME IInv, NEW req \in Requests, NEW refused, freezer_recv_msg(req, refused)
  PROVE  Policy!Next
<1> USE RequestFacts
<1>1. judged' = [kind |-> "command", request |-> req]
  <2>1. event'.kind = "command" /\ event'.request = req
    BY DEF freezer_recv_msg
  <2> QED  BY <2>1 DEF judged
<1>2. CASE UNCHANGED <<frozen, allowed, broken>>
  BY <1>1, <1>2 DEF Policy!Next, Policy!Command, Policy!Ignore
<1>3. CASE "copy" \in refused \/ ~Accepted(req)
  <2>1. UNCHANGED <<uid_array, whitelist>>
    BY <1>3 DEF freezer_recv_msg, freezer_call_wrapper, Accepted, Listed, Resource
  <2> QED  BY <1>2, <2>1, UnchangedTables, UnchangedLists
<1>4. CASE /\ freezer_call_wrapper(req, refused)
           /\ req.action \in {"LOCK", "UNLOCK"} /\ req.resource \in Resource
  <2>1. /\ \/ frozen' = frozen
           \/ req.action = "LOCK" /\ frozen' = frozen \cup {<<req.resource, req.uid>>}
           \/ req.action = "UNLOCK" /\ frozen' = frozen \ {<<req.resource, req.uid>>}
        /\ UNCHANGED <<allowed, broken>>
    BY <1>4, LockRefines
  <2>2. CASE frozen' = frozen
    BY <1>2, <2>1, <2>2
  <2>3. CASE req.action = "LOCK" /\ frozen' = frozen \cup {<<req.resource, req.uid>>}
    <3>1. Policy!Freeze(req)
      BY <1>4, <2>1, <2>3 DEF Policy!Freeze, Policy!Resource, Resource
    <3> QED  BY <1>1, <3>1 DEF Policy!Next, Policy!Command
  <2>4. CASE req.action = "UNLOCK" /\ frozen' = frozen \ {<<req.resource, req.uid>>}
    <3>1. Policy!Unfreeze(req)
      BY <1>4, <2>1, <2>4 DEF Policy!Unfreeze, Policy!Resource, Resource
    <3> QED  BY <1>1, <3>1 DEF Policy!Next, Policy!Command
  <2> QED  BY <2>1, <2>2, <2>3, <2>4
<1>5. CASE /\ freezer_call_wrapper(req, refused)
           /\ req.action = "WHITELIST" /\ req.resource \in Listed
  <2> DEFINE r == req.resource
             u == req.uid
  <2>1. /\ UNCHANGED frozen
        /\ \/ UNCHANGED <<allowed, broken>>
           \/ allowed' = allowed \cup {<<r, u, req.data>>} /\ UNCHANGED broken
           \/ /\ \E d \in Data : <<r, u, d>> \in allowed
              /\ broken' = broken \cup {<<r, u>>} /\ UNCHANGED allowed
    BY <1>5, WhitelistRefines
  <2>2. r \in Policy!Listed
    BY <1>5 DEF Listed, Policy!Listed, Policy!Resource
  <2>3. CASE UNCHANGED <<allowed, broken>>
    BY <1>2, <2>1, <2>3
  <2>4. CASE allowed' = allowed \cup {<<r, u, req.data>>} /\ UNCHANGED broken
    <3>1. Policy!Allow(req)
      BY <1>5, <2>1, <2>2, <2>4 DEF Policy!Allow
    <3> QED  BY <1>1, <3>1 DEF Policy!Next, Policy!Command
  <2>5. CASE /\ \E d \in Data : <<r, u, d>> \in allowed
             /\ broken' = broken \cup {<<r, u>>} /\ UNCHANGED allowed
    <3>1. Policy!Break(req)
      BY <1>5, <2>1, <2>2, <2>5 DEF Policy!Break
    <3> QED  BY <1>1, <3>1 DEF Policy!Next, Policy!Command
  <2> QED  BY <2>1, <2>3, <2>4, <2>5
<1> QED  BY <1>3, <1>4, <1>5 DEF freezer_recv_msg, freezer_call_wrapper, Accepted

\* What becomes of a call, in the words of the policy.
Verdict(result) ==
  CASE result = "original" -> "passed"
    [] result = "oops" -> "died"
    [] OTHER -> "refused"

\* The decision of a hook is a step of the policy when it is what the policy
\* says of the call.
LEMMA ReturnRefines ==
  ASSUME NEW c \in Calls, NEW result, Return(c, result),
         \/ Verdict(result) = "refused" /\ Policy!Refused(c)
         \/ Verdict(result) = "passed" /\ ~Policy!Refused(c) /\ ~Policy!Unsafe(c)
         \/ Verdict(result) = "died" /\ Policy!Unsafe(c)
  PROVE  Policy!Next
<1>1. judged' = [kind |-> "call", call |-> c, verdict |-> Verdict(result)]
  <2>1. event'.kind = "call" /\ event'.call = c /\ event'.result = result
    BY DEF Return
  <2> QED  BY <2>1 DEF judged, Verdict
<1>2. UNCHANGED <<frozen, allowed, broken>>
  BY UnchangedTables, UnchangedLists DEF Return
<1>3. Policy!Judge(c, Verdict(result))
  BY <1>1, <1>2 DEF Policy!Judge
<1> QED  BY <1>3 DEF Policy!Next, Verdict

\* A call to which one list applies: the hooks of execve, connect and write.
LEMMA OneListRefines ==
  ASSUME IInv, NEW r \in Listed, NEW c \in Calls, NEW refusal \in {"-1", "0", "EACCES"},
         NEW result, Return(c, result),
         Policy!Guards[c.syscall] = {r},
         result = IF Hooked(r, c) /\ c.data \in Policy!Subject(c.syscall)
                    THEN Filtered(r, c, refusal)
                    ELSE "original"
  PROVE  Policy!Next
<1>1. c \in Call /\ c.uid \in Uid /\ r \in Resource
  BY FreezerModuleAssumption DEF Call, Listed, Resource
<1>2. Hooked(r, c) <=> <<r, c.uid>> \in frozen
  BY <1>1, FrozenView DEF Hooked
<1>3. Policy!Refused(c) <=> /\ c.data \in Policy!Subject(c.syscall)
                            /\ Hooked(r, c) /\ ~Policy!Exempt(r, c)
  BY <1>2 DEF Policy!Refused
<1>4. Policy!Unsafe(c) <=> /\ c.data \in Policy!Subject(c.syscall)
                           /\ Hooked(r, c)
                           /\ lookup_faults(whitelist[r], c.data, c.uid)
  BY <1>1, <1>2, ListView DEF Policy!Unsafe, Listed
<1>5. resource_data_is_in_whitelist(whitelist[r], c.data, c.uid) <=> Policy!Exempt(r, c)
  BY <1>1, ListView
<1>6. \/ Verdict(result) = "refused" /\ Policy!Refused(c)
      \/ Verdict(result) = "passed" /\ ~Policy!Refused(c) /\ ~Policy!Unsafe(c)
      \/ Verdict(result) = "died" /\ Policy!Unsafe(c)
  <2> DEFINE applies == Hooked(r, c) /\ c.data \in Policy!Subject(c.syscall)
             faults == lookup_faults(whitelist[r], c.data, c.uid)
             found == resource_data_is_in_whitelist(whitelist[r], c.data, c.uid)
  <2>1. CASE ~applies
    <3>1. result = "original"
      BY <2>1
    <3> QED  BY <1>3, <1>4, <2>1, <3>1 DEF Verdict
  <2>2. CASE applies /\ faults
    <3>1. result = "oops"
      BY <2>2 DEF Filtered
    <3> QED  BY <1>4, <2>2, <3>1 DEF Verdict
  <2>3. CASE applies /\ ~faults /\ found
    <3>1. result = "original"
      BY <2>3 DEF Filtered
    <3> QED  BY <1>3, <1>4, <1>5, <2>3, <3>1 DEF Verdict
  <2>4. CASE applies /\ ~faults /\ ~found
    <3>1. result = refusal
      BY <2>4 DEF Filtered
    <3> QED  BY <1>3, <1>5, <2>4, <3>1 DEF Verdict
  <2> QED  BY <2>1, <2>2, <2>3, <2>4
<1> QED  BY <1>6, ReturnRefines

\* Every decision of hooked_execve, hooked_connect and hooked_write.
LEMMA OneListHooksRefine ==
  ASSUME IInv, NEW c \in Calls, hooked_execve(c) \/ hooked_connect(c) \/ hooked_write(c)
  PROVE  Policy!Next
<1>1. c.data \in Data \cup {NoData}
  BY FreezerModuleAssumption DEF Call
<1>2. CASE hooked_execve(c)
  <2>1. Policy!Guards[c.syscall] = {"PROCESS"} /\ Policy!Subject(c.syscall) = Data
    BY <1>2 DEF hooked_execve, Policy!Guards, Policy!Subject
  <2>2. c.data # NoData <=> c.data \in Data
    BY <1>1, WhitelistAssumption
  <2>3. Return(c, IF Hooked("PROCESS", c) /\ c.data \in Policy!Subject(c.syscall)
                    THEN Filtered("PROCESS", c, "-1") ELSE "original")
    BY <1>2, <2>1, <2>2 DEF hooked_execve
  <2> QED  BY <2>1, <2>3, OneListRefines DEF Listed
<1>3. CASE hooked_connect(c)
  <2>1. Policy!Guards[c.syscall] = {"NETWORK"} /\ Policy!Subject(c.syscall) = Ipv4
    BY <1>3 DEF hooked_connect, Policy!Guards, Policy!Subject
  <2>2. Return(c, IF Hooked("NETWORK", c) /\ c.data \in Policy!Subject(c.syscall)
                    THEN Filtered("NETWORK", c, "-1") ELSE "original")
    BY <1>3, <2>1 DEF hooked_connect
  <2> QED  BY <2>1, <2>2, OneListRefines DEF Listed
<1>4. CASE hooked_write(c)
  <2>1. /\ Policy!Guards[c.syscall] = {"FILE"}
        /\ Policy!Subject(c.syscall) = Data \cup {NoData}
    BY <1>4 DEF hooked_write, Policy!Guards, Policy!Subject
  <2>2. Return(c, IF Hooked("FILE", c) /\ c.data \in Policy!Subject(c.syscall)
                    THEN Filtered("FILE", c, "0") ELSE "original")
    BY <1>1, <1>4, <2>1 DEF hooked_write
  <2> QED  BY <2>1, <2>2, OneListRefines DEF Listed
<1> QED  BY <1>2, <1>3, <1>4

\* Every decision of hooked_openat, which two resources guard.
LEMMA OpenRefines ==
  ASSUME IInv, NEW c \in Calls, hooked_openat(c)
  PROVE  Policy!Next
<1> DEFINE session == Hooked("SESSIONS", c) /\ <<c.data, PasswdFile>> \in PrefixOf
           faults == lookup_faults(whitelist["FILE"], c.data, c.uid)
           found == resource_data_is_in_whitelist(whitelist["FILE"], c.data, c.uid)
<1>1. c \in Call /\ c.uid \in Uid /\ c.data \in Data \cup {NoData}
  BY FreezerModuleAssumption DEF Call
<1>2. /\ Policy!Guards[c.syscall] = {"SESSIONS", "FILE"}
      /\ Policy!Subject(c.syscall) = Data
  BY DEF hooked_openat, Policy!Guards, Policy!Subject
<1>3. c.data \in Data <=> c.data # NoData
  BY <1>1, WhitelistAssumption
<1>4. /\ Hooked("SESSIONS", c) <=> <<"SESSIONS", c.uid>> \in frozen
      /\ Hooked("FILE", c) <=> <<"FILE", c.uid>> \in frozen
  BY <1>1, FrozenView DEF Hooked, Resource
<1>5. /\ found <=> Policy!Exempt("FILE", c)
      /\ faults <=> /\ \E d \in Data : <<"FILE", c.uid, d>> \in allowed
                    /\ <<"FILE", c.uid>> \in broken \/ c.data = NoData
  BY <1>1, ListView DEF Listed
<1>6. Policy!Exempt("SESSIONS", c) <=> <<c.data, PasswdFile>> \notin PrefixOf
  BY DEF Policy!Exempt
<1>7. Policy!Refused(c) <=> /\ c.data # NoData
                            /\ session \/ (Hooked("FILE", c) /\ ~found)
  BY <1>2, <1>3, <1>4, <1>5, <1>6 DEF Policy!Refused
<1>8. Policy!Unsafe(c) <=> c.data # NoData /\ Hooked("FILE", c) /\ faults
  BY <1>2, <1>3, <1>4, <1>5 DEF Policy!Unsafe
<1>9. PICK result : /\ Return(c, result)
                    /\ result = IF c.data = NoData THEN "original"
                                ELSE IF session THEN "EACCES"
                                ELSE IF Hooked("FILE", c)
                                       THEN Filtered("FILE", c, "EACCES")
                                ELSE "original"
  BY DEF hooked_openat
<1>10. \/ Verdict(result) = "refused" /\ Policy!Refused(c)
       \/ Verdict(result) = "passed" /\ ~Policy!Refused(c) /\ ~Policy!Unsafe(c)
       \/ Verdict(result) = "died" /\ Policy!Unsafe(c)
  <2>1. CASE c.data = NoData
    <3>1. result = "original"
      BY <1>9, <2>1
    <3> QED  BY <1>7, <1>8, <2>1, <3>1 DEF Verdict
  <2>2. CASE c.data # NoData /\ session
    <3>1. result = "EACCES"
      BY <1>9, <2>2
    <3> QED  BY <1>7, <2>2, <3>1 DEF Verdict
  <2>3. CASE c.data # NoData /\ ~session /\ ~Hooked("FILE", c)
    <3>1. result = "original"
      BY <1>9, <2>3
    <3> QED  BY <1>7, <1>8, <2>3, <3>1 DEF Verdict
  <2>4. CASE c.data # NoData /\ ~session /\ Hooked("FILE", c)
    <3>1. result = IF faults THEN "oops" ELSE IF found THEN "original" ELSE "EACCES"
      BY <1>9, <2>4 DEF Filtered
    <3>2. CASE faults
      <4>1. result = "oops"
        BY <3>1, <3>2
      <4> QED  BY <1>8, <2>4, <3>2, <4>1 DEF Verdict
    <3>3. CASE ~faults /\ found
      <4>1. result = "original"
        BY <3>1, <3>3
      <4> QED  BY <1>7, <1>8, <2>4, <3>3, <4>1 DEF Verdict
    <3>4. CASE ~faults /\ ~found
      <4>1. result = "EACCES"
        BY <3>1, <3>4
      <4> QED  BY <1>7, <2>4, <3>4, <4>1 DEF Verdict
    <3> QED  BY <3>2, <3>3, <3>4
  <2> QED  BY <2>1, <2>2, <2>3, <2>4
<1> QED  BY <1>9, <1>10, ReturnRefines

\* Every step of the module is a step of the policy or leaves it alone.
LEMMA NextRefines ==
  IInv /\ [Next]_vars => [Policy!Next]_Policy!vars
<1> SUFFICES ASSUME IInv, [Next]_vars PROVE [Policy!Next]_Policy!vars
  OBVIOUS
<1>1. CASE Next
  BY <1>1, CommandRefines, OneListHooksRefine, OpenRefines DEF Next
<1>2. CASE UNCHANGED vars
  <2>1. UNCHANGED judged
    BY <1>2 DEF vars, judged
  <2> QED  BY <1>2, <2>1, UnchangedTables, UnchangedLists DEF vars, Policy!vars
<1> QED  BY <1>1, <1>2

\* The module implements the policy: a command changes the pair it names and
\* no other, and the hooks refuse exactly the calls the policy refuses.
THEOREM Refinement == Spec => ImplementsPolicy
<1>1. Init => Policy!Init
  BY InitRefines
<1>2. IInv /\ [Next]_vars => [Policy!Next]_Policy!vars
  BY NextRefines
<1> QED  BY <1>1, <1>2, IInvAlways, PTL DEF Spec, ImplementsPolicy, Policy!Spec

-----------------------------------------------------------------------------
(* FreezerLib. *)

\* Between init_socket and the return, and in the loop.
InMessage == {"init_socket", "send", "receive", "exit_socket"}

\* A message is live from sendmsg to exit_socket, and the descriptors are the
\* one of the call in progress and those that bind leaked.
Accounted(q) ==
  /\ q.nlh = "live" => q.pc \in {"receive", "exit_socket"}
  /\ q.pc = "receive" => q.nlh = "live"
  /\ q.pc = "exit_socket" => q.nlh # "freed"
  /\ q.sockets =
       q.leaked + (IF q.pc \in {"send", "receive", "exit_socket"} THEN 1 ELSE 0)

\* A call in progress is one of the calls, and the loop never sends a message
\* about the excepted user.
Named(q) ==
  /\ q.pc # "idle" => q.call \in ApiCalls
  /\ q.pc = "next_user" => q.call.except /\ q.entry \in 1 .. Len(Utmp) + 1
  /\ q.pc \in InMessage /\ q.call.except =>
       q.uid # q.call.uid /\ q.entry \in 1 .. Len(Utmp)

ProcInv(q) == q \in ProcessState /\ Accounted(q) /\ Named(q)
LibInv == proc \in [Process -> ProcessState] /\ \A p \in Process : ProcInv(proc[p])

\* A process that has just been started.
LEMMA StartedGood == ProcInv(Started)
<1>1. Started \in ProcessState
  BY FreezerLibAssumption, UidTableAssumption DEF Started, ProcessState
<1>2. Accounted(Started) /\ Named(Started)
  BY DEF Started, Accounted, Named, InMessage
<1> QED  BY <1>1, <1>2 DEF ProcInv

\* One process at a time moves: it is enough that its new state is good.
LEMMA OneMoves ==
  ASSUME LibInv, NEW p \in Process, NEW q, ProcInv(q), proc' = [proc EXCEPT ![p] = q]
  PROVE  LibInv'
BY DEF LibInv, ProcInv

\* The return of send_socket_msg with false, which is what it always returns.
LEMMA AfterSendFalse ==
  ASSUME NEW q \in ProcessState, q.call \in ApiCalls, Accounted([q EXCEPT !.pc = "returned"])
  PROVE  ProcInv(After_send(q, FALSE))
<1> DEFINE s == [q EXCEPT !.pc = "returned", !.result = FALSE]
<1>1. After_send(q, FALSE) = s
  BY DEF After_send
<1>2. s \in ProcessState
  BY DEF ProcessState
<1>3. Accounted(s)
  BY DEF Accounted, ProcessState
<1>4. Named(s)
  BY DEF Named, InMessage, ProcessState
<1> QED  BY <1>1, <1>2, <1>3, <1>4 DEF ProcInv

\* A call begins.
LEMMA CallGood ==
  ASSUME LibInv, NEW p \in Process, NEW call \in ApiCalls, Call_api(p, call)
  PROVE  LibInv'
<1> DEFINE q == proc[p]
           s == [q EXCEPT !.pc = IF call.except THEN "next_user" ELSE "init_socket",
                          !.call = call, !.entry = 1, !.uid = call.uid]
<1>1. q \in ProcessState /\ Accounted(q) /\ q.pc = "idle"
  BY DEF LibInv, ProcInv, Call_api, Busy
<1>2. call.uid \in Uid /\ call.except \in BOOLEAN
  BY FreezerLibAssumption DEF ApiCall
<1>3. Len(Utmp) \in Nat
  BY FreezerLibAssumption
<1>4. s \in ProcessState
  <2>1. (IF call.except THEN "next_user" ELSE "init_socket") \in {"next_user", "init_socket"}
    OBVIOUS
  <2>2. 1 \in 0 .. Len(Utmp) + 1
    BY <1>3
  <2> QED  BY <1>1, <1>2, <2>1, <2>2 DEF ProcessState
<1>5. Accounted(s) /\ Named(s)
  BY <1>1, <1>2, <1>3 DEF Accounted, Named, InMessage, ProcessState
<1>6. proc' = [proc EXCEPT ![p] = s]
  BY DEF Call_api
<1> HIDE DEF s
<1> QED  BY <1>4, <1>5, <1>6, OneMoves DEF ProcInv

\* A round of the loop over the users.
LEMMA NextUserGood ==
  ASSUME LibInv, NEW p \in Process, next_user(p)
  PROVE  LibInv'
<1> DEFINE q == proc[p]
           n == Len(Utmp)
<1>1. q \in ProcessState /\ Accounted(q) /\ Named(q) /\ q.pc = "next_user"
  BY DEF LibInv, ProcInv, next_user
<1>2. q.call \in ApiCalls /\ q.call.except /\ q.entry \in 1 .. n + 1 /\ n \in Nat
  BY <1>1, FreezerLibAssumption DEF Named
<1>3. ASSUME NEW result \in BOOLEAN, NEW failed \in BOOLEAN,
             Return_from_loop(p, result, failed)
      PROVE  LibInv'
  <2> DEFINE s == [q EXCEPT !.pc = "returned", !.result = result, !.failed = failed]
  <2>1. s \in ProcessState /\ Accounted(s) /\ Named(s)
    BY <1>1, <1>2 DEF ProcessState, Accounted, Named, InMessage
  <2>2. proc' = [proc EXCEPT ![p] = s]
    BY <1>3 DEF Return_from_loop
  <2> HIDE DEF s
  <2> QED  BY <2>1, <2>2, OneMoves DEF ProcInv
<1>4. ASSUME q.entry <= n, Utmp[q.entry] \in {NoUser, q.call.uid},
             proc' = [proc EXCEPT ![p] = [q EXCEPT !.entry = @ + 1]]
      PROVE  LibInv'
  <2> DEFINE s == [q EXCEPT !.entry = @ + 1]
  <2>1. s \in ProcessState /\ Accounted(s) /\ Named(s)
    BY <1>1, <1>2, <1>4 DEF ProcessState, Accounted, Named, InMessage
  <2>6. proc' = [proc EXCEPT ![p] = s]
    BY <1>4
  <2> HIDE DEF s
  <2> QED  BY <2>1, <2>6, OneMoves DEF ProcInv
<1>5. ASSUME q.entry <= n, Utmp[q.entry] \notin {NoUser, q.call.uid},
             proc' = [proc EXCEPT ![p] =
                        [q EXCEPT !.pc = "init_socket", !.uid = Utmp[q.entry]]]
      PROVE  LibInv'
  <2> DEFINE s == [q EXCEPT !.pc = "init_socket", !.uid = Utmp[q.entry]]
  <2>1. Utmp[q.entry] \in Uid
    BY <1>2, <1>5, FreezerLibAssumption
  <2>2. s \in ProcessState
    BY <1>1, <2>1 DEF ProcessState
  <2>3. Accounted(s)
    BY <1>1 DEF ProcessState, Accounted
  <2>4. s.uid = Utmp[q.entry] /\ s.call = q.call /\ s.entry = q.entry /\ s.pc = "init_socket"
    BY <1>1 DEF ProcessState
  <2>5. Named(s)
    BY <1>2, <1>5, <2>4 DEF Named
  <2>6. proc' = [proc EXCEPT ![p] = s]
    BY <1>5
  <2> HIDE DEF s
  <2> QED  BY <2>2, <2>3, <2>5, <2>6, OneMoves DEF ProcInv
<1> DEFINE skip == Utmp[q.entry] \in {NoUser, q.call.uid}
<1>6. ASSUME q.entry <= n,
             proc' = [proc EXCEPT ![p] =
                        IF skip THEN [q EXCEPT !.entry = @ + 1]
                                ELSE [q EXCEPT !.pc = "init_socket", !.uid = Utmp[q.entry]]]
      PROVE  LibInv'
  <2>1. CASE skip
    BY <1>4, <1>6, <2>1
  <2>2. CASE ~skip
    BY <1>5, <1>6, <2>2
  <2> QED  BY <2>1, <2>2
<1> QED  BY <1>3, <1>6 DEF next_user

\* A socket is opened, leaked, or refused.
LEMMA InitSocketGood ==
  ASSUME LibInv, NEW p \in Process, init_socket(p)
  PROVE  LibInv'
<1> DEFINE q == proc[p]
           leak == [q EXCEPT !.sockets = @ + 1, !.leaked = @ + 1, !.failed = TRUE]
           refuse == [q EXCEPT !.failed = TRUE]
<1>1. q \in ProcessState /\ Accounted(q) /\ Named(q) /\ q.pc = "init_socket"
  BY DEF LibInv, ProcInv, init_socket
<1>2. q.call \in ApiCalls /\ MaxSockets \in Nat
  BY <1>1, FreezerLibAssumption DEF Named
<1>3. ASSUME q.sockets < MaxSockets,
             proc' = [proc EXCEPT ![p] = [q EXCEPT !.pc = "send", !.sockets = @ + 1,
                                                   !.queue = "empty"]]
      PROVE  LibInv'
  <2> DEFINE s == [q EXCEPT !.pc = "send", !.sockets = @ + 1, !.queue = "empty"]
  <2>1. q.sockets + 1 \in 0 .. MaxSockets
    BY <1>1, <1>2, <1>3 DEF ProcessState
  <2>2. s \in ProcessState
    BY <1>1, <2>1 DEF ProcessState
  <2>3. Accounted(s)
    BY <1>1 DEF ProcessState, Accounted
  <2>4. Named(s)
    BY <1>1 DEF ProcessState, Named, InMessage
  <2>5. proc' = [proc EXCEPT ![p] = s]
    BY <1>3
  <2> HIDE DEF s
  <2> QED  BY <2>2, <2>3, <2>4, <2>5, OneMoves DEF ProcInv
<1>4. ASSUME q.sockets < MaxSockets,
             proc' = [proc EXCEPT ![p] = After_send(leak, FALSE)]
      PROVE  LibInv'
  <2>0. q.sockets + 1 \in 0 .. MaxSockets
    BY <1>1, <1>2, <1>4 DEF ProcessState
  <2>1. leak \in ProcessState /\ leak.call \in ApiCalls
    <3>1. q.leaked + 1 \in Nat
      BY <1>1 DEF ProcessState
    <3> QED  BY <1>1, <1>2, <2>0, <3>1 DEF ProcessState
  <2>2. Accounted([leak EXCEPT !.pc = "returned"])
    BY <1>1 DEF Accounted, ProcessState
  <2> QED  BY <1>4, <2>1, <2>2, AfterSendFalse, OneMoves
<1>5. ASSUME proc' = [proc EXCEPT ![p] = After_send(refuse, FALSE)]
      PROVE  LibInv'
  <2>1. refuse \in ProcessState /\ refuse.call \in ApiCalls
    BY <1>1, <1>2 DEF ProcessState
  <2>2. Accounted([refuse EXCEPT !.pc = "returned"])
    BY <1>1 DEF Accounted, ProcessState
  <2> QED  BY <1>5, <2>1, <2>2, AfterSendFalse, OneMoves
<1>6. \/ /\ q.sockets < MaxSockets
         /\ proc' = [proc EXCEPT ![p] = [q EXCEPT !.pc = "send", !.sockets = @ + 1,
                                                  !.queue = "empty"]]
      \/ q.sockets < MaxSockets /\ proc' = [proc EXCEPT ![p] = After_send(leak, FALSE)]
      \/ proc' = [proc EXCEPT ![p] = After_send(refuse, FALSE)]
  BY DEF init_socket
<1> QED  BY <1>3, <1>4, <1>5, <1>6

\* The steps of a process that has a socket, but for the handler's part.
LEMMA SocketStepsGood ==
  ASSUME LibInv, NEW p \in Process,
         \/ send_message_fails(p) \/ receive_message(p) \/ receive_message_fails(p)
         \/ exit_socket(p) \/ Return_api(p) \/ Killed(p)
  PROVE  LibInv'
<1> DEFINE q == proc[p]
<1>1. q \in ProcessState /\ Accounted(q) /\ Named(q)
  BY DEF LibInv, ProcInv
<1>2. CASE send_message_fails(p)
  <2>1. PICK nlh \in {"null", "live"} :
          proc' = [proc EXCEPT ![p].pc = "exit_socket", ![p].nlh = nlh,
                               ![p].done = FALSE, ![p].failed = TRUE]
    BY <1>2 DEF send_message_fails
  <2> DEFINE s == [q EXCEPT !.pc = "exit_socket", !.nlh = nlh, !.done = FALSE,
                            !.failed = TRUE]
  <2>2. q.pc = "send"
    BY <1>2 DEF send_message_fails
  <2>3. s \in ProcessState /\ Accounted(s) /\ Named(s)
    BY <1>1, <2>2 DEF ProcessState, Accounted, Named, InMessage
  <2>4. proc' = [proc EXCEPT ![p] = s]
    BY <2>1
  <2> HIDE DEF s
  <2> QED  BY <2>3, <2>4, OneMoves DEF ProcInv
<1>3. CASE receive_message(p)
  <2> DEFINE s == [q EXCEPT !.pc = "exit_socket", !.done = (q.queue = "DONE"),
                            !.queue = "empty"]
  <2>1. q.pc = "receive"
    BY <1>3 DEF receive_message
  <2>2. s \in ProcessState /\ Accounted(s) /\ Named(s)
    BY <1>1, <2>1 DEF ProcessState, Accounted, Named, InMessage
  <2>3. proc' = [proc EXCEPT ![p] = s]
    BY <1>3 DEF receive_message
  <2> HIDE DEF s
  <2> QED  BY <2>2, <2>3, OneMoves DEF ProcInv
<1>4. CASE receive_message_fails(p)
  <2> DEFINE s == [q EXCEPT !.pc = "exit_socket", !.done = FALSE, !.failed = TRUE]
  <2>1. q.pc = "receive"
    BY <1>4 DEF receive_message_fails
  <2>2. s \in ProcessState /\ Accounted(s) /\ Named(s)
    BY <1>1, <2>1 DEF ProcessState, Accounted, Named, InMessage
  <2>3. proc' = [proc EXCEPT ![p] = s]
    BY <1>4 DEF receive_message_fails
  <2> HIDE DEF s
  <2> QED  BY <2>2, <2>3, OneMoves DEF ProcInv
<1>5. CASE exit_socket(p)
  <2> DEFINE s == [q EXCEPT !.nlh = IF @ = "null" THEN @ ELSE "freed",
                            !.sockets = @ - 1, !.done = FALSE]
  <2>1. q.pc = "exit_socket"
    BY <1>5 DEF exit_socket
  <2>2. q.call \in ApiCalls /\ MaxSockets \in Nat /\ q.sockets - 1 \in 0 .. MaxSockets
    BY <1>1, <2>1, FreezerLibAssumption DEF Named, Accounted, ProcessState
  <2>3. (IF q.nlh = "null" THEN q.nlh ELSE "freed") \in {"null", "freed"}
    OBVIOUS
  <2>4. s \in ProcessState /\ s.call \in ApiCalls
    BY <1>1, <2>2, <2>3 DEF ProcessState
  <2>5. Accounted([s EXCEPT !.pc = "returned"])
    BY <1>1, <2>1 DEF Accounted, ProcessState
  <2>6. proc' = [proc EXCEPT ![p] = After_send(s, FALSE)]
    <3>1. proc' = [proc EXCEPT ![p] = After_send(s, q.done /\ Closed # 0)]
      BY <1>5 DEF exit_socket
    <3>2. (q.done /\ Closed # 0) = FALSE
      BY DEF Closed
    <3> QED  BY <3>1, <3>2
  <2> HIDE DEF s
  <2> QED  BY <2>4, <2>5, <2>6, AfterSendFalse, OneMoves
<1>6. CASE Return_api(p)
  <2> DEFINE s == [Started EXCEPT !.nlh = q.nlh, !.sockets = q.sockets,
                                  !.leaked = q.leaked]
  <2>1. q.pc = "returned"
    BY <1>6 DEF Return_api
  <2>2. Started \in ProcessState /\ Started.pc = "idle" /\ Started.call = NoCall
    BY StartedGood DEF ProcInv, Started
  <2>3. s \in ProcessState
    BY <1>1, <2>2 DEF ProcessState
  <2>4. Accounted(s) /\ Named(s)
    BY <1>1, <2>1, <2>2 DEF ProcessState, Accounted, Named, InMessage
  <2>5. proc' = [proc EXCEPT ![p] = s]
    BY <1>6 DEF Return_api
  <2> HIDE DEF s
  <2> QED  BY <2>3, <2>4, <2>5, OneMoves DEF ProcInv
<1>7. CASE Killed(p)
  BY <1>7, StartedGood, OneMoves DEF Killed
<1> QED  BY <1>2, <1>3, <1>4, <1>5, <1>6, <1>7

\* The request of a process that sends is one of the requests of the module.
LEMMA SentRequest ==
  ASSUME LibInv, NEW p \in Process, proc[p].pc = "send"
  PROVE  Message(proc[p].call, proc[p].uid) \in Requests
<1>1. proc[p].call \in ApiCalls /\ proc[p].uid \in Uid
  BY DEF LibInv, ProcInv, Named, ProcessState
<1> QED  BY <1>1, FreezerLibAssumption

\* The handler's part of a step.
LEMMA SendGood ==
  ASSUME LibInv, NEW p \in Process, send_message(p)
  PROVE  LibInv'
<1> DEFINE q == proc[p]
           req == Message(q.call, q.uid)
<1>1. q \in ProcessState /\ Accounted(q) /\ Named(q) /\ q.pc = "send"
  BY DEF LibInv, ProcInv, send_message
<1>2. PICK refused \in SUBSET Allocation(req) :
        /\ freezer_recv_msg(req, refused)
        /\ proc' = [proc EXCEPT ![p] =
             IF "copy" \notin refused /\ HandlerFaults(req, refused)
               THEN Started
               ELSE [q EXCEPT
                       !.pc = "receive", !.nlh = "live",
                       !.queue = IF event'.reply = "NONE" THEN @ ELSE event'.reply,
                       !.failed = @ \/ event'.reply # "DONE",
                       !.reached = IF "copy" \in refused THEN @ ELSE @ \cup {req.uid}]]
  BY DEF send_message
<1> DEFINE queue == IF event'.reply = "NONE" THEN q.queue ELSE event'.reply
           failed == q.failed \/ event'.reply # "DONE"
           reached == IF "copy" \in refused THEN q.reached ELSE q.reached \cup {req.uid}
           s == [q EXCEPT !.pc = "receive", !.nlh = "live", !.queue = queue,
                          !.failed = failed, !.reached = reached]
<1>3. CASE "copy" \notin refused /\ HandlerFaults(req, refused)
  <2>1. proc' = [proc EXCEPT ![p] = Started]
    BY <1>2, <1>3
  <2> QED  BY <2>1, StartedGood, OneMoves
<1>4. CASE ~("copy" \notin refused /\ HandlerFaults(req, refused))
  <2>1. proc' = [proc EXCEPT ![p] = s]
    BY <1>2, <1>4
  <2>2. event'.reply \in {"DONE", "ERROR", "NONE"}
    BY <1>2 DEF freezer_recv_msg
  <2>3. queue \in {"empty", "DONE", "ERROR"} /\ failed \in BOOLEAN
    BY <1>1, <2>2 DEF ProcessState
  <2>4. reached \in SUBSET Uid
    BY <1>1 DEF ProcessState, Message
  <2> HIDE DEF queue, failed, reached
  <2>5. s \in ProcessState
    BY <1>1, <2>3, <2>4 DEF ProcessState
  <2>6. Accounted(s) /\ Named(s)
    BY <1>1 DEF ProcessState, Accounted, Named, InMessage
  <2> HIDE DEF s
  <2> QED  BY <2>1, <2>5, <2>6, OneMoves DEF ProcInv
<1> QED  BY <1>3, <1>4

\* Every step of the library is a step of the module, or leaves it alone.
LEMMA LibNextIsNext ==
  LibInv /\ [LibNext]_libvars => [Next]_vars
<1> SUFFICES ASSUME LibInv, LibNext PROVE Next \/ UNCHANGED vars
  BY DEF libvars
<1>1. PICK p \in Process : \/ LibStep(p) \/ receive_message_fails(p) \/ Killed(p)
                           \/ \E call \in ApiCalls : Call_api(p, call)
  BY DEF LibNext
<1>2. CASE send_message(p)
  <2>1. PICK refused \in SUBSET Allocation(Message(proc[p].call, proc[p].uid)) :
          freezer_recv_msg(Message(proc[p].call, proc[p].uid), refused)
    BY <1>2 DEF send_message
  <2>2. Message(proc[p].call, proc[p].uid) \in Requests
    BY <1>2, SentRequest DEF send_message
  <2> QED  BY <2>1, <2>2 DEF Next
<1>3. CASE ~send_message(p)
  BY <1>1, <1>3
     DEF LibStep, next_user, init_socket, send_message_fails, receive_message,
         receive_message_fails, exit_socket, Return_api, Killed, Call_api
<1> QED  BY <1>2, <1>3

\* The invariant of the processes is kept.
LEMMA LibInvNext ==
  LibInv /\ [LibNext]_libvars => LibInv'
<1> SUFFICES ASSUME LibInv, [LibNext]_libvars PROVE LibInv'
  OBVIOUS
<1>1. CASE LibNext
  BY <1>1, CallGood, NextUserGood, InitSocketGood, SendGood, SocketStepsGood
     DEF LibNext, LibStep
<1>2. CASE UNCHANGED libvars
  BY <1>2 DEF libvars, LibInv, ProcInv
<1> QED  BY <1>1, <1>2

THEOREM LibInvAlways == LibSpec => []LibInv
<1>1. LibInit => LibInv
  BY StartedGood DEF LibInit, LibInv, ProcInv
<1> QED  BY <1>1, LibInvNext, PTL DEF LibSpec

\* What the library makes of the module is a behaviour of FreezerModule: all
\* that is proved of the module holds under the library.
THEOREM LibraryDrivesModule == LibSpec => Spec
<1>1. LibInit => Init
  BY DEF LibInit
<1> QED  BY <1>1, LibNextIsNext, LibInvAlways, PTL DEF LibSpec, Spec

\* Types of the composition.
THEOREM LibTypeCorrect == LibSpec => []LibTypeOK
<1>1. LibInv /\ TypeOK => LibTypeOK
  BY DEF LibInv, LibTypeOK
<1> QED  BY <1>1, LibInvAlways, LibraryDrivesModule, TypeCorrect, PTL

\* No message is lost, used after it was freed or freed twice, and no socket
\* stays open but those that could not be bound.
THEOREM CallsGiveBackAlways == LibSpec => []CallsGiveBack
<1>1. LibInv => CallsGiveBack
  BY DEF LibInv, ProcInv, Accounted, CallsGiveBack
<1> QED  BY <1>1, LibInvAlways, PTL

-----------------------------------------------------------------------------
(* The excepted user. *)

\* A command leaves every user but the one it names as he was.
LEMMA OthersUntouched ==
  ASSUME IInv, NEW req \in Requests, NEW refused, freezer_recv_msg(req, refused),
         NEW u, u # req.uid
  PROVE  /\ \A r \in Resource :
              is_hooked_user(uid_array'[r], u) = is_hooked_user(uid_array[r], u)
         /\ \A r \in Listed : Stored(whitelist'[r], u) = Stored(whitelist[r], u)
<1> USE RequestFacts
<1> DEFINE r == req.resource
<1>1. CASE UNCHANGED <<uid_array, whitelist>>
  BY <1>1
<1>2. CASE /\ req.action = "LOCK" /\ r \in Resource
           /\ uid_array' = [uid_array EXCEPT ![r] = add_uid_to_array(@, req.uid)]
           /\ UNCHANGED whitelist
  <2>1. uid_array[r] \in Table /\ uid_array \in [Resource -> Table]
    BY <1>2 DEF IInv, GoodTables
  <2>2. is_hooked_user(uid_array'[r], u) <=> is_hooked_user(uid_array[r], u)
    BY <1>2, <2>1, AddMembers
  <2>3. is_hooked_user(uid_array'[r], u) = is_hooked_user(uid_array[r], u)
    BY <2>2 DEF is_hooked_user
  <2> QED  BY <1>2, <2>1, <2>3
<1>3. CASE /\ req.action = "UNLOCK" /\ r \in Resource
           /\ uid_array' = [uid_array EXCEPT ![r] = remove_uid_from_array(@, req.uid)]
           /\ UNCHANGED whitelist
  <2>1. /\ uid_array[r] \in Table /\ NoDuplicate(uid_array[r])
        /\ uid_array \in [Resource -> Table]
    BY <1>3 DEF IInv, GoodTables
  <2>2. is_hooked_user(uid_array'[r], u) <=> is_hooked_user(uid_array[r], u)
    BY <1>3, <2>1, RemoveMembers
  <2>3. is_hooked_user(uid_array'[r], u) = is_hooked_user(uid_array[r], u)
    BY <2>2 DEF is_hooked_user
  <2> QED  BY <1>3, <2>1, <2>3
<1>4. CASE /\ req.action = "WHITELIST" /\ r \in Listed
           /\ whitelist' = [whitelist EXCEPT
                ![r] = add_to_whitelist(@, req.data, req.uid, refused)]
           /\ UNCHANGED uid_array
  <2>1. GoodList(whitelist[r]) /\ whitelist \in [Listed -> Seq(Entry)]
    BY <1>4 DEF IInv, GoodLists
  <2>2. Stored(whitelist'[r], u) = Stored(whitelist[r], u)
    BY <1>4, <2>1, AddToWhitelistFacts
  <2> QED  BY <1>4, <2>1, <2>2
<1> QED  BY <1>1, <1>2, <1>3, <1>4 DEF freezer_recv_msg, freezer_call_wrapper

\* Whatever a call for everyone except a user does, and whatever other
\* processes do in between, its own steps leave that user as frozen as he was,
\* and with the same lists.
THEOREM ExceptSparesAlways == LibSpec => ExceptSpares
<1> DEFINE Step(p) ==
      proc[p].pc = "send" /\ proc'[p] # proc[p] /\ proc[p].call.except =>
        LET u == proc[p].call.uid
        IN  /\ \A r \in Resource :
                 is_hooked_user(uid_array'[r], u) = is_hooked_user(uid_array[r], u)
            /\ \A r \in Listed : Stored(whitelist'[r], u) = Stored(whitelist[r], u)
<1>1. ASSUME LibInv, IInv, LibNext, NEW p \in Process
      PROVE  Step(p)
  <2> SUFFICES ASSUME proc[p].pc = "send", proc'[p] # proc[p], proc[p].call.except
               PROVE  LET u == proc[p].call.uid
                      IN  /\ \A r \in Resource :
                               is_hooked_user(uid_array'[r], u)
                                 = is_hooked_user(uid_array[r], u)
                          /\ \A r \in Listed :
                               Stored(whitelist'[r], u) = Stored(whitelist[r], u)
    OBVIOUS
  <2>1. CASE UNCHANGED vars
    BY <2>1 DEF vars
  <2>2. CASE ~UNCHANGED vars
    <3>1. send_message(p)
      <4>1. PICK o \in Process : send_message(o)
        BY <1>1, <2>2
           DEF LibNext, LibStep, next_user, init_socket, send_message_fails,
               receive_message, receive_message_fails, exit_socket, Return_api,
               Killed, Call_api
      <4>2. \A x \in Process : x # o => proc'[x] = proc[x]
        BY <1>1, <4>1 DEF send_message, LibInv
      <4> QED  BY <4>1, <4>2
    <3> DEFINE req == Message(proc[p].call, proc[p].uid)
    <3>2. PICK refused \in SUBSET Allocation(req) : freezer_recv_msg(req, refused)
      BY <3>1 DEF send_message
    <3>3. req \in Requests /\ req.uid = proc[p].uid
      BY <1>1, SentRequest DEF Message
    <3>4. proc[p].call.uid # req.uid
      BY <1>1, <3>3 DEF LibInv, ProcInv, Named, InMessage
    <3> QED  BY <1>1, <3>2, <3>3, <3>4, OthersUntouched
  <2> QED  BY <2>1, <2>2
<1>2. LibInv /\ IInv /\ [LibNext]_libvars =>
        [\A p \in Process : Step(p)]_libvars
  BY <1>1
<1> QED  BY <1>2, LibInvAlways, LibraryDrivesModule, IInvAlways, PTL
         DEF LibSpec, ExceptSpares

=============================================================================
