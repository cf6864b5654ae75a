---------------------------- MODULE UidTableSmp -----------------------------
(***************************************************************************)
(* One lock table shared by several processors.                            *)
(*                                                                         *)
(* A netlink message is handled in the context of its sender and a hook in *)
(* the context of its caller; nothing in the module takes a lock.  So      *)
(* several handlers may run add_uid_to_array and remove_uid_from_array     *)
(* beside each other and beside any number of is_hooked_user.              *)
(*                                                                         *)
(* A step makes at most one write to the table.  The search loops name     *)
(* *index in each round and write nothing, so a compiler may load it once  *)
(* or every time: both are possible here.  A store to the array may alias  *)
(* the index (both are int), so after a store the index is loaded again.   *)
(* The stores of one processor become visible in program order (x86).      *)
(***************************************************************************)
EXTENDS UidTable

CONSTANTS
  Handlers,   \* processes that send commands
  Hooks,      \* processes that make a hooked system call
  Commands    \* [Handlers -> sets of [op, uid]], what each may send

ASSUME UidTableSmpAssumption ==
  Commands \in [Handlers -> SUBSET [op : {"LOCK", "UNLOCK"}, uid : Uid]]

VARIABLES
  array, index,   \* xxx_uid_array and current_xxx_index
  handler,        \* the registers of each handler
  hook,           \* the registers of each hook, and what it could have seen
  settled         \* the uids that completed commands leave locked (history)

table == [array |-> array, index |-> index]
vars == <<array, index, handler, hook, settled>>

\* cur is the loop variable, limit and tmp loaded indexes, value a loaded uid;
\* a register is cleared when the function is done with it.  History: before,
\* the table when the command began; contested, a command for the same uid
\* overlapped.
IdleHandler ==
  [pc |-> "idle", op |-> "LOCK", uid |-> Root, cur |-> 0, limit |-> 0, tmp |-> 0,
   value |-> Root, before |-> EmptyTable, contested |-> FALSE]

\* History, over the states since the index was passed: always, the uid was
\* settled in all of them; justified, a command put it into the table or was
\* about to in some of them; removal, a removal was moving slots in one.
IdleHook ==
  [pc |-> "idle", uid |-> Root, cur |-> 0, limit |-> 0, result |-> FALSE,
   always |-> FALSE, justified |-> FALSE, removal |-> FALSE]

Active(h) == handler[h].pc # "idle"

Shifting ==
  \E h \in Handlers : handler[h].op = "UNLOCK" /\ handler[h].pc \in {"shift", "move"}

\* The uids of a table whose index may have left the array.
Within(t) == {t.array[i] : i \in InUse(t) \cap Slot}

Justifiable ==
  IF \A h \in Handlers : ~Active(h)
    THEN Within(table)
    ELSE UNION {Within(handler[h].before)
                  \cup (IF handler[h].op = "LOCK" THEN {handler[h].uid} ELSE {})
                : h \in {g \in Handlers : Active(g)}}

TypeOK ==
  /\ array \in [Slot -> Uid]
  /\ index \in Int
  /\ handler \in [Handlers ->
       [pc : {"idle", "check", "scan", "store", "load", "bump", "shift", "move", "done"},
        op : {"LOCK", "UNLOCK"}, uid : Uid, cur : Nat, limit : Int, tmp : Int,
        value : Uid, before : [array : [Slot -> Uid], index : Int], contested : BOOLEAN]]
  /\ hook \in [Hooks ->
       [pc : {"idle", "scan", "returned"}, uid : Uid, cur : Nat, limit : Int,
        result : BOOLEAN, always : BOOLEAN, justified : BOOLEAN, removal : BOOLEAN]]
  /\ settled \subseteq Uid

Init ==
  /\ array = EmptyTable.array
  /\ index = EmptyTable.index
  /\ handler = [h \in Handlers |-> IdleHandler]
  /\ hook = [k \in Hooks |-> IdleHook]
  /\ settled = {}

-----------------------------------------------------------------------------
(* Loads and stores.  Beyond the array lies some other variable of the     *)
(* module: a load gives any value and a store leaves the table alone.      *)

Load(i) == IF i \in Slot THEN {array[i]} ELSE Uid
Store(i, uid) == array' = IF i \in Slot THEN [array EXCEPT ![i] = uid] ELSE array

\* Keeps the history of the hooks that are searching.
Watched ==
  hook' = [k \in Hooks |->
             IF hook[k].pc = "scan"
               THEN [hook[k] EXCEPT
                       !.always = @ /\ hook[k].uid \in settled',
                       !.justified = @ \/ hook[k].uid \in Justifiable',
                       !.removal = @ \/ Shifting']
               ELSE hook[k]]

-----------------------------------------------------------------------------
(* add_uid_to_array and remove_uid_from_array. *)

\* Bound of the model: no further command once races have moved the index out
\* of the table, for what the stores beyond it do is undefined.
Command(h, cmd) ==
  /\ ~Active(h)
  /\ index \in 0 .. MAX_SIZE_ARRAY
  /\ LET rivals == {g \in Handlers : Active(g) /\ handler[g].uid = cmd.uid}
     IN  handler' = [g \in Handlers |->
           IF g = h
             THEN [IdleHandler EXCEPT !.pc = "check", !.op = cmd.op, !.uid = cmd.uid,
                                      !.before = table, !.contested = (rivals # {})]
             ELSE [handler[g] EXCEPT !.contested = @ \/ g \in rivals]]
  /\ settled' = IF cmd.op = "UNLOCK" THEN settled \ {cmd.uid} ELSE settled
  /\ UNCHANGED <<array, index>>
  /\ Watched

\* Faulty variant: goes on when the table is full.
h_check_no_limit(h) ==
  /\ handler[h].pc = "check"
  /\ handler' = [handler EXCEPT ![h].pc = "scan", ![h].limit = index]
  /\ UNCHANGED <<array, index, settled>>
  /\ Watched

h_check(h) ==
  /\ handler[h].pc = "check"
  /\ handler' = [handler EXCEPT
                   ![h].pc = IF index >= MAX_SIZE_ARRAY THEN "done" ELSE "scan",
                   ![h].limit = index]
  /\ UNCHANGED <<array, index, settled>>
  /\ Watched

h_scan(h) ==
  /\ handler[h].pc = "scan"
  /\ \E limit \in {handler[h].limit, index} :
       \/ /\ handler[h].cur < limit
          /\ \E v \in Load(handler[h].cur) :
               handler' = [handler EXCEPT
                 ![h].limit = IF v = handler[h].uid THEN 0 ELSE limit,
                 ![h].cur = IF v = handler[h].uid THEN @ ELSE @ + 1,
                 ![h].pc = IF v # handler[h].uid THEN "scan"
                           ELSE IF handler[h].op = "LOCK" THEN "done" ELSE "load"]
       \/ /\ handler[h].cur >= limit
          /\ handler' = [handler EXCEPT
               ![h].limit = IF handler[h].op = "LOCK" THEN limit ELSE 0,
               ![h].cur = 0,
               ![h].pc = IF handler[h].op = "LOCK" THEN "store" ELSE "done"]
  /\ UNCHANGED <<array, index, settled>>
  /\ Watched

h_store(h) ==
  /\ handler[h].pc = "store"
  /\ \E i \in {handler[h].limit, index} : Store(i, handler[h].uid)
  /\ handler' = [handler EXCEPT ![h].pc = "load", ![h].limit = 0]
  /\ UNCHANGED <<index, settled>>
  /\ Watched

h_load(h) ==
  /\ handler[h].pc = "load"
  /\ handler' = [handler EXCEPT ![h].pc = "bump", ![h].tmp = index]
  /\ UNCHANGED <<array, index, settled>>
  /\ Watched

\* *index = *index + 1 ends add_uid_to_array, (*index)-- begins the move.
h_bump(h) ==
  /\ handler[h].pc = "bump"
  /\ \/ /\ handler[h].op = "LOCK"
        /\ index' = handler[h].tmp + 1
        /\ handler' = [handler EXCEPT ![h].pc = "done", ![h].tmp = 0]
     \/ /\ handler[h].op = "UNLOCK"
        /\ index' = handler[h].tmp - 1
        /\ handler' = [handler EXCEPT ![h].pc = "shift", ![h].tmp = 0]
  /\ UNCHANGED <<array, settled>>
  /\ Watched

\* Faulty variant: stops one slot too early.
h_shift_short(h) ==
  /\ handler[h].pc = "shift"
  /\ \/ /\ handler[h].cur + 1 < index
        /\ \E v \in Load(handler[h].cur + 1) :
             handler' = [handler EXCEPT ![h].pc = "move", ![h].value = v]
     \/ /\ handler[h].cur + 1 >= index
        /\ handler' = [handler EXCEPT ![h].pc = "done", ![h].cur = 0]
  /\ UNCHANGED <<array, index, settled>>
  /\ Watched

h_shift(h) ==
  /\ handler[h].pc = "shift"
  /\ \/ /\ handler[h].cur < index
        /\ \E v \in Load(handler[h].cur + 1) :
             handler' = [handler EXCEPT ![h].pc = "move", ![h].value = v]
     \/ /\ handler[h].cur >= index
        /\ handler' = [handler EXCEPT ![h].pc = "done", ![h].cur = 0]
  /\ UNCHANGED <<array, index, settled>>
  /\ Watched

\* Faulty variants: the value goes back where it came from; the loop variable
\* stays.
h_move_in_place(h) ==
  /\ handler[h].pc = "move"
  /\ Store(handler[h].cur + 1, handler[h].value)
  /\ handler' = [handler EXCEPT ![h].pc = "shift", ![h].cur = @ + 1,
                                 ![h].value = Root]
  /\ UNCHANGED <<index, settled>>
  /\ Watched

h_move_again(h) ==
  /\ handler[h].pc = "move"
  /\ Store(handler[h].cur, handler[h].value)
  /\ handler' = [handler EXCEPT ![h].pc = "shift", ![h].value = Root]
  /\ UNCHANGED <<index, settled>>
  /\ Watched

h_move(h) ==
  /\ handler[h].pc = "move"
  /\ Store(handler[h].cur, handler[h].value)
  /\ handler' = [handler EXCEPT ![h].pc = "shift", ![h].cur = @ + 1,
                                 ![h].value = Root]
  /\ UNCHANGED <<index, settled>>
  /\ Watched

\* A lock settles unless the table was full when it was looked at, or another
\* command for its uid overlapped.
h_return(h) ==
  /\ handler[h].pc = "done"
  /\ settled' = IF /\ handler[h].op = "LOCK" /\ ~handler[h].contested
                   /\ handler[h].limit < MAX_SIZE_ARRAY
                  THEN settled \cup {handler[h].uid}
                  ELSE settled
  /\ handler' = [handler EXCEPT ![h] = IdleHandler]
  /\ UNCHANGED <<array, index>>
  /\ Watched

HandlerStep(h) ==
  \/ h_check(h) \/ h_scan(h) \/ h_store(h) \/ h_load(h)
  \/ h_bump(h) \/ h_shift(h) \/ h_move(h) \/ h_return(h)

-----------------------------------------------------------------------------
(* is_hooked_user: the index is passed by value, the array by address. *)

\* Faulty variant: takes the index for the last slot in use.
hook_call_short(k, uid) ==
  /\ hook[k].pc = "idle"
  /\ hook' = [hook EXCEPT ![k] =
       [pc |-> "scan", uid |-> uid, cur |-> 0, limit |-> index - 1, result |-> FALSE,
        always |-> uid \in settled, justified |-> uid \in Justifiable,
        removal |-> Shifting]]
  /\ UNCHANGED <<array, index, handler, settled>>

hook_call(k, uid) ==
  /\ hook[k].pc = "idle"
  /\ hook' = [hook EXCEPT ![k] =
       [pc |-> "scan", uid |-> uid, cur |-> 0, limit |-> index, result |-> FALSE,
        always |-> uid \in settled, justified |-> uid \in Justifiable,
        removal |-> Shifting]]
  /\ UNCHANGED <<array, index, handler, settled>>

\* One round of the search: it compares a slot while there are more.
HookSearch(k, more, next) ==
  /\ hook[k].pc = "scan"
  /\ \/ /\ more
        /\ \E v \in Load(hook[k].cur) :
             hook' = [hook EXCEPT
               ![k].pc = IF v = hook[k].uid THEN "returned" ELSE "scan",
               ![k].result = (v = hook[k].uid),
               ![k].cur = IF v = hook[k].uid THEN @ ELSE next]
     \/ /\ ~more
        /\ hook' = [hook EXCEPT ![k].pc = "returned"]
  /\ UNCHANGED <<array, index, handler, settled>>

\* Faulty variants: the search runs one slot too far; downwards; in place.
hook_scan_too_far(k) == HookSearch(k, hook[k].cur <= hook[k].limit, hook[k].cur + 1)
hook_scan_downwards(k) == HookSearch(k, hook[k].cur < hook[k].limit, hook[k].cur - 1)
hook_scan_in_place(k) == HookSearch(k, hook[k].cur < hook[k].limit, hook[k].cur)

hook_scan(k) == HookSearch(k, hook[k].cur < hook[k].limit, hook[k].cur + 1)

hook_return(k) ==
  /\ hook[k].pc = "returned"
  /\ hook' = [hook EXCEPT ![k] = IdleHook]
  /\ UNCHANGED <<array, index, handler, settled>>

-----------------------------------------------------------------------------

Next ==
  \/ \E h \in Handlers : HandlerStep(h) \/ \E cmd \in Commands[h] : Command(h, cmd)
  \/ \E k \in Hooks : hook_scan(k) \/ hook_return(k) \/ \E u \in Uid : hook_call(k, u)

\* A system call that is running is given the processor again and again;
\* nobody is obliged to send a command or to make a call.
Fairness ==
  /\ \A h \in Handlers : WF_vars(HandlerStep(h))
  /\ \A k \in Hooks : WF_vars(hook_scan(k) \/ hook_return(k))

Spec == Init /\ [][Next]_vars /\ Fairness

-----------------------------------------------------------------------------
(* Properties of one administrator at a time, beside any hooks. *)

\* No call of add_uid_to_array or remove_uid_from_array touches memory beyond
\* the table or leaves an index there: the slot read by a search, written by
\* a store, read or written by the move of a removal.
InBounds ==
  /\ index \in 0 .. MAX_SIZE_ARRAY
  /\ \A h \in Handlers :
       /\ handler[h].pc = "store" => {handler[h].limit, index} \subseteq Slot
       /\ handler[h].pc = "scan" => handler[h].limit <= MAX_SIZE_ARRAY
       /\ handler[h].pc = "shift" /\ handler[h].cur < index => handler[h].cur + 1 \in Slot
  /\ \A k \in Hooks : hook[k].limit <= MAX_SIZE_ARRAY

\* Step by step the functions compute what the operators of UidTable say, so
\* one atomic action may stand for a whole handler.
FunctionsMatchOperators ==
  \A h \in Handlers : handler[h].pc = "done" =>
    table = IF handler[h].op = "LOCK"
              THEN add_uid_to_array(handler[h].before, handler[h].uid)
              ELSE remove_uid_from_array(handler[h].before, handler[h].uid)

\* A hook says "hooked" only of a uid that was locked, or being locked, while
\* it searched: never because of what a removal left behind the index, nor
\* because of the zeros of the slots never used.
HitIsJustified ==
  \A k \in Hooks : hook[k].pc = "returned" /\ hook[k].result => hook[k].justified

\* A hook misses a uid that was locked all along only if a removal, of some
\* other uid, was moving slots while it searched.
MissNeedsRemoval ==
  \A k \in Hooks :
    hook[k].pc = "returned" /\ ~hook[k].result /\ hook[k].always => hook[k].removal

\* What completed commands locked, and nothing has unlocked since, is in the
\* table whenever no command is running.
CompletedLocksHold ==
  (\A h \in Handlers : ~Active(h)) => settled \subseteq Within(table)

\* Every command and every hook returns, however the index moves meanwhile.
EveryCallReturns ==
  /\ \A h \in Handlers : Active(h) ~> ~Active(h)
  /\ \A k \in Hooks : hook[k].pc # "idle" ~> hook[k].pc = "idle"

-----------------------------------------------------------------------------
(* What a comment says, and what does not hold. *)

\* What freezer_hook.c says of is_hooked_user: "true if user is hooked, else
\* false".  A removal of another uid hides a user who is hooked all along.
HookedUserIsSeen ==
  \A k \in Hooks : hook[k].pc = "returned" /\ hook[k].always => hook[k].result

=============================================================================
