------------------------- MODULE UidTableSmpProofs --------------------------
(***************************************************************************)
(* One administrator at a time beside any number of hooks: the safety of   *)
(* the access by access functions, for tables of every size.               *)
(*                                                                         *)
(* The inductive invariant has three parts.  Work says for each step of    *)
(* add_uid_to_array and remove_uid_from_array what of the result is in the *)
(* table already; Ledger, where the uids of completed commands are; and    *)
(* HookOK, what a hook has still to find in the slots it did not look at.  *)
(***************************************************************************)
EXTENDS UidTableSmp, UidTableProofs

\* The assumption of the theorems: no two handlers at a time.
OneAtATime == \A g, h \in Handlers : g = h

AnyTable == [array : [Slot -> Uid], index : Int]

HandlerRecord ==
  [pc : {"idle", "check", "scan", "store", "load", "bump", "shift", "move", "done"},
   op : {"LOCK", "UNLOCK"}, uid : Uid, cur : Nat, limit : Int, tmp : Int,
   value : Uid, before : AnyTable, contested : BOOLEAN]

HookRecord ==
  [pc : {"idle", "scan", "returned"}, uid : Uid, cur : Nat, limit : Int,
   result : BOOLEAN, always : BOOLEAN, justified : BOOLEAN, removal : BOOLEAN]

\* The array of table b when the slots from hole on have moved down to cur.
Moved(b, hole, cur) ==
  [i \in Slot |-> IF i \in hole .. cur - 1 THEN b.array[i + 1] ELSE b.array[i]]

\* r is what handler h knows at pc.
WorkOf(r) ==
  /\ r.before \in Table /\ NoDuplicate(r.before)
  /\ r.pc = "check" => table = r.before /\ r.cur = 0
  /\ r.pc = "scan" =>
       /\ table = r.before /\ ~Full(r.before)
       /\ r.limit = index /\ r.cur \in 0 .. index
       /\ \A i \in 0 .. r.cur - 1 : array[i] # r.uid
  /\ r.pc = "store" =>
       /\ r.op = "LOCK" /\ table = r.before /\ r.limit = index
       /\ ~Full(r.before) /\ ~is_hooked_user(r.before, r.uid)
  /\ r.pc \in {"load", "bump"} /\ r.op = "LOCK" =>
       /\ ~Full(r.before) /\ ~is_hooked_user(r.before, r.uid)
       /\ index = r.before.index /\ r.limit = 0
       /\ array = [r.before.array EXCEPT ![r.before.index] = r.uid]
  /\ r.pc \in {"load", "bump"} /\ r.op = "UNLOCK" =>
       /\ table = r.before /\ ~Full(r.before)
       /\ r.cur \in InUse(r.before) /\ r.before.array[r.cur] = r.uid
  /\ r.pc = "bump" => r.tmp = index
  /\ r.pc \in {"shift", "move"} =>
       /\ r.op = "UNLOCK" /\ ~Full(r.before)
       /\ index = r.before.index - 1
       /\ \E hole \in InUse(r.before) :
            /\ r.before.array[hole] = r.uid
            /\ r.cur \in hole .. index
            /\ array = Moved(r.before, hole, r.cur)
  /\ r.pc = "move" => r.cur < index /\ r.value = r.before.array[r.cur + 1]
  /\ r.pc = "done" =>
       /\ table = IF r.op = "LOCK" THEN add_uid_to_array(r.before, r.uid)
                                   ELSE remove_uid_from_array(r.before, r.uid)
       /\ r.op = "LOCK" /\ r.limit < MAX_SIZE_ARRAY => is_hooked_user(table, r.uid)

Work == \A h \in Handlers : Active(h) => WorkOf(handler[h])

Ledger ==
  /\ (\A h \in Handlers : ~Active(h)) =>
       /\ table \in Table /\ NoDuplicate(table)
       /\ \A v \in settled : is_hooked_user(table, v)
  /\ \A h \in Handlers : Active(h) =>
       \A v \in settled : /\ is_hooked_user(handler[h].before, v)
                          /\ handler[h].op = "UNLOCK" => v # handler[h].uid

HookOK(k) ==
  /\ hook[k].limit \in 0 .. MAX_SIZE_ARRAY
  /\ hook[k].pc = "scan" =>
       /\ hook[k].cur <= hook[k].limit /\ ~hook[k].result
       /\ \A i \in 0 .. hook[k].limit - 1 : array[i] = hook[k].uid => hook[k].justified
       /\ Shifting => hook[k].removal
       /\ hook[k].always => hook[k].uid \in settled
       /\ ~hook[k].removal =>
            /\ hook[k].limit <= index
            /\ hook[k].always =>
                 \E i \in hook[k].cur .. hook[k].limit - 1 : array[i] = hook[k].uid
  /\ hook[k].pc = "returned" =>
       /\ hook[k].result => hook[k].justified
       /\ ~hook[k].result /\ hook[k].always => hook[k].removal

Inv == TypeOK /\ index \in 0 .. MAX_SIZE_ARRAY /\ Work /\ Ledger
         /\ \A k \in Hooks : HookOK(k)

-----------------------------------------------------------------------------
(* What a hook sees of a step of a handler. *)

\* A step of a handler that stores nothing but uids a command may leave in the
\* table, and that moves slots in use only while it says so.
Harmless ==
  /\ array' \in [Slot -> Uid] /\ index' \in 0 .. MAX_SIZE_ARRAY
  /\ \A i \in Slot : array'[i] # array[i] => array'[i] \in Justifiable'
  /\ \/ Shifting'
     \/ index <= index' /\ \A i \in 0 .. index - 1 : array'[i] = array[i]

LEMMA HooksKept ==
  ASSUME Inv, Watched, Harmless
  PROVE  hook' \in [Hooks -> HookRecord] /\ \A k \in Hooks : HookOK(k)'
<1>1. ASSUME NEW k \in Hooks
      PROVE  hook'[k] \in HookRecord /\ HookOK(k)'
  <2>1. hook[k] \in HookRecord /\ HookOK(k)
    BY DEF Inv, TypeOK, HookRecord
  <2>2. CASE hook[k].pc # "scan"
    <3>1. hook'[k] = hook[k]
      BY <2>2 DEF Watched
    <3> QED
      BY <2>1, <2>2, <3>1 DEF HookOK
  <2>3. CASE hook[k].pc = "scan"
    <3> DEFINE r == hook[k]
               q == [r EXCEPT !.always = @ /\ r.uid \in settled',
                              !.justified = @ \/ r.uid \in Justifiable',
                              !.removal = @ \/ Shifting']
    <3>1. hook'[k] = q
      BY <2>3 DEF Watched
    <3>2. /\ q \in HookRecord /\ q.pc = "scan" /\ q.uid = r.uid /\ q.cur = r.cur
          /\ q.limit = r.limit /\ q.result = r.result
          /\ q.always <=> r.always /\ r.uid \in settled'
          /\ q.justified <=> r.justified \/ r.uid \in Justifiable'
          /\ q.removal <=> r.removal \/ Shifting'
      BY <2>1, <2>3 DEF HookRecord
    <3> HIDE DEF q
    <3>3. \A i \in 0 .. r.limit - 1 : i \in Slot
      BY <2>1, UidTableAssumption DEF HookOK, Slot
    <3>4. ASSUME NEW i \in 0 .. r.limit - 1, array'[i] = r.uid PROVE q.justified
      BY <2>1, <2>3, <3>2, <3>3, <3>4 DEF Harmless, HookOK
    <3>5. ASSUME ~q.removal
          PROVE  /\ r.limit <= index'
                 /\ q.always => \E i \in r.cur .. r.limit - 1 : array'[i] = r.uid
      <4>1. /\ ~r.removal /\ index <= index'
            /\ \A i \in 0 .. index - 1 : array'[i] = array[i]
        BY <3>2, <3>5 DEF Harmless
      <4>2. r.limit <= index /\ index \in Nat /\ index' \in Nat /\ r.limit \in Nat
            /\ r.cur \in Nat
        BY <2>1, <2>3, <4>1 DEF HookOK, Inv, Harmless, HookRecord
      <4>3. ASSUME q.always PROVE \E i \in r.cur .. r.limit - 1 : array'[i] = r.uid
        <5>1. PICK i \in r.cur .. r.limit - 1 : array[i] = r.uid
          BY <2>1, <2>3, <3>2, <4>1, <4>3 DEF HookOK
        <5>2. i \in 0 .. index - 1
          BY <4>2
        <5> QED
          BY <4>1, <5>1, <5>2
      <4> QED
        BY <4>1, <4>2, <4>3
    <3> QED
      BY <2>1, <2>3, <3>1, <3>2, <3>4, <3>5 DEF HookOK
  <2> QED
    BY <2>2, <2>3
<1>2. hook' = [k \in Hooks |-> hook'[k]]
  BY DEF Watched
<1> QED
  BY <1>1, <1>2

\* A table holds the uids of completed commands, except while slots move.
Holds(v) == \E i \in 0 .. index - 1 : array[i] = v

LEMMA TableFacts ==
  ASSUME NEW t \in Table
  PROVE  /\ t.array \in [Slot -> Uid] /\ t.index \in 0 .. MAX_SIZE_ARRAY
         /\ t.index \in Nat /\ MAX_SIZE_ARRAY \in Nat
         /\ InUse(t) = 0 .. t.index - 1 /\ InUse(t) \subseteq Slot
         /\ Slot = 0 .. MAX_SIZE_ARRAY - 1
BY UidTableAssumption DEF Table, InUse, Slot

LEMMA Justified ==
  ASSUME NEW h \in Handlers, Active(h), handler[h].before \in Table, NEW v,
         \/ is_hooked_user(handler[h].before, v)
         \/ handler[h].op = "LOCK" /\ v = handler[h].uid
  PROVE  v \in Justifiable
<1>1. is_hooked_user(handler[h].before, v) => v \in Within(handler[h].before)
  BY TableFacts DEF is_hooked_user, Within
<1>2. v \in Within(handler[h].before)
              \cup (IF handler[h].op = "LOCK" THEN {handler[h].uid} ELSE {})
  BY <1>1
<1> QED
  BY <1>2 DEF Justifiable

\* What a handler leaves in the slots in use at each of its steps.
LEMMA AtWork ==
  ASSUME OneAtATime, Inv, NEW h \in Handlers, Active(h)
  PROVE  /\ \A i \in 0 .. index - 1 : array[i] \in Justifiable
         /\ ~Shifting => \A v \in settled : Holds(v)
<1> DEFINE r == handler[h]
           b == r.before
<1>1. /\ WorkOf(r) /\ b \in Table /\ NoDuplicate(b) /\ r \in HandlerRecord
      /\ r.pc # "idle" /\ array \in [Slot -> Uid]
      /\ \A v \in settled : is_hooked_user(b, v) /\ (r.op = "UNLOCK" => v # r.uid)
      /\ index \in 0 .. MAX_SIZE_ARRAY
  BY DEF Inv, Work, WorkOf, Ledger, Active, TypeOK, HandlerRecord, AnyTable
<1>2. /\ b.array \in [Slot -> Uid] /\ b.index \in Nat /\ MAX_SIZE_ARRAY \in Nat
      /\ InUse(b) = 0 .. b.index - 1 /\ InUse(b) \subseteq Slot
      /\ Slot = 0 .. MAX_SIZE_ARRAY - 1 /\ b.index <= MAX_SIZE_ARRAY
  BY <1>1, TableFacts
<1>3. Shifting <=> r.op = "UNLOCK" /\ r.pc \in {"shift", "move"}
  BY DEF OneAtATime, Shifting
<1>4. \A v : is_hooked_user(b, v) \/ (r.op = "LOCK" /\ v = r.uid) => v \in Justifiable
  BY <1>1, Justified
<1> HIDE DEF r
<1>5. CASE table = b
  <2>1. array = b.array /\ index = b.index
    BY <1>5 DEF table
  <2> QED
    BY <1>1, <1>2, <1>4, <2>1 DEF is_hooked_user, Holds
<1>6. CASE r.pc \in {"load", "bump"} /\ r.op = "LOCK"
  <2>1. index = b.index /\ array = [b.array EXCEPT ![b.index] = r.uid]
    BY <1>1, <1>6 DEF WorkOf
  <2>2. \A i \in 0 .. index - 1 : array[i] = b.array[i]
    BY <1>2, <2>1
  <2> QED
    BY <1>1, <1>2, <1>4, <2>1, <2>2 DEF is_hooked_user, Holds
<1>7. CASE r.pc \in {"shift", "move"}
  <2>1. PICK hole \in InUse(b) :
          r.cur \in hole .. index /\ array = Moved(b, hole, r.cur)
    BY <1>1, <1>7 DEF WorkOf
  <2>2. index = b.index - 1 /\ r.op = "UNLOCK" /\ r.cur \in Nat
    BY <1>1, <1>7 DEF WorkOf, HandlerRecord
  <2>3. ASSUME NEW i \in 0 .. index - 1
        PROVE  \E j \in InUse(b) : array[i] = b.array[j]
    <3>1. i \in Slot /\ i \in InUse(b) /\ i + 1 \in InUse(b)
      BY <1>2, <2>2
    <3>2. array[i] = b.array[i] \/ array[i] = b.array[i + 1]
      BY <2>1, <3>1 DEF Moved
    <3> QED
      BY <3>1, <3>2
  <2> QED
    BY <1>3, <1>4, <1>7, <2>2, <2>3 DEF is_hooked_user
<1>8. CASE r.pc = "done"
  <2>1. table = IF r.op = "LOCK" THEN add_uid_to_array(b, r.uid)
                                 ELSE remove_uid_from_array(b, r.uid)
    BY <1>1, <1>8 DEF WorkOf
  <2>2. r.uid \in Uid /\ r.op \in {"LOCK", "UNLOCK"}
    BY <1>1 DEF HandlerRecord
  <2>3. \A v : is_hooked_user(table, v) => \/ is_hooked_user(b, v)
                                           \/ r.op = "LOCK" /\ v = r.uid
    BY <1>1, <2>1, <2>2, AddMembers, RemoveMembers
  <2>4. \A v \in settled : is_hooked_user(table, v)
    BY <1>1, <2>1, <2>2, AddMembers, RemoveMembers
  <2>5. \A v : is_hooked_user(table, v) <=> Holds(v)
    BY DEF is_hooked_user, Holds, InUse, table
  <2> QED
    BY <1>4, <2>3, <2>4, <2>5 DEF Holds
<1>9. \/ table = b
      \/ r.pc \in {"load", "bump"} /\ r.op = "LOCK"
      \/ r.pc \in {"shift", "move"}
      \/ r.pc = "done"
  BY <1>1 DEF WorkOf, HandlerRecord
<1> QED
  BY <1>5, <1>6, <1>7, <1>8, <1>9

LEMMA AtRest ==
  ASSUME Inv, \A h \in Handlers : ~Active(h)
  PROVE  /\ \A i \in 0 .. index - 1 : array[i] \in Justifiable
         /\ \A v \in settled : Holds(v)
         /\ ~Shifting
<1>1. table \in Table /\ \A v \in settled : is_hooked_user(table, v)
  BY DEF Inv, Ledger
<1>2. /\ InUse(table) = 0 .. index - 1 /\ InUse(table) \subseteq Slot
      /\ table.array = array
  BY <1>1, TableFacts DEF table
<1>3. Justifiable = {array[i] : i \in InUse(table) \cap Slot}
  BY <1>2 DEF Justifiable, Within
<1>4. ~Shifting
  BY DEF Shifting, Active
<1> QED
  BY <1>1, <1>2, <1>3, <1>4 DEF is_hooked_user, Holds

LEMMA Visible ==
  ASSUME OneAtATime, Inv
  PROVE  /\ \A i \in 0 .. index - 1 : array[i] \in Justifiable
         /\ ~Shifting => \A v \in settled : Holds(v)
BY AtRest, AtWork

-----------------------------------------------------------------------------
(* Steps of a hook. *)

LEMMA HookMoves ==
  ASSUME Inv, UNCHANGED <<array, index, handler, settled>>, NEW k \in Hooks,
         hook' \in [Hooks -> HookRecord],
         \A p \in Hooks : p # k => hook'[p] = hook[p],
         HookOK(k)'
  PROVE  Inv'
<1>1. hook' \in [Hooks -> HookRecord] /\ \A p \in Hooks : p # k => hook'[p] = hook[p]
  OBVIOUS
<1>2. TypeOK' /\ index' \in 0 .. MAX_SIZE_ARRAY
  BY <1>1 DEF Inv, TypeOK, HookRecord
<1>3. Work'
  BY DEF Inv, Work, WorkOf, Active, table
<1>4. Ledger'
  BY DEF Inv, Ledger, Active, table
<1>5. Shifting' = Shifting
  BY DEF Shifting
<1>6. ASSUME NEW p \in Hooks PROVE HookOK(p)'
  <2>1. CASE p # k
    BY <1>1, <1>5, <2>1 DEF Inv, HookOK
  <2> QED
    BY <2>1
<1> QED
  BY <1>2, <1>3, <1>4, <1>6 DEF Inv

LEMMA HookInv ==
  ASSUME OneAtATime, Inv, NEW k \in Hooks,
         hook_scan(k) \/ hook_return(k) \/ \E u \in Uid : hook_call(k, u)
  PROVE  Inv'
<1>1. /\ hook[k] \in HookRecord /\ HookOK(k) /\ index \in 0 .. MAX_SIZE_ARRAY
      /\ array \in [Slot -> Uid] /\ hook \in [Hooks -> HookRecord]
      /\ MAX_SIZE_ARRAY \in Nat /\ Slot = 0 .. MAX_SIZE_ARRAY - 1
  BY UidTableAssumption DEF Inv, TypeOK, HookRecord, Slot
<1>2. UNCHANGED <<array, index, handler, settled>>
  BY DEF hook_scan, HookSearch, hook_return, hook_call
<1>3. Shifting' = Shifting
  BY <1>2 DEF Shifting
<1>4. ASSUME NEW q \in HookRecord,
             hook' \in [Hooks -> HookRecord], hook'[k] = q,
             \A p \in Hooks : p # k => hook'[p] = hook[p],
             HookOK(k)'
      PROVE  Inv'
  BY <1>2, <1>4, HookMoves
<1>5. ASSUME NEW u \in Uid, hook_call(k, u) PROVE Inv'
  <2> DEFINE q == [pc |-> "scan", uid |-> u, cur |-> 0, limit |-> index, result |-> FALSE,
                   always |-> u \in settled, justified |-> u \in Justifiable,
                   removal |-> Shifting]
  <2>1. hook' = [hook EXCEPT ![k] = q]
    BY <1>5 DEF hook_call
  <2>2. Shifting \in BOOLEAN
    BY DEF Shifting
  <2>3. q \in HookRecord
    BY <1>1, <2>2 DEF HookRecord
  <2>4. /\ q.pc = "scan" /\ q.uid = u /\ q.cur = 0 /\ q.limit = index /\ ~q.result
        /\ q.always <=> u \in settled
        /\ q.justified <=> u \in Justifiable
        /\ q.removal <=> Shifting
    BY <2>2
  <2> HIDE DEF q
  <2>5. /\ hook' \in [Hooks -> HookRecord] /\ hook'[k] = q
        /\ \A p \in Hooks : p # k => hook'[p] = hook[p]
    BY <1>1, <2>1, <2>3
  <2>6. \A i \in 0 .. index - 1 : array[i] = u => u \in Justifiable
    BY Visible
  <2>7. ~Shifting /\ u \in settled => \E i \in 0 .. index - 1 : array[i] = u
    BY Visible DEF Holds
  <2>8. HookOK(k)'
    <3> DEFINE p == hook'[k]
    <3>1. /\ p.pc = "scan" /\ p.limit \in 0 .. MAX_SIZE_ARRAY /\ p.cur <= p.limit
          /\ ~p.result /\ p.limit = index
      BY <1>1, <2>4, <2>5
    <3>2. \A i \in 0 .. p.limit - 1 : array'[i] = p.uid => p.justified
      BY <1>2, <2>4, <2>5, <2>6
    <3>3. (Shifting' => p.removal) /\ (p.always => p.uid \in settled')
      BY <1>2, <1>3, <2>4, <2>5
    <3>4. ~p.removal /\ p.always => \E i \in p.cur .. p.limit - 1 : array'[i] = p.uid
      BY <1>2, <2>4, <2>5, <2>7
    <3>5. p.limit <= index'
      BY <1>1, <1>2, <3>1
    <3> QED
      BY <3>1, <3>2, <3>3, <3>4, <3>5 DEF HookOK
  <2> QED
    BY <1>4, <2>3, <2>5, <2>8
<1>6. CASE hook_return(k)
  <2>1. hook' = [hook EXCEPT ![k] = IdleHook]
    BY <1>6 DEF hook_return
  <2>2. IdleHook \in HookRecord /\ IdleHook.pc = "idle" /\ IdleHook.limit = 0
    BY UidTableAssumption DEF IdleHook, HookRecord
  <2>3. /\ hook' \in [Hooks -> HookRecord] /\ hook'[k] = IdleHook
        /\ \A p \in Hooks : p # k => hook'[p] = hook[p]
    BY <1>1, <2>1, <2>2
  <2>4. HookOK(k)'
    BY <1>1, <2>2, <2>3 DEF HookOK
  <2> QED
    BY <1>4, <2>2, <2>3, <2>4
<1>7. CASE hook_scan(k)
  <2> DEFINE r == hook[k]
             q == hook'[k]
  <2>1. r.pc = "scan"
    BY <1>7 DEF hook_scan, HookSearch
  <2>2. r.cur \in Nat /\ r.limit \in Nat /\ r.limit <= MAX_SIZE_ARRAY
    BY <1>1 DEF HookRecord, HookOK
  <2>3. CASE r.cur < r.limit /\ array[r.cur] = r.uid
    <3>1. r.cur \in Slot
      BY <1>1, <2>2, <2>3
    <3>2. Load(r.cur) = {r.uid}
      BY <2>3, <3>1 DEF Load
    <3>3. hook' = [hook EXCEPT ![k].pc = "returned", ![k].result = TRUE, ![k].cur = @]
      BY <1>7, <2>3, <3>2 DEF hook_scan, HookSearch
    <3>4. /\ hook' \in [Hooks -> HookRecord]
          /\ \A p \in Hooks : p # k => hook'[p] = hook[p]
          /\ q.pc = "returned" /\ q.limit = r.limit /\ q.justified = r.justified
      BY <1>1, <3>3 DEF HookRecord
    <3>5. q.result = TRUE
      BY <1>1, <3>3 DEF HookRecord
    <3>6. r.justified
      BY <1>1, <2>1, <2>2, <2>3 DEF HookOK
    <3>7. HookOK(k)'
      BY <1>1, <3>4, <3>5, <3>6 DEF HookOK
    <3> QED
      BY <1>4, <3>4, <3>7
  <2>4. CASE r.cur < r.limit /\ array[r.cur] # r.uid
    <3>1. r.cur \in Slot
      BY <1>1, <2>2, <2>4
    <3>2. Load(r.cur) = {array[r.cur]}
      BY <3>1 DEF Load
    <3>3. hook' = [hook EXCEPT ![k].pc = "scan", ![k].result = FALSE, ![k].cur = r.cur + 1]
      BY <1>7, <2>4, <3>2 DEF hook_scan, HookSearch
    <3>4. /\ hook' \in [Hooks -> HookRecord]
          /\ \A p \in Hooks : p # k => hook'[p] = hook[p]
          /\ q.pc = "scan" /\ q.limit = r.limit /\ q.uid = r.uid
          /\ q.cur = r.cur + 1 /\ q.always = r.always /\ q.justified = r.justified
          /\ q.removal = r.removal
      BY <1>1, <2>1, <2>2, <3>3 DEF HookRecord
    <3>5. q.result = FALSE
      BY <1>1, <3>3 DEF HookRecord
    <3>6. ASSUME ~r.removal, r.always
          PROVE  \E i \in r.cur + 1 .. r.limit - 1 : array[i] = r.uid
      <4>1. PICK i \in r.cur .. r.limit - 1 : array[i] = r.uid
        BY <1>1, <2>1, <3>6 DEF HookOK
      <4>2. i # r.cur
        BY <2>4, <4>1
      <4> QED
        BY <2>2, <4>1, <4>2
    <3>7. HookOK(k)'
      BY <1>1, <1>2, <1>3, <2>1, <2>2, <2>4, <3>4, <3>5, <3>6 DEF HookOK
    <3> QED
      BY <1>4, <3>4, <3>7
  <2>5. CASE ~(r.cur < r.limit)
    <3>1. hook' = [hook EXCEPT ![k].pc = "returned"]
      BY <1>7, <2>5 DEF hook_scan, HookSearch
    <3>2. /\ hook' \in [Hooks -> HookRecord]
          /\ \A p \in Hooks : p # k => hook'[p] = hook[p]
          /\ q.pc = "returned" /\ q.limit = r.limit
          /\ q.result = r.result /\ q.justified = r.justified /\ q.always = r.always
          /\ q.removal = r.removal
      BY <1>1, <3>1 DEF HookRecord
    <3>3. ~r.result /\ (~r.removal => ~r.always)
      BY <1>1, <2>1, <2>2, <2>5 DEF HookOK
    <3>4. HookOK(k)'
      BY <1>1, <3>2, <3>3 DEF HookOK
    <3> QED
      BY <1>4, <3>2, <3>4
  <2> QED
    BY <2>3, <2>4, <2>5
<1> QED
  BY <1>5, <1>6, <1>7

-----------------------------------------------------------------------------
(* Steps of a handler. *)

LEMMA HandlerMoves ==
  ASSUME OneAtATime, Inv, Watched, Harmless, NEW h \in Handlers,
         handler' \in [Handlers -> HandlerRecord], settled' \subseteq Uid,
         Active(h)' =>
           /\ WorkOf(handler[h])'
           /\ \A v \in settled' : /\ is_hooked_user(handler'[h].before, v)
                                  /\ handler'[h].op = "UNLOCK" => v # handler'[h].uid,
         ~Active(h)' =>
           /\ table' \in Table /\ NoDuplicate(table')
           /\ \A v \in settled' : is_hooked_user(table', v)
  PROVE  Inv'
<1>1. \A g \in Handlers : g = h
  BY DEF OneAtATime
<1>2. hook' \in [Hooks -> HookRecord] /\ \A k \in Hooks : HookOK(k)'
  BY HooksKept
<1>3. TypeOK' /\ index' \in 0 .. MAX_SIZE_ARRAY
  BY <1>2, UidTableAssumption DEF TypeOK, Harmless, HookRecord, HandlerRecord, AnyTable
<1>4. Work'
  BY <1>1 DEF Work
<1>5. Ledger'
  BY <1>1 DEF Ledger
<1> QED
  BY <1>2, <1>3, <1>4, <1>5 DEF Inv

LEMMA QuietIsHarmless ==
  ASSUME Inv, UNCHANGED <<array, index>>
  PROVE  Harmless
BY UidTableAssumption DEF Harmless, Inv, TypeOK

\* What every step of a running handler starts from.
LEMMA AtStep ==
  ASSUME OneAtATime, Inv, NEW h \in Handlers, Active(h)
  PROVE  LET r == handler[h]
             b == handler[h].before
         IN  /\ handler \in [Handlers -> HandlerRecord] /\ r \in HandlerRecord
             /\ array \in [Slot -> Uid] /\ index \in 0 .. MAX_SIZE_ARRAY
             /\ settled \subseteq Uid /\ WorkOf(r)
             /\ \A v \in settled : is_hooked_user(b, v) /\ (r.op = "UNLOCK" => v # r.uid)
             /\ b \in Table /\ NoDuplicate(b)
             /\ b.array \in [Slot -> Uid] /\ b.index \in Nat /\ b.index <= MAX_SIZE_ARRAY
             /\ InUse(b) = 0 .. b.index - 1 /\ InUse(b) \subseteq Slot
             /\ Slot = 0 .. MAX_SIZE_ARRAY - 1 /\ MAX_SIZE_ARRAY \in Nat
<1> DEFINE r == handler[h]
           b == r.before
<1>1. /\ handler \in [Handlers -> HandlerRecord] /\ r \in HandlerRecord
      /\ array \in [Slot -> Uid] /\ index \in 0 .. MAX_SIZE_ARRAY /\ settled \subseteq Uid
  BY DEF Inv, TypeOK, HandlerRecord, AnyTable
<1>2. WorkOf(r) /\ b \in Table /\ NoDuplicate(b)
  BY DEF Inv, Work, WorkOf
<1>3. \A v \in settled : is_hooked_user(b, v) /\ (r.op = "UNLOCK" => v # r.uid)
  BY DEF Inv, Ledger
<1> QED
  BY <1>1, <1>2, <1>3, TableFacts

\* A step that only moves the registers of h.
LEMMA Registers ==
  ASSUME OneAtATime, Inv, Watched, NEW h \in Handlers, Active(h), Active(h)',
         UNCHANGED <<array, index, settled>>,
         handler' \in [Handlers -> HandlerRecord],
         handler'[h].before = handler[h].before, handler'[h].op = handler[h].op,
         handler'[h].uid = handler[h].uid, WorkOf(handler[h])'
  PROVE  Inv'
<1>1. Harmless
  BY QuietIsHarmless
<1>2. settled' \subseteq Uid
  BY DEF Inv, TypeOK
<1>3. \A v \in settled' : /\ is_hooked_user(handler'[h].before, v)
                          /\ handler'[h].op = "UNLOCK" => v # handler'[h].uid
  BY AtStep
<1> QED
  BY <1>1, <1>2, <1>3, HandlerMoves

LEMMA CommandInv ==
  ASSUME OneAtATime, Inv, NEW h \in Handlers, NEW cmd \in Commands[h], Command(h, cmd)
  PROVE  Inv'
<1> DEFINE q == [pc |-> "check", op |-> cmd.op, uid |-> cmd.uid, cur |-> 0, limit |-> 0,
                 tmp |-> 0, value |-> Root, before |-> table, contested |-> FALSE]
<1>1. ~Active(h) /\ \A g \in Handlers : g = h
  BY DEF Command, OneAtATime
<1>2. /\ table \in Table /\ NoDuplicate(table) /\ \A v \in settled : is_hooked_user(table, v)
  BY <1>1 DEF Inv, Ledger
<1>3. cmd.op \in {"LOCK", "UNLOCK"} /\ cmd.uid \in Uid
  BY UidTableSmpAssumption
<1>4. table \in AnyTable
  BY DEF table, Inv, TypeOK, AnyTable
<1>5. q \in HandlerRecord
  BY <1>3, <1>4, UidTableAssumption DEF HandlerRecord
<1>6. handler'[h] = q
  <2> DEFINE rivals == {g \in Handlers : Active(g) /\ handler[g].uid = cmd.uid}
             overlap == rivals # {}
  <2>1. overlap = FALSE
    BY <1>1
  <2>2. handler'[h] = [IdleHandler EXCEPT !.pc = "check", !.op = cmd.op, !.uid = cmd.uid,
                                          !.before = table, !.contested = overlap]
    BY DEF Command
  <2> HIDE DEF overlap
  <2> QED
    BY <2>1, <2>2 DEF IdleHandler
<1>7. handler' \in [Handlers -> HandlerRecord]
  <2>1. handler' = [g \in Handlers |-> handler'[g]]
    BY DEF Command
  <2>2. \A g \in Handlers : handler'[g] \in HandlerRecord
    BY <1>1, <1>5, <1>6
  <2> HIDE DEF q
  <2> QED
    BY <2>1, <2>2
<1>8. /\ UNCHANGED <<array, index>> /\ Watched
      /\ settled' = IF cmd.op = "UNLOCK" THEN settled \ {cmd.uid} ELSE settled
  BY DEF Command
<1>9. q.pc = "check" /\ q.before = table /\ q.cur = 0 /\ q.op = cmd.op /\ q.uid = cmd.uid
  OBVIOUS
<1> HIDE DEF q
<1>10. WorkOf(handler[h])'
  <2>1. table' = table
    BY <1>8 DEF table
  <2> QED
    BY <1>2, <1>6, <1>9, <2>1 DEF WorkOf
<1>11. settled' \subseteq Uid
  BY <1>8 DEF Inv, TypeOK
<1>12. \A v \in settled' : /\ is_hooked_user(handler'[h].before, v)
                           /\ handler'[h].op = "UNLOCK" => v # handler'[h].uid
  BY <1>2, <1>6, <1>8, <1>9
<1>13. Harmless /\ Watched
  BY <1>8, QuietIsHarmless
<1>14. handler'[h].pc # "idle"
  BY <1>6, <1>9
<1> QED
  BY <1>7, <1>10, <1>11, <1>12, <1>13, <1>14, HandlerMoves DEF Active

LEMMA CheckInv ==
  ASSUME OneAtATime, Inv, NEW h \in Handlers, h_check(h)
  PROVE  Inv'
<1> DEFINE p == handler[h]
<1>1. p.pc = "check" /\ UNCHANGED <<array, index, settled>> /\ Watched /\ Active(h)
  BY DEF h_check, Active
<1>2. /\ handler \in [Handlers -> HandlerRecord] /\ index \in 0 .. MAX_SIZE_ARRAY
      /\ WorkOf(p) /\ p.before \in Table /\ NoDuplicate(p.before) /\ MAX_SIZE_ARRAY \in Nat
  BY <1>1, AtStep
<1>3. table' = table /\ table = p.before /\ p.cur = 0 /\ p.before.index = index
  BY <1>1, <1>2 DEF WorkOf, table
<1>4. p \in HandlerRecord /\ index \in Int
  BY <1>2
<1>5. CASE index >= MAX_SIZE_ARRAY
  <2> DEFINE q == [p EXCEPT !.pc = "done", !.limit = index]
  <2>1. handler' = [handler EXCEPT ![h] = q]
    BY <1>2, <1>5 DEF h_check
  <2>2. /\ q \in HandlerRecord /\ q.pc = "done" /\ q.limit = index
        /\ q.before = p.before /\ q.op = p.op /\ q.uid = p.uid
    BY <1>4 DEF HandlerRecord
  <2> HIDE DEF q
  <2>3. handler' \in [Handlers -> HandlerRecord] /\ handler'[h] = q
    BY <1>2, <2>1, <2>2
  <2>4. Full(p.before)
    BY <1>3, <1>5 DEF Full
  <2>5. WorkOf(handler[h])'
    BY <1>1, <1>2, <1>3, <1>5, <2>2, <2>3, <2>4
       DEF WorkOf, add_uid_to_array, remove_uid_from_array
  <2> QED
    BY <1>1, <2>2, <2>3, <2>5, Registers DEF Active
<1>6. CASE ~(index >= MAX_SIZE_ARRAY)
  <2> DEFINE q == [p EXCEPT !.pc = "scan", !.limit = index]
  <2>1. handler' = [handler EXCEPT ![h] = q]
    BY <1>2, <1>6 DEF h_check
  <2>2. /\ q \in HandlerRecord /\ q.pc = "scan" /\ q.limit = index
        /\ q.before = p.before /\ q.op = p.op /\ q.uid = p.uid /\ q.cur = p.cur
    BY <1>4 DEF HandlerRecord
  <2> HIDE DEF q
  <2>3. handler' \in [Handlers -> HandlerRecord] /\ handler'[h] = q
    BY <1>2, <2>1, <2>2
  <2>4. ~Full(p.before)
    BY <1>3, <1>6 DEF Full
  <2>5. WorkOf(handler[h])'
    BY <1>1, <1>2, <1>3, <1>6, <2>2, <2>3, <2>4 DEF WorkOf
  <2> QED
    BY <1>1, <2>2, <2>3, <2>5, Registers DEF Active
<1> QED
  BY <1>5, <1>6

\* Setting registers leaves a record of registers.
With(p, limit, cur, pc) == [p EXCEPT !.limit = limit, !.cur = cur, !.pc = pc]

LEMMA SetRegisters ==
  ASSUME NEW p \in HandlerRecord, NEW limit \in Int, NEW cur \in Nat,
         NEW pc \in {"scan", "store", "load", "bump", "shift", "move", "done"}
  PROVE  LET q == With(p, limit, cur, pc)
         IN  /\ q \in HandlerRecord /\ q.pc = pc /\ q.limit = limit /\ q.cur = cur
             /\ q.before = p.before /\ q.op = p.op /\ q.uid = p.uid
BY DEF HandlerRecord, With

Moving(p, cur, tmp, value, pc) ==
  [p EXCEPT !.cur = cur, !.tmp = tmp, !.value = value, !.pc = pc]

LEMMA MovingRegisters ==
  ASSUME NEW p \in HandlerRecord, NEW cur \in Nat, NEW tmp \in Int, NEW value \in Uid,
         NEW pc \in {"scan", "store", "load", "bump", "shift", "move", "done"}
  PROVE  LET q == Moving(p, cur, tmp, value, pc)
         IN  /\ q \in HandlerRecord /\ q.pc = pc /\ q.cur = cur /\ q.value = value
             /\ q.limit = p.limit /\ q.before = p.before /\ q.op = p.op /\ q.uid = p.uid
BY DEF HandlerRecord, Moving

LEMMA ScanInv ==
  ASSUME OneAtATime, Inv, NEW h \in Handlers, h_scan(h)
  PROVE  Inv'
<1> DEFINE p == handler[h]
<1>1. p.pc = "scan" /\ UNCHANGED <<array, index, settled>> /\ Watched /\ Active(h)
  BY DEF h_scan, Active
<1>2. /\ handler \in [Handlers -> HandlerRecord] /\ index \in 0 .. MAX_SIZE_ARRAY
      /\ array \in [Slot -> Uid]
      /\ WorkOf(p) /\ p.before \in Table /\ NoDuplicate(p.before) /\ MAX_SIZE_ARRAY \in Nat
      /\ Slot = 0 .. MAX_SIZE_ARRAY - 1
      /\ p \in HandlerRecord
  BY <1>1, AtStep
<1>3. /\ table' = table /\ table = p.before /\ p.before.index = index
      /\ p.before.array = array /\ ~Full(p.before) /\ index < MAX_SIZE_ARRAY
      /\ p.limit = index /\ p.cur \in 0 .. index /\ \A i \in 0 .. p.cur - 1 : array[i] # p.uid
  BY <1>1, <1>2 DEF WorkOf, table, Full
<1>4. /\ is_hooked_user(p.before, p.uid) <=> \E i \in 0 .. index - 1 : array[i] = p.uid
      /\ InUse(p.before) = 0 .. index - 1
  BY <1>3 DEF is_hooked_user, InUse
<1>5. /\ p \in HandlerRecord /\ index \in Int /\ p.cur \in Nat /\ p.cur <= index
      /\ p.cur + 1 \in Nat /\ 0 \in Nat /\ 0 \in Int
  BY <1>2, <1>3
<1> DEFINE hit == array[p.cur] = p.uid
           next(v) == IF v # handler[h].uid THEN "scan"
                      ELSE IF handler[h].op = "LOCK" THEN "done" ELSE "load"
<1>6. ASSUME p.cur < index
      PROVE  handler' = [handler EXCEPT
               ![h] = With(p, IF hit THEN 0 ELSE index,
                            IF hit THEN p.cur ELSE p.cur + 1, next(array[p.cur]))]
  <2> DEFINE found(v, limit) ==
               [handler EXCEPT
                 ![h].limit = IF v = handler[h].uid THEN 0 ELSE limit,
                 ![h].cur = IF v = handler[h].uid THEN @ ELSE @ + 1,
                 ![h].pc = next(v)]
  <2>1. PICK limit \in {p.limit, index} :
          (\E v \in Load(p.cur) : handler' = found(v, limit)) \/ p.cur >= limit
    BY Zenon DEF h_scan
  <2>2. limit = index /\ p.cur \in Slot
    BY <1>2, <1>3, <1>6
  <2>3. Load(p.cur) = {array[p.cur]}
    BY <2>2 DEF Load
  <2> HIDE DEF found
  <2>4. handler' = found(array[p.cur], index)
    BY <1>5, <1>6, <2>1, <2>2, <2>3
  <2> USE DEF found
  <2> HIDE DEF next
  <2> QED
    BY <1>2, <2>4 DEF With
<1>7. CASE p.cur < index /\ ~hit
  <2> DEFINE q == With(p, index, p.cur + 1, "scan")
  <2>1. handler' = [handler EXCEPT ![h] = q]
    <3>1. next(array[p.cur]) = "scan"
      BY <1>7
    <3> QED
      BY <1>7, <1>6, <3>1
  <2>2. /\ q \in HandlerRecord /\ q.before = p.before /\ q.op = p.op /\ q.uid = p.uid
        /\ q.pc = "scan" /\ q.limit = index /\ q.cur = p.cur + 1
    BY <1>5, SetRegisters
  <2> HIDE DEF q
  <2>3. handler' \in [Handlers -> HandlerRecord] /\ handler'[h] = q
    BY <1>2, <2>1, <2>2
  <2>4. WorkOf(handler[h])'
    BY <1>1, <1>2, <1>3, <1>7, <2>2, <2>3 DEF WorkOf
  <2> QED
    BY <1>1, <2>2, <2>3, <2>4, Registers DEF Active
<1>8. CASE p.cur < index /\ hit /\ p.op = "LOCK"
  <2> DEFINE q == With(p, 0, p.cur, "done")
  <2>1. handler' = [handler EXCEPT ![h] = q]
    <3>1. next(array[p.cur]) = "done"
      BY <1>8
    <3> QED
      BY <1>8, <1>6, <3>1
  <2>2. /\ q \in HandlerRecord /\ q.before = p.before /\ q.op = p.op /\ q.uid = p.uid
        /\ q.pc = "done" /\ q.limit = 0 /\ q.cur = p.cur
    BY <1>5, SetRegisters
  <2>3. is_hooked_user(p.before, p.uid)
    BY <1>3, <1>4, <1>5, <1>8
  <2> HIDE DEF q
  <2>4. handler' \in [Handlers -> HandlerRecord] /\ handler'[h] = q
    BY <1>2, <2>1, <2>2
  <2>5. WorkOf(handler[h])'
    BY <1>1, <1>2, <1>3, <1>8, <2>2, <2>3, <2>4 DEF WorkOf, add_uid_to_array
  <2> QED
    BY <1>1, <2>2, <2>4, <2>5, Registers DEF Active
<1>9. CASE p.cur < index /\ hit /\ p.op = "UNLOCK"
  <2> DEFINE q == With(p, 0, p.cur, "load")
  <2>1. handler' = [handler EXCEPT ![h] = q]
    <3>1. next(array[p.cur]) = "load"
      BY <1>9
    <3> QED
      BY <1>9, <1>6, <3>1
  <2>2. /\ q \in HandlerRecord /\ q.before = p.before /\ q.op = p.op /\ q.uid = p.uid
        /\ q.pc = "load" /\ q.limit = 0 /\ q.cur = p.cur
    BY <1>5, SetRegisters
  <2>3. p.cur \in InUse(p.before)
    BY <1>3, <1>4, <1>5, <1>9
  <2> HIDE DEF q
  <2>4. handler' \in [Handlers -> HandlerRecord] /\ handler'[h] = q
    BY <1>2, <2>1, <2>2
  <2>5. WorkOf(handler[h])'
    BY <1>1, <1>2, <1>3, <1>9, <2>2, <2>3, <2>4 DEF WorkOf
  <2> QED
    BY <1>1, <2>2, <2>4, <2>5, Registers DEF Active
<1>10. CASE ~(p.cur < index) /\ p.op = "LOCK"
  <2> DEFINE q == With(p, index, 0, "store")
  <2>1. handler' = [handler EXCEPT ![h] = q]
    BY <1>2, <1>3, <1>10 DEF h_scan, With
  <2>2. /\ q \in HandlerRecord /\ q.before = p.before /\ q.op = p.op /\ q.uid = p.uid
        /\ q.pc = "store" /\ q.limit = index /\ q.cur = 0
    BY <1>5, SetRegisters
  <2>3. ~is_hooked_user(p.before, p.uid)
    BY <1>3, <1>4, <1>5, <1>10
  <2> HIDE DEF q
  <2>4. handler' \in [Handlers -> HandlerRecord] /\ handler'[h] = q
    BY <1>2, <2>1, <2>2
  <2>5. WorkOf(handler[h])'
    BY <1>1, <1>2, <1>3, <1>10, <2>2, <2>3, <2>4 DEF WorkOf
  <2> QED
    BY <1>1, <2>2, <2>4, <2>5, Registers DEF Active
<1>11. CASE ~(p.cur < index) /\ p.op = "UNLOCK"
  <2> DEFINE q == With(p, 0, 0, "done")
  <2>1. handler' = [handler EXCEPT ![h] = q]
    BY <1>2, <1>3, <1>11 DEF h_scan, With
  <2>2. /\ q \in HandlerRecord /\ q.before = p.before /\ q.op = p.op /\ q.uid = p.uid
        /\ q.pc = "done" /\ q.limit = 0 /\ q.cur = 0
    BY <1>5, SetRegisters
  <2>3. ~is_hooked_user(p.before, p.uid)
    BY <1>3, <1>4, <1>5, <1>11
  <2> HIDE DEF q
  <2>4. handler' \in [Handlers -> HandlerRecord] /\ handler'[h] = q
    BY <1>2, <2>1, <2>2
  <2>5. WorkOf(handler[h])'
    BY <1>1, <1>2, <1>3, <1>11, <2>2, <2>3, <2>4 DEF WorkOf, remove_uid_from_array
  <2> QED
    BY <1>1, <2>2, <2>4, <2>5, Registers DEF Active
<1>12. p.op \in {"LOCK", "UNLOCK"}
  BY <1>2 DEF HandlerRecord
<1> QED
  BY <1>7, <1>8, <1>9, <1>10, <1>11, <1>12

LEMMA LoadInv ==
  ASSUME OneAtATime, Inv, NEW h \in Handlers, h_load(h)
  PROVE  Inv'
<1> DEFINE p == handler[h]
           q == [p EXCEPT !.pc = "bump", !.tmp = index]
<1>1. p.pc = "load" /\ UNCHANGED <<array, index, settled>> /\ Watched /\ Active(h)
  BY DEF h_load, Active
<1>2. /\ handler \in [Handlers -> HandlerRecord] /\ p \in HandlerRecord /\ index \in Int
      /\ WorkOf(p)
  BY <1>1, AtStep
<1>3. handler' = [handler EXCEPT ![h] = q]
  BY <1>2 DEF h_load
<1>4. /\ q \in HandlerRecord /\ q.pc = "bump" /\ q.tmp = index /\ q.limit = p.limit
      /\ q.before = p.before /\ q.op = p.op /\ q.uid = p.uid /\ q.cur = p.cur
  BY <1>2 DEF HandlerRecord
<1> HIDE DEF q
<1>5. handler' \in [Handlers -> HandlerRecord] /\ handler'[h] = q
  BY <1>2, <1>3, <1>4
<1>6. WorkOf(handler[h])'
  <2>1. table' = table
    BY <1>1 DEF table
  <2> QED
    BY <1>1, <1>2, <1>4, <1>5, <2>1 DEF WorkOf
<1> QED
  BY <1>1, <1>4, <1>5, <1>6, Registers DEF Active

\* A step of a running handler that leaves settled alone.
LEMMA RunningMoves ==
  ASSUME OneAtATime, Inv, Watched, Harmless, NEW h \in Handlers, Active(h),
         NEW q \in HandlerRecord, handler' = [handler EXCEPT ![h] = q],
         q.pc # "idle", settled' = settled,
         q.before = handler[h].before, q.op = handler[h].op, q.uid = handler[h].uid,
         WorkOf(handler[h])'
  PROVE  Inv'
<1>1. handler' \in [Handlers -> HandlerRecord] /\ handler'[h] = q
  BY AtStep
<1>2. settled' \subseteq Uid
  BY AtStep
<1>3. \A v \in settled' : /\ is_hooked_user(handler'[h].before, v)
                          /\ handler'[h].op = "UNLOCK" => v # handler'[h].uid
  BY <1>1, AtStep
<1> QED
  BY <1>1, <1>2, <1>3, HandlerMoves DEF Active

LEMMA JustifiedNext ==
  ASSUME NEW h \in Handlers, handler'[h].pc # "idle", handler'[h].before \in Table, NEW v,
         \/ is_hooked_user(handler'[h].before, v)
         \/ handler'[h].op = "LOCK" /\ v = handler'[h].uid
  PROVE  v \in Justifiable'
<1>1. is_hooked_user(handler'[h].before, v) => v \in Within(handler'[h].before)
  BY TableFacts DEF is_hooked_user, Within
<1>2. v \in Within(handler'[h].before)
              \cup (IF handler'[h].op = "LOCK" THEN {handler'[h].uid} ELSE {})
  BY <1>1
<1> QED
  BY <1>2 DEF Justifiable, Active

LEMMA StoreInv ==
  ASSUME OneAtATime, Inv, NEW h \in Handlers, h_store(h)
  PROVE  Inv'
<1> DEFINE p == handler[h]
           b == p.before
           q == With(p, 0, p.cur, "load")
<1>1. p.pc = "store" /\ UNCHANGED <<index, settled>> /\ Watched /\ Active(h)
  BY DEF h_store, Active
<1>2. /\ handler \in [Handlers -> HandlerRecord] /\ p \in HandlerRecord
      /\ array \in [Slot -> Uid] /\ index \in 0 .. MAX_SIZE_ARRAY /\ WorkOf(p)
      /\ b \in Table /\ NoDuplicate(b)
      /\ Slot = 0 .. MAX_SIZE_ARRAY - 1 /\ MAX_SIZE_ARRAY \in Nat
  BY <1>1, AtStep
<1>3. p.op = "LOCK" /\ table = b /\ p.limit = index /\ ~Full(b) /\ ~is_hooked_user(b, p.uid)
  BY <1>1, <1>2 DEF WorkOf
<1>4. b.array = array /\ b.index = index /\ index \in Slot
  BY <1>2, <1>3 DEF table, Full
<1>5. array' = [array EXCEPT ![index] = p.uid]
  BY <1>3, <1>4 DEF h_store, Store
<1>6. handler' = [handler EXCEPT ![h] = q]
  BY <1>2 DEF h_store, With
<1>7. p.cur \in Nat /\ p.uid \in Uid
  BY <1>2 DEF HandlerRecord
<1>8. /\ q \in HandlerRecord /\ q.pc = "load" /\ q.limit = 0
      /\ q.before = p.before /\ q.op = p.op /\ q.uid = p.uid
  BY <1>2, <1>7, SetRegisters
<1> HIDE DEF q
<1>9. handler'[h] = q
  BY <1>2, <1>6
<1>10. WorkOf(handler[h])'
  BY <1>1, <1>2, <1>3, <1>4, <1>5, <1>8, <1>9 DEF WorkOf
<1>11. Harmless
  <2>1. p.uid \in Justifiable'
    BY <1>2, <1>3, <1>8, <1>9, JustifiedNext
  <2>2. array' \in [Slot -> Uid] /\ index' \in 0 .. MAX_SIZE_ARRAY
    BY <1>1, <1>2, <1>5, <1>7
  <2>3. \A i \in Slot : array'[i] # array[i] => array'[i] \in Justifiable'
    BY <1>2, <1>5, <2>1
  <2>4. index <= index' /\ \A i \in 0 .. index - 1 : array'[i] = array[i]
    BY <1>1, <1>2, <1>4, <1>5
  <2> QED
    BY <2>2, <2>3, <2>4 DEF Harmless
<1> QED
  BY <1>1, <1>6, <1>8, <1>10, <1>11, RunningMoves

LEMMA BumpInv ==
  ASSUME OneAtATime, Inv, NEW h \in Handlers, h_bump(h)
  PROVE  Inv'
<1> DEFINE p == handler[h]
           b == p.before
<1>1. p.pc = "bump" /\ UNCHANGED <<array, settled>> /\ Watched /\ Active(h)
  BY DEF h_bump, Active
<1>2. /\ handler \in [Handlers -> HandlerRecord] /\ p \in HandlerRecord
      /\ array \in [Slot -> Uid] /\ index \in 0 .. MAX_SIZE_ARRAY /\ WorkOf(p)
      /\ b \in Table /\ NoDuplicate(b) /\ b.array \in [Slot -> Uid] /\ b.index \in Nat
      /\ InUse(b) = 0 .. b.index - 1 /\ MAX_SIZE_ARRAY \in Nat /\ InUse(b) \subseteq Slot
  BY <1>1, AtStep
<1>3. p.tmp = index /\ ~Full(b)
  BY <1>1, <1>2 DEF WorkOf, HandlerRecord
<1>4. p.cur \in Nat /\ p.value \in Uid /\ 0 \in Int
  BY <1>2 DEF HandlerRecord
<1>5. CASE p.op = "LOCK"
  <2> DEFINE q == Moving(p, p.cur, 0, p.value, "done")
  <2>1. index' = index + 1 /\ handler' = [handler EXCEPT ![h] = q]
    BY <1>2, <1>3, <1>5, <1>4 DEF h_bump, Moving
  <2>2. /\ q \in HandlerRecord /\ q.pc = "done"
        /\ q.before = p.before /\ q.op = p.op /\ q.uid = p.uid
    BY <1>2, <1>4, MovingRegisters
  <2>3. p.uid \in Uid
    BY <1>2 DEF HandlerRecord
  <2> HIDE DEF q
  <2>4. handler'[h] = q
    BY <1>2, <2>1
  <2>5. /\ index = b.index /\ ~is_hooked_user(b, p.uid)
        /\ array = [b.array EXCEPT ![b.index] = p.uid]
    BY <1>1, <1>2, <1>5 DEF WorkOf
  <2>6. table' = add_uid_to_array(b, p.uid)
    BY <1>1, <1>3, <2>1, <2>5 DEF table, add_uid_to_array
  <2>7. is_hooked_user(add_uid_to_array(b, p.uid), p.uid)
    BY <1>2, <1>3, <2>3, AddMembers
  <2>8. WorkOf(handler[h])'
    BY <1>2, <1>5, <2>2, <2>4, <2>6, <2>7 DEF WorkOf
  <2>9. Harmless
    <3>1. index' \in 0 .. MAX_SIZE_ARRAY
      BY <1>2, <1>3, <2>1, <2>5 DEF Full
    <3>2. array' = array /\ index <= index'
      BY <1>1, <1>2, <2>1
    <3> QED
      BY <1>2, <3>1, <3>2 DEF Harmless
  <2> QED
    BY <1>1, <2>1, <2>2, <2>8, <2>9, RunningMoves
<1>6. CASE p.op = "UNLOCK"
  <2> DEFINE q == Moving(p, p.cur, 0, p.value, "shift")
  <2>1. index' = index - 1 /\ handler' = [handler EXCEPT ![h] = q]
    BY <1>2, <1>3, <1>6, <1>4 DEF h_bump, Moving
  <2>2. /\ q \in HandlerRecord /\ q.pc = "shift" /\ q.cur = p.cur
        /\ q.before = p.before /\ q.op = p.op /\ q.uid = p.uid
    BY <1>2, <1>4, MovingRegisters
  <2> HIDE DEF q
  <2>3. handler'[h] = q
    BY <1>2, <2>1
  <2>4. table = b /\ p.cur \in InUse(b) /\ b.array[p.cur] = p.uid
    BY <1>1, <1>2, <1>6 DEF WorkOf
  <2>5. array = b.array /\ index = b.index
    BY <2>4 DEF table
  <2>6. array' = Moved(b, p.cur, p.cur)
    BY <1>1, <1>2, <2>4, <2>5 DEF Moved
  <2>7. index' = b.index - 1 /\ p.cur \in p.cur .. index' /\ index' \in 0 .. MAX_SIZE_ARRAY
    BY <1>2, <2>1, <2>4, <2>5
  <2>8. WorkOf(handler[h])'
    BY <1>2, <1>3, <1>6, <2>2, <2>3, <2>4, <2>6, <2>7 DEF WorkOf
  <2>9. Harmless
    <3>1. Shifting'
      BY <1>6, <2>2, <2>3 DEF Shifting
    <3> QED
      BY <1>1, <1>2, <2>7, <3>1 DEF Harmless
  <2> QED
    BY <1>1, <2>1, <2>2, <2>8, <2>9, RunningMoves
<1>7. p.op \in {"LOCK", "UNLOCK"}
  BY <1>2 DEF HandlerRecord
<1> QED
  BY <1>5, <1>6, <1>7

\* What the move of a removal starts each round from.
LEMMA AtShift ==
  ASSUME OneAtATime, Inv, NEW h \in Handlers, handler[h].pc \in {"shift", "move"}
  PROVE  LET p == handler[h]
             b == handler[h].before
         IN  /\ Active(h) /\ p.op = "UNLOCK" /\ ~Full(b) /\ index = b.index - 1
             /\ index \in Nat /\ index + 1 <= MAX_SIZE_ARRAY /\ p.cur \in Nat
             /\ \E hole \in InUse(b) : /\ b.array[hole] = p.uid
                                       /\ p.cur \in hole .. index
                                       /\ array = Moved(b, hole, p.cur)
<1> DEFINE p == handler[h]
           b == p.before
<1>1. Active(h)
  BY DEF Active
<1>2. /\ WorkOf(p) /\ p \in HandlerRecord /\ index \in 0 .. MAX_SIZE_ARRAY
      /\ b.index \in Nat /\ b.index <= MAX_SIZE_ARRAY /\ MAX_SIZE_ARRAY \in Nat
  BY <1>1, AtStep
<1>3. /\ p.op = "UNLOCK" /\ ~Full(b) /\ index = b.index - 1
      /\ \E hole \in InUse(b) : /\ b.array[hole] = p.uid
                                /\ p.cur \in hole .. index
                                /\ array = Moved(b, hole, p.cur)
  BY <1>2 DEF WorkOf
<1>4. p.cur \in Nat
  BY <1>2 DEF HandlerRecord
<1> QED
  BY <1>1, <1>2, <1>3, <1>4

LEMMA ShiftInv ==
  ASSUME OneAtATime, Inv, NEW h \in Handlers, h_shift(h)
  PROVE  Inv'
<1> DEFINE p == handler[h]
           b == p.before
<1>1. p.pc = "shift" /\ UNCHANGED <<array, index, settled>> /\ Watched
  BY DEF h_shift
<1>2. /\ Active(h) /\ p.op = "UNLOCK" /\ ~Full(b) /\ index = b.index - 1
      /\ index \in Nat /\ index + 1 <= MAX_SIZE_ARRAY /\ p.cur \in Nat
  BY <1>1, AtShift
<1>3. PICK hole \in InUse(b) : /\ b.array[hole] = p.uid
                               /\ p.cur \in hole .. index
                               /\ array = Moved(b, hole, p.cur)
  BY <1>1, AtShift
<1>4. /\ handler \in [Handlers -> HandlerRecord] /\ p \in HandlerRecord
      /\ array \in [Slot -> Uid] /\ b \in Table /\ NoDuplicate(b)
      /\ b.array \in [Slot -> Uid] /\ InUse(b) = 0 .. b.index - 1
      /\ Slot = 0 .. MAX_SIZE_ARRAY - 1 /\ MAX_SIZE_ARRAY \in Nat
  BY <1>2, AtStep
<1>5. Harmless
  BY <1>1, QuietIsHarmless
<1>6. CASE p.cur < index
  <2> DEFINE v == array[p.cur + 1]
             q == Moving(p, p.cur, p.tmp, v, "move")
  <2>1. p.cur + 1 \in Slot
    BY <1>2, <1>4, <1>6
  <2>2. v \in Uid /\ Load(p.cur + 1) = {v}
    BY <1>4, <2>1 DEF Load
  <2>3. v = b.array[p.cur + 1]
    BY <1>3, <2>1, <1>2 DEF Moved
  <2> HIDE DEF v
  <2>4. handler' = [handler EXCEPT ![h] = q]
    <3>1. handler' = [handler EXCEPT ![h].pc = "move", ![h].value = v]
      BY <1>2, <1>6, <2>2 DEF h_shift
    <3>2. [p EXCEPT !.pc = "move", !.value = v] = q
      BY <1>4 DEF Moving, HandlerRecord
    <3>3. handler' = [handler EXCEPT ![h] = [p EXCEPT !.pc = "move", !.value = v]]
      BY <1>4, <3>1
    <3> QED
      BY <3>2, <3>3
  <2>5. /\ q \in HandlerRecord /\ q.pc = "move" /\ q.cur = p.cur /\ q.value = v
        /\ q.before = p.before /\ q.op = p.op /\ q.uid = p.uid
    <3>1. p.cur \in Nat /\ p.tmp \in Int
      BY <1>4 DEF HandlerRecord
    <3> QED
      BY <1>4, <2>2, <3>1, MovingRegisters
  <2> HIDE DEF q
  <2>6. handler'[h] = q
    BY <1>4, <2>4
  <2>7. WorkOf(handler[h])'
    BY <1>1, <1>2, <1>3, <1>4, <1>6, <2>3, <2>5, <2>6 DEF WorkOf
  <2> QED
    BY <1>1, <1>2, <1>5, <2>4, <2>5, <2>7, RunningMoves
<1>7. CASE ~(p.cur < index)
  <2> DEFINE q == Moving(p, 0, p.tmp, p.value, "done")
  <2>1. p.tmp \in Int /\ p.value \in Uid /\ 0 \in Nat
    BY <1>4 DEF HandlerRecord
  <2>2. handler' = [handler EXCEPT ![h] = q]
    BY <1>2, <1>4, <1>7, <2>1 DEF h_shift, Moving
  <2>3. /\ q \in HandlerRecord /\ q.pc = "done"
        /\ q.before = p.before /\ q.op = p.op /\ q.uid = p.uid
    BY <1>4, <2>1, MovingRegisters
  <2> HIDE DEF q
  <2>4. handler'[h] = q
    BY <1>4, <2>2
  <2>5. table = remove_uid_from_array(b, p.uid)
    <3>1. FirstSlot(b, p.uid) = hole
      BY <1>3, <1>4, FirstSlotUnique
    <3>2. is_hooked_user(b, p.uid)
      BY <1>3 DEF is_hooked_user
    <3>3. p.cur = b.index - 1
      BY <1>2, <1>3, <1>4, <1>7
    <3>4. array = [i \in Slot |-> IF i \in hole .. b.index - 1 - 1
                                    THEN b.array[i + 1] ELSE b.array[i]]
      BY <1>3, <3>3 DEF Moved
    <3> QED
      BY <1>2, <3>1, <3>2, <3>4 DEF remove_uid_from_array, table
  <2>6. table' = table
    BY <1>1 DEF table
  <2>7. WorkOf(handler[h])'
    BY <1>2, <1>4, <2>3, <2>4, <2>5, <2>6 DEF WorkOf
  <2> QED
    BY <1>1, <1>2, <1>5, <2>2, <2>3, <2>7, RunningMoves
<1> QED
  BY <1>6, <1>7

LEMMA MoveInv ==
  ASSUME OneAtATime, Inv, NEW h \in Handlers, h_move(h)
  PROVE  Inv'
<1> DEFINE p == handler[h]
           b == p.before
           q == Moving(p, p.cur + 1, p.tmp, Root, "shift")
<1>1. p.pc = "move" /\ UNCHANGED <<index, settled>> /\ Watched
  BY DEF h_move
<1>2. /\ Active(h) /\ p.op = "UNLOCK" /\ ~Full(b) /\ index = b.index - 1
      /\ index \in Nat /\ index + 1 <= MAX_SIZE_ARRAY /\ p.cur \in Nat
  BY <1>1, AtShift
<1>3. PICK hole \in InUse(b) : /\ b.array[hole] = p.uid
                               /\ p.cur \in hole .. index
                               /\ array = Moved(b, hole, p.cur)
  BY <1>1, AtShift
<1>4. /\ handler \in [Handlers -> HandlerRecord] /\ p \in HandlerRecord /\ WorkOf(p)
      /\ array \in [Slot -> Uid] /\ b \in Table /\ NoDuplicate(b)
      /\ b.array \in [Slot -> Uid] /\ InUse(b) = 0 .. b.index - 1
      /\ Slot = 0 .. MAX_SIZE_ARRAY - 1 /\ MAX_SIZE_ARRAY \in Nat
  BY <1>2, AtStep
<1>5. p.cur < index /\ p.value = b.array[p.cur + 1]
  BY <1>1, <1>4 DEF WorkOf
<1>6. p.tmp \in Int /\ p.value \in Uid /\ Root \in Uid /\ p.cur + 1 \in Nat
  BY <1>2, <1>4, UidTableAssumption DEF HandlerRecord
<1>7. p.cur \in Slot /\ p.cur + 1 \in InUse(b)
  BY <1>2, <1>4, <1>5
<1>8. array' = [array EXCEPT ![p.cur] = p.value]
  BY <1>7 DEF h_move, Store
<1>9. handler' = [handler EXCEPT ![h] = q]
  BY <1>4, <1>6 DEF h_move, Moving
<1>10. /\ q \in HandlerRecord /\ q.pc = "shift" /\ q.cur = p.cur + 1
       /\ q.before = p.before /\ q.op = p.op /\ q.uid = p.uid
  BY <1>4, <1>6, MovingRegisters
<1> HIDE DEF q
<1>11. handler'[h] = q
  BY <1>4, <1>9
<1>12. array' = Moved(b, hole, p.cur + 1)
  <2> DEFINE next == p.cur + 1
             moved(i) == IF i \in hole .. next - 1 THEN b.array[i + 1] ELSE b.array[i]
  <2>1. hole \in Nat
    BY <1>4
  <2>2. ASSUME NEW i \in Slot PROVE array'[i] = moved(i)
    <3>1. CASE i = p.cur
      BY <1>2, <1>3, <1>4, <1>5, <1>7, <1>8, <2>1, <3>1
    <3>2. CASE i # p.cur
      <4>1. array'[i] = array[i]
        BY <1>4, <1>8, <3>2
      <4>2. i \in hole .. p.cur - 1 <=> i \in hole .. next - 1
        BY <1>2, <1>4, <2>1, <3>2
      <4> QED
        BY <1>3, <4>1, <4>2 DEF Moved
    <3> QED
      BY <3>1, <3>2
  <2>3. array' = [i \in Slot |-> array'[i]]
    BY <1>4, <1>8
  <2> HIDE DEF next
  <2>4. Moved(b, hole, next) = [i \in Slot |-> moved(i)]
    BY DEF Moved
  <2> HIDE DEF moved
  <2>5. array' = Moved(b, hole, next)
    BY <2>2, <2>3, <2>4
  <2> QED
    BY <2>5 DEF next
<1>13. WorkOf(handler[h])'
  <2>1. p.cur + 1 \in hole .. index
    BY <1>2, <1>3, <1>4, <1>5
  <2> QED
    BY <1>1, <1>2, <1>3, <1>4, <1>10, <1>11, <1>12, <2>1 DEF WorkOf
<1>14. Harmless
  <2>1. Shifting'
    BY <1>2, <1>10, <1>11 DEF Shifting
  <2>2. is_hooked_user(b, p.value)
    BY <1>5, <1>7 DEF is_hooked_user
  <2>3. p.value \in Justifiable'
    BY <1>4, <1>10, <1>11, <2>2, JustifiedNext
  <2>4. array' \in [Slot -> Uid]
    BY <1>4, <1>6, <1>8
  <2>5. index' \in 0 .. MAX_SIZE_ARRAY
    BY <1>1, <1>2, <1>4
  <2>6. \A i \in Slot : array'[i] # array[i] => array'[i] \in Justifiable'
    BY <1>4, <1>8, <2>3
  <2> QED
    BY <2>1, <2>4, <2>5, <2>6 DEF Harmless
<1> QED
  BY <1>1, <1>2, <1>9, <1>10, <1>13, <1>14, RunningMoves

LEMMA ReturnInv ==
  ASSUME OneAtATime, Inv, NEW h \in Handlers, h_return(h)
  PROVE  Inv'
<1> DEFINE p == handler[h]
           b == p.before
<1>1. p.pc = "done" /\ UNCHANGED <<array, index>> /\ Watched /\ Active(h)
  BY DEF h_return, Active
<1>2. /\ handler \in [Handlers -> HandlerRecord] /\ p \in HandlerRecord /\ WorkOf(p)
      /\ settled \subseteq Uid /\ b \in Table /\ NoDuplicate(b)
      /\ \A v \in settled : is_hooked_user(b, v) /\ (p.op = "UNLOCK" => v # p.uid)
  BY <1>1, AtStep
<1>3. p.uid \in Uid /\ p.op \in {"LOCK", "UNLOCK"}
  BY <1>2 DEF HandlerRecord
<1>4. IdleHandler \in HandlerRecord /\ IdleHandler.pc = "idle"
  <2>1. EmptyTable \in AnyTable
    BY EmptyTableFacts DEF Table, AnyTable
  <2> QED
    BY <2>1, UidTableAssumption DEF IdleHandler, HandlerRecord
<1>5. handler' \in [Handlers -> HandlerRecord] /\ handler'[h] = IdleHandler
  BY <1>2, <1>4 DEF h_return
<1>6. /\ table = IF p.op = "LOCK" THEN add_uid_to_array(b, p.uid)
                                 ELSE remove_uid_from_array(b, p.uid)
      /\ p.op = "LOCK" /\ p.limit < MAX_SIZE_ARRAY => is_hooked_user(table, p.uid)
  BY <1>1, <1>2 DEF WorkOf
<1>7. table \in Table /\ NoDuplicate(table)
  BY <1>2, <1>3, <1>6, AddType, AddNoDuplicate, RemoveType
<1>8. \A v \in settled : is_hooked_user(table, v)
  BY <1>2, <1>3, <1>6, AddMembers, RemoveMembers
<1>9. \/ settled' = settled
      \/ /\ settled' = settled \cup {p.uid}
         /\ p.op = "LOCK" /\ p.limit < MAX_SIZE_ARRAY
  BY DEF h_return
<1>10. settled' \subseteq Uid /\ \A v \in settled' : is_hooked_user(table, v)
  BY <1>2, <1>3, <1>6, <1>8, <1>9
<1>11. table' = table
  BY <1>1 DEF table
<1>12. Harmless
  BY <1>1, QuietIsHarmless
<1> QED
  BY <1>1, <1>4, <1>5, <1>7, <1>10, <1>11, <1>12, HandlerMoves DEF Active

-----------------------------------------------------------------------------

LEMMA InvInit ==
  ASSUME Init
  PROVE  Inv
<1>1. table = EmptyTable
  BY DEF Init, table, EmptyTable
<1>2. EmptyTable \in AnyTable /\ EmptyTable.index = 0
  BY EmptyTableFacts DEF Table, AnyTable, EmptyTable
<1>3. IdleHandler \in HandlerRecord /\ IdleHandler.pc = "idle"
  BY <1>2, UidTableAssumption DEF IdleHandler, HandlerRecord
<1>4. IdleHook \in HookRecord /\ IdleHook.pc = "idle" /\ IdleHook.limit = 0
  BY UidTableAssumption DEF IdleHook, HookRecord
<1>5. \A h \in Handlers : ~Active(h)
  BY <1>3 DEF Init, Active
<1>6. TypeOK
  BY <1>2, <1>3, <1>4 DEF Init, TypeOK, HandlerRecord, HookRecord, AnyTable
<1>7. Work /\ Ledger
  BY <1>1, <1>5, EmptyTableFacts DEF Work, Ledger, Init
<1>8. \A k \in Hooks : HookOK(k)
  BY <1>4, UidTableAssumption DEF Init, HookOK
<1>9. index \in 0 .. MAX_SIZE_ARRAY
  BY <1>2, UidTableAssumption DEF Init
<1> QED
  BY <1>6, <1>7, <1>8, <1>9 DEF Inv

LEMMA InvStutters ==
  ASSUME Inv, UNCHANGED vars
  PROVE  Inv'
<1>1. UNCHANGED <<array, index, handler, hook, settled>>
  BY DEF vars
<1>2. table' = table /\ Shifting' = Shifting
  BY <1>1 DEF table, Shifting
<1>3. \A h \in Handlers : Active(h)' = Active(h)
  BY <1>1 DEF Active
<1>4. TypeOK' /\ index' \in 0 .. MAX_SIZE_ARRAY
  BY <1>1 DEF Inv, TypeOK
<1>5. Work'
  BY <1>1, <1>2, <1>3 DEF Inv, Work, WorkOf
<1>6. Ledger'
  BY <1>1, <1>2, <1>3 DEF Inv, Ledger
<1>7. \A k \in Hooks : HookOK(k)'
  BY <1>1, <1>2 DEF Inv, HookOK
<1> QED
  BY <1>4, <1>5, <1>6, <1>7 DEF Inv

LEMMA InvStep ==
  ASSUME OneAtATime, Inv, [Next]_vars
  PROVE  Inv'
<1>1. ASSUME NEW h \in Handlers, HandlerStep(h) PROVE Inv'
  BY <1>1, CheckInv, ScanInv, StoreInv, LoadInv, BumpInv, ShiftInv, MoveInv, ReturnInv
     DEF HandlerStep
<1>2. ASSUME NEW h \in Handlers, NEW cmd \in Commands[h], Command(h, cmd) PROVE Inv'
  BY <1>2, CommandInv
<1>3. ASSUME NEW k \in Hooks, hook_scan(k) \/ hook_return(k) \/ \E u \in Uid : hook_call(k, u)
      PROVE  Inv'
  BY <1>3, HookInv
<1>4. CASE UNCHANGED vars
  BY <1>4, InvStutters
<1> QED
  BY <1>1, <1>2, <1>3, <1>4 DEF Next

\* The inductive invariant holds in every reachable state: with one
\* administrator at a time the steps of add_uid_to_array and
\* remove_uid_from_array, of any number of hooks beside them and of a table of
\* any size keep what each register says of the table.
THEOREM InvHolds ==
  ASSUME OneAtATime
  PROVE  Spec => []Inv
<1>1. Init => Inv
  BY InvInit
<1>2. Inv /\ [Next]_vars => Inv'
  BY InvStep
<1> QED
  BY <1>1, <1>2, PTL DEF Spec

\* The registers and the table keep their types.
THEOREM TypesHold ==
  ASSUME OneAtATime
  PROVE  Spec => []TypeOK
<1>1. Inv => TypeOK
  BY DEF Inv
<1> QED
  BY <1>1, InvHolds, PTL

\* No search and no move of add_uid_to_array, remove_uid_from_array or
\* is_hooked_user leaves the array, whatever MAX_SIZE_ARRAY.
THEOREM AccessesInBounds ==
  ASSUME OneAtATime
  PROVE  Spec => []InBounds
<1>1. Inv => InBounds
  <2> SUFFICES ASSUME Inv PROVE InBounds
    OBVIOUS
  <2>1. index \in 0 .. MAX_SIZE_ARRAY
    BY DEF Inv
  <2>2. \A k \in Hooks : hook[k].limit <= MAX_SIZE_ARRAY
    BY UidTableAssumption DEF Inv, HookOK
  <2>3. ASSUME NEW h \in Handlers
        PROVE  /\ handler[h].pc = "store" => {handler[h].limit, index} \subseteq Slot
               /\ handler[h].pc = "scan" => handler[h].limit <= MAX_SIZE_ARRAY
               /\ handler[h].pc = "shift" /\ handler[h].cur < index
                    => handler[h].cur + 1 \in Slot
    <3> DEFINE r == handler[h]
               b == r.before
    <3>1. r \in HandlerRecord /\ MAX_SIZE_ARRAY \in Nat /\ Slot = 0 .. MAX_SIZE_ARRAY - 1
      BY UidTableAssumption DEF Inv, TypeOK, HandlerRecord, AnyTable, Slot
    <3>2. r.pc \in {"store", "scan", "shift"} =>
            /\ WorkOf(r) /\ b \in Table /\ b.index \in Nat /\ b.index <= MAX_SIZE_ARRAY
      BY TableFacts DEF Inv, Work, WorkOf, Active
    <3>3. r.pc = "store" => r.limit = index /\ index \in Slot
      BY <2>1, <3>1, <3>2 DEF WorkOf, table, Full
    <3>4. r.pc = "scan" => r.limit <= MAX_SIZE_ARRAY
      BY <2>1, <3>1, <3>2 DEF WorkOf
    <3>5. r.pc = "shift" => index + 1 <= MAX_SIZE_ARRAY /\ r.cur \in Nat
      BY <2>1, <3>1, <3>2 DEF WorkOf, HandlerRecord
    <3> QED
      BY <2>1, <3>1, <3>3, <3>4, <3>5
  <2> QED
    BY <2>1, <2>2, <2>3 DEF InBounds
<1> QED
  BY <1>1, InvHolds, PTL

\* The steps of a command add up to the atomic add_uid_to_array or
\* remove_uid_from_array of UidTable: this is what lets FreezerModule take a
\* handler for one action.
THEOREM FunctionsAreOperators ==
  ASSUME OneAtATime
  PROVE  Spec => []FunctionsMatchOperators
<1>1. Inv => FunctionsMatchOperators
  BY DEF Inv, Work, WorkOf, Active, FunctionsMatchOperators
<1> QED
  BY <1>1, InvHolds, PTL

\* is_hooked_user beside a command never says "hooked" of a uid that nobody
\* had locked or was locking while it searched.
THEOREM HitsAreJustified ==
  ASSUME OneAtATime
  PROVE  Spec => []HitIsJustified
<1>1. Inv => HitIsJustified
  BY DEF Inv, HookOK, HitIsJustified
<1> QED
  BY <1>1, InvHolds, PTL

\* is_hooked_user misses a uid that was locked all along only beside a removal
\* that was moving slots.
THEOREM OnlyRemovalsHide ==
  ASSUME OneAtATime
  PROVE  Spec => []MissNeedsRemoval
<1>1. Inv => MissNeedsRemoval
  BY DEF Inv, HookOK, MissNeedsRemoval
<1> QED
  BY <1>1, InvHolds, PTL

\* What completed commands locked and nothing unlocked since is in the table
\* whenever no command is running.
THEOREM LocksAreKept ==
  ASSUME OneAtATime
  PROVE  Spec => []CompletedLocksHold
<1>1. Inv => CompletedLocksHold
  <2> SUFFICES ASSUME Inv, \A h \in Handlers : ~Active(h), NEW v \in settled
               PROVE  v \in Within(table)
    BY DEF CompletedLocksHold
  <2>1. table \in Table /\ is_hooked_user(table, v)
    BY DEF Inv, Ledger
  <2> QED
    BY <2>1, TableFacts DEF is_hooked_user, Within
<1> QED
  BY <1>1, InvHolds, PTL
=============================================================================
