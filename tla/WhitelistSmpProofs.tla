------------------------- MODULE WhitelistSmpProofs -------------------------
(***************************************************************************)
(* add_to_whitelist step by step computes what its operator says, for      *)
(* every capacity, size of the list and sequence of failed allocations,    *)
(* and while the module is loaded and unloaded; and the types of a module  *)
(* that comes and goes.                                                    *)
(*                                                                         *)
(* ListInv says of each point of the handler what the list has become of   *)
(* the one the command began with.  That a list without storage has room   *)
(* left is what keeps a second krealloc, which would succeed on NULL, from *)
(* being reached.                                                          *)
(***************************************************************************)
EXTENDS ModuleLifecycleProofs, WhitelistProofs

HandlerRecord ==
  [pc : {"idle", "check", "scan", "push", "realloc", "storage", "cell", "size",
         "new", "publish", "raise", "done", "oops"},
   uid : Uid, data : Data \cup {NoData}, cur : Nat, reg : Nat,
   before : Seq(Entry), refused : SUBSET WhitelistAllocation]

Made(uid, array, capacity, lost) ==
  [uid |-> uid, array |-> array, capacity |-> capacity, lost |-> lost]

\* An entry as Value shows it.
View(e) == Made(e.uid, SubSeq(e.cells, 1, e.size), e.capacity, e.base = 0)

SoundEntry(e) ==
  /\ e.capacity # 0 /\ e.live # 0
  /\ e.size <= e.capacity
  /\ e.base = 0 => e.size < e.capacity

\* The cell that was stored and not yet counted.
Uncounted(i) == handler.pc = "size" /\ i = handler.cur + 1

Lists ==
  /\ list \in Seq(StoredEntry) /\ index \in 0 .. MAX_SIZE_ARRAY
  /\ handler \in HandlerRecord
  /\ Len(list) = IF handler.pc = "raise" THEN index + 1 ELSE index
  /\ \A i \in DOMAIN list :
       /\ SoundEntry(list[i])
       /\ Len(list[i].cells) = IF Uncounted(i) THEN list[i].size + 1 ELSE list[i].size

\* The search stopped at entry n of w.
StopsAt(w, n, uid) ==
  /\ n \in DOMAIN w /\ w[n].uid = uid
  /\ \A j \in 1 .. n - 1 : w[j].uid # uid

With(w, n, e) == [w EXCEPT ![n] = e]
Pushed(e, data, capacity) == Made(e.uid, Append(e.array, data), capacity, FALSE)

\* Entry n of w was full, and its capacity is doubled.
Doubled(w, n) ==
  [w EXCEPT ![n] = Made(w[n].uid, w[n].array, 2 * w[n].capacity, w[n].lost)]
WasFull(e) == Len(e.array) = e.capacity /\ ~e.lost

Work ==
  LET w == handler.before
      n == handler.cur + 1
      pc == handler.pc
  IN  /\ pc \notin {"idle", "done", "oops"} => handler.data \in Data /\ Len(w) = index
      /\ pc \notin {"idle", "check", "done", "oops"} => index < MAX_SIZE_ARRAY
      /\ pc \in {"check", "scan", "push", "realloc", "cell", "size", "new", "publish", "raise"}
           => handler.refused = {}
      /\ pc \in {"check", "scan", "push", "new", "publish", "raise"} => Value = w
      /\ pc = "check" => handler.cur = 0
      /\ pc = "scan" => \A j \in 1 .. handler.cur : j \in DOMAIN w /\ w[j].uid # handler.uid
      /\ pc \in {"push", "realloc", "storage", "cell", "size"} => StopsAt(w, n, handler.uid)
      /\ pc \in {"realloc", "storage"} => WasFull(w[n]) /\ Value = Doubled(w, n)
      /\ pc = "storage" => handler.refused = IF handler.reg = 0 THEN {"array"} ELSE {}
      /\ pc \in {"cell", "size"} =>
           /\ list[n].size < list[n].capacity
           /\ \/ Value = w /\ Len(w[n].array) # w[n].capacity
              \/ Value = Doubled(w, n) /\ WasFull(w[n])
      /\ pc = "size" => ~w[n].lost /\ list[n].cells = Append(w[n].array, handler.data)
      /\ pc \in {"new", "publish", "raise"} => ~HasEntry(w, handler.uid)
      /\ pc = "raise" =>
           View(list[index + 1]) =
             Made(handler.uid, <<handler.data>>, ARRAY_DEFAULT_CAPACITY, FALSE)
      /\ HandlerMatchesOperator

ListInv == Lists /\ Work

-----------------------------------------------------------------------------
(* What an entry looks like. *)

LEMMA ValueIs == Value = [i \in 1 .. index |-> View(list[i])]
BY DEF Value, View, Made

LEMMA ViewFacts ==
  ASSUME NEW e \in StoredEntry, e.size <= Len(e.cells)
  PROVE  /\ View(e) \in Entry
         /\ Len(View(e).array) = e.size
         /\ e.size = Len(e.cells) => View(e).array = e.cells
<1>1. e.cells \in Seq(Data) /\ e.size \in Nat /\ e.uid \in Uid /\ e.capacity \in Nat
  BY DEF StoredEntry
<1>2. /\ SubSeq(e.cells, 1, e.size) \in Seq(Data)
      /\ Len(SubSeq(e.cells, 1, e.size)) = e.size
      /\ e.size = Len(e.cells) => SubSeq(e.cells, 1, e.size) = e.cells
  BY <1>1
<1> QED
  BY <1>1, <1>2 DEF View, Made, Entry

\* A cell behind the size is not seen.
LEMMA Unseen ==
  ASSUME NEW c \in Seq(Data), NEW d \in Data
  PROVE  SubSeq(Append(c, d), 1, Len(c)) = c
OBVIOUS

LEMMA ValueFacts ==
  ASSUME Lists
  PROVE  /\ Value \in Seq(Entry) /\ Len(Value) = index /\ DOMAIN Value = 1 .. index
         /\ index \in Nat /\ 1 .. index \subseteq DOMAIN list
         /\ \A i \in 1 .. index : Value[i] = View(list[i]) /\ list[i] \in StoredEntry
<1>1. index \in Nat /\ 1 .. index \subseteq DOMAIN list
  BY UidTableAssumption DEF Lists
<1>2. ASSUME NEW i \in 1 .. index PROVE list[i] \in StoredEntry /\ View(list[i]) \in Entry
  <2>1. list[i] \in StoredEntry
    BY <1>1 DEF Lists
  <2>2. list[i].size <= Len(list[i].cells)
    <3>1. list[i].size \in Nat
      BY <2>1 DEF StoredEntry
    <3> QED
      BY <1>1, <3>1 DEF Lists
  <2> QED
    BY <2>1, <2>2, ViewFacts
<1> QED
  BY <1>1, <1>2, ValueIs

\* A step that writes one entry.
LEMMA OneEntryWritten ==
  ASSUME Lists, NEW n \in 1 .. index, NEW e, index' = index,
         list' = [list EXCEPT ![n] = e]
  PROVE  /\ Value' = [Value EXCEPT ![n] = View(e)]
         /\ View(e) = View(list[n]) => Value' = Value
<1>1. Value' = [i \in 1 .. index |-> View(list'[i])]
  BY DEF Value, View, Made
<1>2. \A i \in 1 .. index : list'[i] = IF i = n THEN e ELSE list[i]
  BY ValueFacts
<1>3. Value' = [i \in 1 .. index |-> IF i = n THEN View(e) ELSE View(list[i])]
  BY <1>1, <1>2
<1>4. \A i \in 1 .. index : Value[i] = View(list[i])
  BY ValueFacts
<1>5. Value \in Seq(Entry) /\ DOMAIN Value = 1 .. index
  BY ValueFacts
<1>6. Value = [i \in 1 .. index |-> Value[i]]
  BY ValueIs, <1>4
<1>7. Value' = [Value EXCEPT ![n] = View(e)]
  BY <1>3, <1>4, <1>5, <1>6
<1>8. View(e) = View(list[n]) => Value' = Value
  BY <1>3, <1>4, <1>6
<1> QED
  BY <1>7, <1>8

-----------------------------------------------------------------------------
(* What the operator of Whitelist says of a list and its entries. *)

LEMMA EntryWith ==
  ASSUME NEW e \in Entry, NEW array \in Seq(Data), NEW capacity \in Nat, NEW lost \in BOOLEAN,
         NEW f
  PROVE  /\ f = [e EXCEPT !.array = array] => f = Made(e.uid, array, e.capacity, e.lost)
         /\ f = [e EXCEPT !.capacity = capacity, !.lost = lost]
              => f = Made(e.uid, e.array, capacity, lost)
<1> USE DEF Made
<1>1. f = [e EXCEPT !.array = array] => f = Made(e.uid, array, e.capacity, e.lost)
  BY DEF Entry
<1>2. ASSUME f = [e EXCEPT !.capacity = capacity, !.lost = lost]
      PROVE  f = Made(e.uid, e.array, capacity, lost)
  BY <1>2 DEF Entry
<1> QED
  BY <1>1, <1>2

LEMMA GrownEntry ==
  ASSUME NEW e \in Entry, NEW array \in Seq(Data), NEW capacity \in Nat, NEW f,
         f = [e EXCEPT !.capacity = capacity, !.array = array]
  PROVE  f = Made(e.uid, array, capacity, e.lost)
BY DEF Entry, Made

LEMMA StopsFirst ==
  ASSUME NEW w \in Seq(Entry), NEW n, NEW uid, StopsAt(w, n, uid)
  PROVE  HasEntry(w, uid) /\ FirstEntry(w, uid) = n /\ EntryOf(w, uid) = w[n]
<1>1. n \in DOMAIN w /\ w[n].uid = uid /\ \A j \in 1 .. n - 1 : w[j].uid # uid
  BY DEF StopsAt
<1>2. ASSUME NEW m \in DOMAIN w, w[m].uid = uid, \A j \in 1 .. m - 1 : w[j].uid # uid
      PROVE  m = n
  <2>1. m \in Nat /\ n \in Nat /\ m >= 1 /\ n >= 1
    BY <1>1, <1>2
  <2>2. ~(m < n) /\ ~(n < m)
    BY <1>1, <1>2, <2>1
  <2> QED
    BY <2>1, <2>2
<1>3. FirstEntry(w, uid) = n
  BY <1>1, <1>2 DEF FirstEntry
<1> QED
  BY <1>1, <1>3 DEF HasEntry, EntryOf

LEMMA AddAtEntry ==
  ASSUME NEW w \in Seq(Entry), NEW n, NEW uid, StopsAt(w, n, uid), ~w[n].lost,
         Len(w) < MAX_SIZE_ARRAY, NEW data, NEW refused
  PROVE  /\ ~add_to_whitelist_faults(w, uid, refused)
         /\ add_to_whitelist(w, data, uid, refused) = With(w, n, array_push(w[n], data, refused))
<1>1. HasEntry(w, uid) /\ FirstEntry(w, uid) = n /\ EntryOf(w, uid) = w[n]
  BY StopsFirst
<1>2. ~add_to_whitelist_faults(w, uid, refused)
  BY <1>1 DEF add_to_whitelist_faults
<1>3. ~(Len(w) >= MAX_SIZE_ARRAY)
  BY UidTableAssumption
<1> QED
  BY <1>1, <1>2, <1>3 DEF add_to_whitelist, With

\* A push on an Array with storage: without growth, with growth, and with a
\* growth that fails.
LEMMA PushOutcome ==
  ASSUME NEW e \in Entry, ~e.lost, NEW data \in Data, NEW refused, NEW f,
         f = array_push(e, data, refused)
  PROVE  /\ Len(e.array) # e.capacity => f = Pushed(e, data, e.capacity)
         /\ Len(e.array) = e.capacity /\ "array" \notin refused =>
              f = Pushed(e, data, 2 * e.capacity)
         /\ Len(e.array) = e.capacity /\ "array" \in refused =>
              f = Made(e.uid, e.array, 2 * e.capacity, TRUE)
<1>1. /\ e.lost = FALSE
      /\ e.array \in Seq(Data) /\ Append(e.array, data) \in Seq(Data)
      /\ e.capacity \in Nat /\ 2 * e.capacity \in Nat
  BY DEF Entry
<1>2. ASSUME Len(e.array) # e.capacity PROVE f = Pushed(e, data, e.capacity)
  <2>1. f = [e EXCEPT !.array = Append(e.array, data)]
    BY <1>2 DEF array_push
  <2>2. f = Made(e.uid, Append(e.array, data), e.capacity, e.lost)
    BY <1>1, <2>1, EntryWith
  <2> QED
    BY <1>1, <2>2 DEF Pushed
<1>3. ASSUME Len(e.array) = e.capacity, "array" \notin refused
      PROVE  f = Pushed(e, data, 2 * e.capacity)
  <2> DEFINE a == Append(e.array, data)
             c == 2 * e.capacity
  <2>1. f = [e EXCEPT !.capacity = c, !.array = a] /\ a \in Seq(Data) /\ c \in Nat
    BY <1>1, <1>3 DEF array_push
  <2> HIDE DEF a, c
  <2>2. f = Made(e.uid, a, c, e.lost)
    BY <2>1, GrownEntry
  <2> QED
    BY <1>1, <2>2 DEF a, c, Pushed
<1>4. ASSUME Len(e.array) = e.capacity, "array" \in refused
      PROVE  f = Made(e.uid, e.array, 2 * e.capacity, TRUE)
  <2>1. f = [e EXCEPT !.capacity = 2 * e.capacity, !.lost = TRUE]
    BY <1>4 DEF array_push
  <2> QED
    BY <1>1, <2>1, EntryWith
<1> QED
  BY <1>2, <1>3, <1>4

-----------------------------------------------------------------------------
(* The steps of add_to_whitelist. *)

\* The handler writes nothing.
LEMMA NothingWritten ==
  ASSUME Lists, list' = list, index' = index, handler' \in HandlerRecord,
         handler.pc \notin {"size", "raise"}, handler'.pc \notin {"size", "raise"}
  PROVE  Lists' /\ Value' = Value
<1>1. Value' = Value
  BY DEF Value
<1>2. \A i : ~Uncounted(i) /\ ~Uncounted(i)'
  BY DEF Uncounted
<1> QED
  BY <1>1, <1>2 DEF Lists

\* The handler writes its entry.
LEMMA MineWritten ==
  ASSUME Lists, index' = index, handler' \in HandlerRecord,
         NEW n \in 1 .. index, n = handler.cur + 1, handler'.cur = handler.cur,
         NEW e \in StoredEntry, list' = [list EXCEPT ![n] = e], SoundEntry(e),
         Len(e.cells) = IF handler'.pc = "size" THEN e.size + 1 ELSE e.size,
         handler.pc # "raise", handler'.pc # "raise"
  PROVE  Lists' /\ Value' = [Value EXCEPT ![n] = View(e)]
<1>1. Value' = [Value EXCEPT ![n] = View(e)]
  BY OneEntryWritten
<1>2. n \in DOMAIN list
  BY ValueFacts
<1>3. list' \in Seq(StoredEntry) /\ Len(list') = Len(list) /\ DOMAIN list' = DOMAIN list
  BY <1>2 DEF Lists
<1>4. \A i \in DOMAIN list : list'[i] = IF i = n THEN e ELSE list[i]
  BY <1>2
<1>5. \A i : Uncounted(i) => i = n
  BY DEF Uncounted
<1>6. \A i : Uncounted(i)' <=> handler'.pc = "size" /\ i = n
  BY DEF Uncounted
<1>7. ASSUME NEW i \in DOMAIN list'
      PROVE  /\ SoundEntry(list'[i])
             /\ Len(list'[i].cells) = IF Uncounted(i)' THEN list'[i].size + 1 ELSE list'[i].size
  BY <1>3, <1>4, <1>5, <1>6, <1>7 DEF Lists
<1>8. \A i \in DOMAIN list' : SoundEntry(list[i])' <=> SoundEntry(list'[i])
  BY DEF SoundEntry
<1> QED
  BY <1>1, <1>3, <1>7, <1>8 DEF Lists

LEMMA CallStep ==
  ASSUME ListInv, NEW uid \in Uid, NEW data \in Data, add_call(uid, data)
  PROVE  ListInv'
<1>1. Value \in Seq(Entry) /\ Len(Value) = index
  BY ValueFacts DEF ListInv
<1>2. handler' = [pc |-> "check", uid |-> uid, data |-> data, cur |-> 0, reg |-> 0,
                  before |-> Value, refused |-> {}]
      /\ handler.pc = "idle" /\ list' = list /\ index' = index
  BY DEF add_call, IdleHandler
<1>3. handler' \in HandlerRecord
  BY <1>1, <1>2 DEF HandlerRecord
<1>4. Lists' /\ Value' = Value
  BY <1>2, <1>3, NothingWritten DEF ListInv
<1>5. Work'
  BY <1>1, <1>2, <1>4 DEF Work, HandlerMatchesOperator
<1> QED
  BY <1>4, <1>5 DEF ListInv

LEMMA CheckStep ==
  ASSUME ListInv, add_check
  PROVE  ListInv'
<1>1. handler \in HandlerRecord /\ index \in Nat /\ MAX_SIZE_ARRAY \in Nat
      /\ handler.pc = "check" /\ list' = list /\ index' = index
      /\ handler' = [handler EXCEPT !.pc = IF index >= MAX_SIZE_ARRAY THEN "done" ELSE "scan"]
  BY UidTableAssumption DEF ListInv, Lists, add_check
<1>2. handler' \in HandlerRecord
  BY <1>1 DEF HandlerRecord
<1>3. /\ handler'.uid = handler.uid /\ handler'.data = handler.data
      /\ handler'.cur = handler.cur
      /\ handler'.before = handler.before /\ handler'.refused = handler.refused
      /\ handler'.pc = IF index >= MAX_SIZE_ARRAY THEN "done" ELSE "scan"
  BY <1>1 DEF HandlerRecord
<1>4. Lists' /\ Value' = Value
  BY <1>1, <1>2, <1>3, NothingWritten DEF ListInv
<1>5. /\ Value = handler.before /\ Len(handler.before) = index
      /\ handler.cur = 0 /\ handler.refused = {} /\ handler.data \in Data
  BY <1>1 DEF ListInv, Work
<1>6. CASE index >= MAX_SIZE_ARRAY
  <2>1. add_to_whitelist(handler.before, handler.data, handler.uid, {}) = handler.before
    BY <1>5, <1>6 DEF add_to_whitelist
  <2>2. ~add_to_whitelist_faults(handler.before, handler.uid, {})
    BY <1>1, <1>5, <1>6 DEF add_to_whitelist_faults
  <2>3. Work'
    BY <1>3, <1>4, <1>5, <1>6, <2>1, <2>2 DEF Work, HandlerMatchesOperator
  <2> QED
    BY <1>4, <2>3 DEF ListInv
<1>7. CASE ~(index >= MAX_SIZE_ARRAY)
  <2>1. Work'
    BY <1>1, <1>3, <1>4, <1>5, <1>7 DEF Work, HandlerMatchesOperator
  <2> QED
    BY <1>4, <2>1 DEF ListInv
<1> QED
  BY <1>6, <1>7

LEMMA ScanStep ==
  ASSUME ListInv, add_scan
  PROVE  ListInv'
<1> DEFINE w == handler.before
           n == handler.cur + 1
<1>1. handler \in HandlerRecord /\ index \in Nat
      /\ handler.pc = "scan" /\ list' = list /\ index' = index
  BY UidTableAssumption DEF ListInv, Lists, add_scan
<1>2. handler.cur \in Nat /\ w \in Seq(Entry)
  BY <1>1 DEF HandlerRecord
<1>3. /\ Value = w /\ Len(w) = index /\ index < MAX_SIZE_ARRAY
      /\ handler.refused = {} /\ handler.data \in Data
      /\ \A j \in 1 .. handler.cur : j \in DOMAIN w /\ w[j].uid # handler.uid
  BY <1>1 DEF ListInv, Work
<1>4. \A h : handler' = h /\ h \in HandlerRecord /\ h.pc \in {"push", "scan", "new"}
              => Lists' /\ Value' = Value
  BY <1>1, NothingWritten DEF ListInv
<1>5. CASE handler.cur < index
  <2>1. n \in 1 .. index
    BY <1>1, <1>2, <1>5
  <2>2. list[n].uid = w[n].uid
    <3>1. w[n] = View(list[n])
      BY <1>3, <2>1, ValueFacts DEF ListInv
    <3> QED
      BY <3>1 DEF View, Made
  <2>3. CASE list[n].uid = handler.uid
    <3>1. handler' = [handler EXCEPT !.pc = "push"]
      BY <1>1, <1>5, <2>3 DEF add_scan
    <3>2. /\ handler' \in HandlerRecord /\ handler'.pc = "push"
          /\ handler'.uid = handler.uid /\ handler'.data = handler.data
          /\ handler'.cur = handler.cur
          /\ handler'.before = w /\ handler'.refused = {}
      BY <1>1, <1>3, <3>1 DEF HandlerRecord
    <3>3. StopsAt(w, n, handler.uid)
      BY <1>2, <1>3, <2>1, <2>2, <2>3 DEF StopsAt
    <3>4. Work'
      BY <1>1, <1>3, <1>4, <3>2, <3>3 DEF Work, HandlerMatchesOperator
    <3> QED
      BY <1>4, <3>2, <3>4 DEF ListInv
  <2>4. CASE list[n].uid # handler.uid
    <3>1. handler' = [handler EXCEPT !.cur = @ + 1]
      BY <1>1, <1>5, <2>4 DEF add_scan
    <3>2. /\ handler' \in HandlerRecord /\ handler'.pc = "scan"
          /\ handler'.uid = handler.uid /\ handler'.data = handler.data
          /\ handler'.cur = n
          /\ handler'.before = w /\ handler'.refused = {}
      BY <1>1, <1>3, <3>1 DEF HandlerRecord
    <3>3. \A j \in 1 .. n : j \in DOMAIN w /\ w[j].uid # handler.uid
      BY <1>2, <1>3, <2>1, <2>2, <2>4
    <3>4. Work'
      BY <1>1, <1>3, <1>4, <3>2, <3>3 DEF Work, HandlerMatchesOperator
    <3> QED
      BY <1>4, <3>2, <3>4 DEF ListInv
  <2> QED
    BY <2>3, <2>4
<1>6. CASE ~(handler.cur < index)
  <2>1. handler' = [handler EXCEPT !.pc = "new"]
    BY <1>1, <1>6 DEF add_scan
  <2>2. /\ handler' \in HandlerRecord /\ handler'.pc = "new"
        /\ handler'.uid = handler.uid /\ handler'.data = handler.data
        /\ handler'.before = w /\ handler'.refused = {}
    BY <1>1, <1>3, <2>1 DEF HandlerRecord
  <2>3. ~HasEntry(w, handler.uid)
    BY <1>1, <1>2, <1>3, <1>6 DEF HasEntry
  <2>4. Work'
    BY <1>1, <1>3, <1>4, <2>2, <2>3 DEF Work, HandlerMatchesOperator
  <2> QED
    BY <1>4, <2>2, <2>4 DEF ListInv
<1> QED
  BY <1>5, <1>6

\* The entry a handler pushes on.
LEMMA MyEntry ==
  ASSUME ListInv, handler.pc \in {"push", "realloc", "storage", "cell", "size"}
  PROVE  LET w == handler.before
             n == handler.cur + 1
         IN  /\ handler \in HandlerRecord
             /\ n \in 1 .. index /\ n \in DOMAIN list /\ n \in DOMAIN w
             /\ Mine = list[n] /\ Mine \in StoredEntry /\ SoundEntry(Mine)
             /\ Len(Mine.cells) = IF handler.pc = "size" THEN Mine.size + 1 ELSE Mine.size
             /\ Value[n] = View(Mine) /\ Value \in Seq(Entry) /\ DOMAIN Value = 1 .. index
             /\ StopsAt(w, n, handler.uid) /\ w \in Seq(Entry) /\ w[n] \in Entry
             /\ w[n].uid = handler.uid
             /\ Len(w) = index /\ index < MAX_SIZE_ARRAY
             /\ handler.data \in Data
<1> DEFINE w == handler.before
           n == handler.cur + 1
<1>1. handler \in HandlerRecord /\ w \in Seq(Entry)
  BY DEF ListInv, Lists, HandlerRecord
<1>2. StopsAt(w, n, handler.uid) /\ Len(w) = index /\ index < MAX_SIZE_ARRAY
      /\ handler.data \in Data
  BY DEF ListInv, Work
<1>3. n \in DOMAIN w /\ n \in 1 .. index /\ w[n] \in Entry /\ w[n].uid = handler.uid
  BY <1>1, <1>2 DEF StopsAt
<1>4. n \in DOMAIN list /\ Value[n] = View(list[n]) /\ Value \in Seq(Entry)
      /\ DOMAIN Value = 1 .. index
  BY <1>3, ValueFacts DEF ListInv
<1>5. list[n] \in StoredEntry /\ SoundEntry(list[n])
      /\ Len(list[n].cells) = IF handler.pc = "size" THEN list[n].size + 1 ELSE list[n].size
  BY <1>4 DEF ListInv, Lists, Uncounted
<1> QED
  BY <1>1, <1>2, <1>3, <1>4, <1>5 DEF Mine

\* What View shows of an entry that is stored whole.
LEMMA ShownAs ==
  ASSUME NEW e \in StoredEntry, NEW v, v = View(e)
  PROVE  /\ v.uid = e.uid /\ v.capacity = e.capacity /\ (v.lost <=> e.base = 0)
         /\ v.array = SubSeq(e.cells, 1, e.size)
         /\ Len(e.cells) = e.size => Len(v.array) = e.size /\ v.array = e.cells
<1>1. /\ v.uid = e.uid /\ v.capacity = e.capacity /\ (v.lost <=> e.base = 0)
      /\ v.array = SubSeq(e.cells, 1, e.size)
  BY DEF View, Made
<1>2. e.cells \in Seq(Data) /\ e.size \in Nat
  BY DEF StoredEntry
<1>3. Len(e.cells) = e.size => SubSeq(e.cells, 1, e.size) = e.cells
  BY <1>2
<1> QED
  BY <1>1, <1>3

LEMMA StoredWith ==
  ASSUME NEW e \in StoredEntry, NEW number \in Nat, NEW f
  PROVE  /\ f = [e EXCEPT !.capacity = number] =>
              f = [uid |-> e.uid, cells |-> e.cells, size |-> e.size, capacity |-> number,
                   base |-> e.base, live |-> e.live, freed |-> e.freed]
         /\ f = [e EXCEPT !.size = number] =>
              f = [uid |-> e.uid, cells |-> e.cells, size |-> number, capacity |-> e.capacity,
                   base |-> e.base, live |-> e.live, freed |-> e.freed]
         /\ f = [e EXCEPT !.base = number] =>
              f = [uid |-> e.uid, cells |-> e.cells, size |-> e.size, capacity |-> e.capacity,
                   base |-> number, live |-> e.live, freed |-> e.freed]
         /\ f = [e EXCEPT !.live = number] =>
              f = [uid |-> e.uid, cells |-> e.cells, size |-> e.size, capacity |-> e.capacity,
                   base |-> e.base, live |-> number, freed |-> e.freed]
<1>1. ASSUME f = [e EXCEPT !.capacity = number]
      PROVE  f = [uid |-> e.uid, cells |-> e.cells, size |-> e.size, capacity |-> number,
                  base |-> e.base, live |-> e.live, freed |-> e.freed]
  BY <1>1 DEF StoredEntry
<1>2. ASSUME f = [e EXCEPT !.size = number]
      PROVE  f = [uid |-> e.uid, cells |-> e.cells, size |-> number, capacity |-> e.capacity,
                  base |-> e.base, live |-> e.live, freed |-> e.freed]
  BY <1>2 DEF StoredEntry
<1>3. ASSUME f = [e EXCEPT !.base = number]
      PROVE  f = [uid |-> e.uid, cells |-> e.cells, size |-> e.size, capacity |-> e.capacity,
                  base |-> number, live |-> e.live, freed |-> e.freed]
  BY <1>3 DEF StoredEntry
<1>4. ASSUME f = [e EXCEPT !.live = number]
      PROVE  f = [uid |-> e.uid, cells |-> e.cells, size |-> e.size, capacity |-> e.capacity,
                  base |-> e.base, live |-> number, freed |-> e.freed]
  BY <1>4 DEF StoredEntry
<1> QED
  BY <1>1, <1>2, <1>3, <1>4

LEMMA CellStored ==
  ASSUME NEW e \in StoredEntry, NEW cells \in Seq(Data), NEW f, f = [e EXCEPT !.cells = cells]
  PROVE  f = [uid |-> e.uid, cells |-> cells, size |-> e.size, capacity |-> e.capacity,
              base |-> e.base, live |-> e.live, freed |-> e.freed]
BY DEF StoredEntry

LEMMA PushCheckStep ==
  ASSUME ListInv, push_check
  PROVE  ListInv'
<1> DEFINE w == handler.before
           n == handler.cur + 1
<1>1. handler.pc = "push" /\ index' = index
  BY DEF push_check
<1>2. /\ handler \in HandlerRecord /\ n \in 1 .. index /\ n \in DOMAIN list /\ n \in DOMAIN w
      /\ Mine = list[n] /\ Mine \in StoredEntry /\ SoundEntry(Mine)
      /\ Len(Mine.cells) = Mine.size
      /\ Value[n] = View(Mine) /\ Value \in Seq(Entry) /\ DOMAIN Value = 1 .. index
      /\ StopsAt(w, n, handler.uid) /\ w \in Seq(Entry) /\ w[n] \in Entry
      /\ w[n].uid = handler.uid /\ Len(w) = index /\ index < MAX_SIZE_ARRAY
      /\ handler.data \in Data
  BY <1>1, MyEntry
<1>3. Value = w /\ handler.refused = {}
  BY <1>1 DEF ListInv, Work
<1>4. /\ w[n].capacity = Mine.capacity /\ (w[n].lost <=> Mine.base = 0)
      /\ w[n].array = SubSeq(Mine.cells, 1, Mine.size) /\ Len(w[n].array) = Mine.size
  BY <1>2, <1>3, ShownAs
<1>5. Mine.size \in Nat /\ Mine.capacity \in Nat /\ Mine.capacity # 0 /\ Mine.live # 0
      /\ Mine.size <= Mine.capacity /\ (Mine.base = 0 => Mine.size < Mine.capacity)
  BY <1>2 DEF StoredEntry, SoundEntry
<1>6. CASE Mine.size = Mine.capacity
  <2>1. list' = [list EXCEPT ![n].capacity = 2 * @] /\ handler' = [handler EXCEPT !.pc = "realloc"]
    BY <1>6 DEF push_check
  <2> DEFINE c == 2 * Mine.capacity
             e == [Mine EXCEPT !.capacity = c]
  <2>2. list' = [list EXCEPT ![n] = e] /\ c \in Nat /\ c # 0 /\ Mine.size < c
    BY <1>2, <1>5, <1>6, <2>1
  <2>3. e = [uid |-> Mine.uid, cells |-> Mine.cells, size |-> Mine.size, capacity |-> c,
             base |-> Mine.base, live |-> Mine.live, freed |-> Mine.freed]
    <3> HIDE DEF c
    <3> QED
      BY <1>2, <2>2, StoredWith
  <2> HIDE DEF c, e
  <2>4. e \in StoredEntry /\ SoundEntry(e) /\ Len(e.cells) = e.size
    BY <1>2, <1>5, <2>2, <2>3 DEF StoredEntry, SoundEntry
  <2>5. /\ handler' \in HandlerRecord /\ handler'.pc = "realloc"
        /\ handler'.uid = handler.uid /\ handler'.data = handler.data
        /\ handler'.cur = handler.cur /\ handler'.before = w /\ handler'.refused = {}
    BY <1>2, <1>3, <2>1 DEF HandlerRecord
  <2>6. Lists' /\ Value' = [Value EXCEPT ![n] = View(e)]
    <3>1. Lists /\ handler.pc # "raise" /\ handler'.pc # "raise"
          /\ Len(e.cells) = IF handler'.pc = "size" THEN e.size + 1 ELSE e.size
      BY <1>1, <2>4, <2>5 DEF ListInv
    <3>2. n \in 1 .. index /\ n = handler.cur + 1
      BY <1>2
    <3> HIDE DEF n
    <3> QED
      BY <1>1, <2>2, <2>4, <2>5, <3>1, <3>2, MineWritten
  <2>7. View(e) = Made(w[n].uid, w[n].array, 2 * w[n].capacity, w[n].lost)
    <3>1. w[n] = View(Mine)
      BY <1>2, <1>3
    <3>2. c = 2 * w[n].capacity
      BY <1>4 DEF c
    <3> QED
      BY <2>3, <3>1, <3>2 DEF View, Made
  <2>8. Value' = Doubled(w, n) /\ WasFull(w[n])
    <3>1. Value' = Doubled(w, n)
      BY <1>3, <2>6, <2>7 DEF Doubled
    <3>2. WasFull(w[n])
      BY <1>4, <1>5, <1>6 DEF WasFull
    <3> QED
      BY <3>1, <3>2
  <2>9. Work'
    BY <1>1, <1>2, <2>5, <2>8 DEF Work, HandlerMatchesOperator
  <2> QED
    BY <2>6, <2>9 DEF ListInv
<1>7. CASE Mine.size # Mine.capacity
  <2>1. list' = list /\ handler' = [handler EXCEPT !.pc = "cell"]
    BY <1>7 DEF push_check
  <2>2. /\ handler' \in HandlerRecord /\ handler'.pc = "cell"
        /\ handler'.uid = handler.uid /\ handler'.data = handler.data
        /\ handler'.cur = handler.cur /\ handler'.before = w /\ handler'.refused = {}
    BY <1>2, <1>3, <2>1 DEF HandlerRecord
  <2>3. Lists' /\ Value' = Value
    BY <1>1, <2>1, <2>2, NothingWritten DEF ListInv
  <2>4. list[n].size < list[n].capacity /\ Len(w[n].array) # w[n].capacity
    BY <1>2, <1>4, <1>5, <1>7
  <2>5. Work'
    BY <1>1, <1>2, <1>3, <2>1, <2>2, <2>3, <2>4 DEF Work, HandlerMatchesOperator
  <2> QED
    BY <2>3, <2>5 DEF ListInv
<1> QED
  BY <1>6, <1>7

LEMMA PushReallocStep ==
  ASSUME ListInv, push_realloc
  PROVE  ListInv'
<1> DEFINE w == handler.before
           n == handler.cur + 1
<1>1. handler.pc = "realloc" /\ index' = index
  BY DEF push_realloc
<1>2. /\ handler \in HandlerRecord /\ n \in 1 .. index /\ n \in DOMAIN list /\ n \in DOMAIN w
      /\ Mine = list[n] /\ Mine \in StoredEntry /\ SoundEntry(Mine)
      /\ Len(Mine.cells) = Mine.size
      /\ Value[n] = View(Mine) /\ Value \in Seq(Entry) /\ DOMAIN Value = 1 .. index
      /\ StopsAt(w, n, handler.uid) /\ w \in Seq(Entry) /\ w[n] \in Entry
      /\ w[n].uid = handler.uid /\ Len(w) = index /\ index < MAX_SIZE_ARRAY
      /\ handler.data \in Data
  BY <1>1, MyEntry
<1>3. Value = Doubled(w, n) /\ WasFull(w[n]) /\ handler.refused = {}
  BY <1>1 DEF ListInv, Work
<1>4. Mine.size \in Nat /\ Mine.capacity \in Nat /\ Mine.capacity # 0 /\ Mine.live # 0
      /\ Mine.live \in Nat
      /\ Mine.size <= Mine.capacity /\ (Mine.base = 0 => Mine.size < Mine.capacity)
  BY <1>2 DEF StoredEntry, SoundEntry
<1>6. ASSUME NEW reg \in Nat, Lists', Value' = Value,
             /\ handler' \in HandlerRecord /\ handler'.pc = "storage"
             /\ handler'.uid = handler.uid /\ handler'.data = handler.data
             /\ handler'.cur = handler.cur /\ handler'.before = w
             /\ handler'.reg = reg /\ handler'.refused = IF reg = 0 THEN {"array"} ELSE {}
      PROVE  ListInv'
  <2>1. Work'
    BY <1>1, <1>2, <1>3, <1>6 DEF Work, HandlerMatchesOperator
  <2> QED
    BY <1>6, <2>1 DEF ListInv
<1>7. CASE handler' = [handler EXCEPT !.pc = "storage", !.reg = Mine.live] /\ list' = list
  <2>1. /\ handler' \in HandlerRecord /\ handler'.pc = "storage"
        /\ handler'.uid = handler.uid /\ handler'.data = handler.data
        /\ handler'.cur = handler.cur /\ handler'.before = w
        /\ handler'.reg = Mine.live /\ handler'.refused = {}
    BY <1>2, <1>3, <1>4, <1>7 DEF HandlerRecord
  <2>2. Lists' /\ Value' = Value
    BY <1>1, <1>7, <2>1, NothingWritten DEF ListInv
  <2> QED
    BY <1>4, <1>6, <2>1, <2>2
<1>8. CASE /\ handler' = [handler EXCEPT !.pc = "storage", !.reg = 0, !.refused = {"array"}]
           /\ list' = list
  <2>1. /\ handler' \in HandlerRecord /\ handler'.pc = "storage"
        /\ handler'.uid = handler.uid /\ handler'.data = handler.data
        /\ handler'.cur = handler.cur /\ handler'.before = w
        /\ handler'.reg = 0 /\ handler'.refused = {"array"}
    BY <1>2, <1>3, <1>4, <1>8 DEF HandlerRecord, WhitelistAllocation
  <2>2. Lists' /\ Value' = Value
    BY <1>1, <1>8, <2>1, NothingWritten DEF ListInv
  <2> QED
    BY <1>6, <2>1, <2>2
<1>9. CASE /\ list' = [list EXCEPT ![n].live = @ + 1]
           /\ handler' = [handler EXCEPT !.pc = "storage", !.reg = Mine.live + 1]
  <2> DEFINE m == Mine.live + 1
             e == [Mine EXCEPT !.live = m]
  <2>1. list' = [list EXCEPT ![n] = e] /\ m \in Nat /\ m # 0
    BY <1>2, <1>4, <1>9
  <2>3. e = [uid |-> Mine.uid, cells |-> Mine.cells, size |-> Mine.size,
             capacity |-> Mine.capacity, base |-> Mine.base, live |-> m,
             freed |-> Mine.freed]
    <3> HIDE DEF m
    <3> QED
      BY <1>2, <2>1, StoredWith
  <2> HIDE DEF m, e
  <2>4. /\ e \in StoredEntry /\ SoundEntry(e) /\ Len(e.cells) = e.size
        /\ View(e) = View(Mine)
    BY <1>2, <1>4, <2>1, <2>3 DEF StoredEntry, SoundEntry, View
  <2>5. /\ handler' \in HandlerRecord /\ handler'.pc = "storage"
        /\ handler'.uid = handler.uid /\ handler'.data = handler.data
        /\ handler'.cur = handler.cur /\ handler'.before = w
        /\ handler'.reg = m /\ handler'.refused = {}
    <3>1. handler' = [handler EXCEPT !.pc = "storage", !.reg = m]
      BY <1>9 DEF m
    <3> QED
      BY <1>2, <1>3, <2>1, <3>1 DEF HandlerRecord
  <2>6. Lists' /\ Value' = Value
    <3>1. Lists /\ handler.pc # "raise" /\ handler'.pc # "raise"
          /\ Len(e.cells) = IF handler'.pc = "size" THEN e.size + 1 ELSE e.size
      BY <1>1, <2>4, <2>5 DEF ListInv
    <3>2. n \in 1 .. index /\ n = handler.cur + 1 /\ View(e) = View(list[n])
      BY <1>2, <2>4
    <3> HIDE DEF n
    <3>3. Lists'
      BY <1>1, <2>1, <2>4, <2>5, <3>1, <3>2, MineWritten
    <3>4. Value' = Value
      BY <1>1, <2>1, <3>1, <3>2, OneEntryWritten
    <3> QED
      BY <3>3, <3>4
  <2> QED
    BY <1>6, <2>1, <2>5, <2>6
<1> QED
  BY <1>7, <1>8, <1>9 DEF push_realloc

LEMMA PushStorageStep ==
  ASSUME ListInv, push_storage
  PROVE  ListInv'
<1> DEFINE w == handler.before
           n == handler.cur + 1
           m == handler.reg
           e == [Mine EXCEPT !.base = m]
<1>1. handler.pc = "storage" /\ index' = index
      /\ list' = [list EXCEPT ![handler.cur + 1].base = handler.reg]
      /\ handler' = [handler EXCEPT !.pc = IF handler.reg = 0 THEN "done" ELSE "cell"]
  BY DEF push_storage
<1>2. /\ handler \in HandlerRecord /\ n \in 1 .. index /\ n \in DOMAIN list /\ n \in DOMAIN w
      /\ Mine = list[n] /\ Mine \in StoredEntry /\ SoundEntry(Mine)
      /\ Len(Mine.cells) = Mine.size
      /\ Value[n] = View(Mine) /\ Value \in Seq(Entry) /\ DOMAIN Value = 1 .. index
      /\ StopsAt(w, n, handler.uid) /\ w \in Seq(Entry) /\ w[n] \in Entry
      /\ w[n].uid = handler.uid /\ Len(w) = index /\ index < MAX_SIZE_ARRAY
      /\ handler.data \in Data
  BY <1>1, MyEntry
<1>3. /\ Value = Doubled(w, n) /\ WasFull(w[n])
      /\ handler.refused = IF handler.reg = 0 THEN {"array"} ELSE {}
  BY <1>1 DEF ListInv, Work
<1>4. Value[n] = Made(w[n].uid, w[n].array, 2 * w[n].capacity, w[n].lost)
  BY <1>2, <1>3 DEF Doubled
<1>5. /\ Mine.uid = w[n].uid /\ Mine.capacity = 2 * w[n].capacity
      /\ w[n].array = SubSeq(Mine.cells, 1, Mine.size) /\ Len(w[n].array) = Mine.size
      /\ Mine.size = w[n].capacity /\ w[n].lost = FALSE
  <2>1. /\ View(Mine).uid = Mine.uid /\ View(Mine).capacity = Mine.capacity
        /\ View(Mine).array = SubSeq(Mine.cells, 1, Mine.size)
        /\ Len(View(Mine).array) = Mine.size
    BY <1>2, ShownAs
  <2>2. View(Mine) = Made(w[n].uid, w[n].array, 2 * w[n].capacity, w[n].lost)
    BY <1>2, <1>4
  <2>3. w[n].lost = FALSE /\ Len(w[n].array) = w[n].capacity
    BY <1>2, <1>3 DEF Entry, WasFull
  <2>4. /\ View(Mine).uid = w[n].uid /\ View(Mine).array = w[n].array
        /\ View(Mine).capacity = 2 * w[n].capacity
    BY <2>2 DEF Made
  <2> HIDE DEF w, n
  <2> QED
    BY <2>1, <2>3, <2>4
<1>6. Mine.size \in Nat /\ Mine.capacity \in Nat /\ Mine.live # 0 /\ Mine.capacity # 0
      /\ w[n].capacity \in Nat /\ m \in Nat /\ Mine.size < Mine.capacity
  <2>1. Mine.size \in Nat /\ Mine.capacity \in Nat /\ Mine.live # 0 /\ Mine.capacity # 0
    BY <1>2 DEF StoredEntry, SoundEntry
  <2>2. w[n].capacity \in Nat /\ m \in Nat
    BY <1>2 DEF Entry, HandlerRecord
  <2> QED
    BY <1>5, <2>1, <2>2
<1>7. list' = [list EXCEPT ![n] = e]
  BY <1>1, <1>2
<1>8. e = [uid |-> Mine.uid, cells |-> Mine.cells, size |-> Mine.size,
           capacity |-> Mine.capacity, base |-> m, live |-> Mine.live,
           freed |-> Mine.freed]
  <2> HIDE DEF m
  <2> QED
    BY <1>2, <1>6, StoredWith
<1>9. /\ handler' \in HandlerRecord
      /\ handler'.uid = handler.uid /\ handler'.data = handler.data
      /\ handler'.cur = handler.cur /\ handler'.before = w
      /\ handler'.refused = handler.refused
      /\ handler'.pc = IF m = 0 THEN "done" ELSE "cell"
  BY <1>1, <1>2 DEF HandlerRecord
<1> HIDE DEF m, e
<1>10. /\ e \in StoredEntry /\ SoundEntry(e) /\ Len(e.cells) = e.size
       /\ View(e) = Made(w[n].uid, w[n].array, 2 * w[n].capacity, m = 0)
  BY <1>2, <1>5, <1>6, <1>8 DEF StoredEntry, SoundEntry, View
<1>11. Lists' /\ Value' = [Value EXCEPT ![n] = View(e)]
  <2>1. Lists /\ handler.pc # "raise" /\ handler'.pc # "raise"
        /\ Len(e.cells) = IF handler'.pc = "size" THEN e.size + 1 ELSE e.size
    BY <1>1, <1>9, <1>10 DEF ListInv
  <2>2. n \in 1 .. index /\ n = handler.cur + 1
    BY <1>2
  <2> HIDE DEF n
  <2> QED
    BY <1>1, <1>7, <1>9, <1>10, <2>1, <2>2, MineWritten
<1>12. Value' = [w EXCEPT ![n] = Made(w[n].uid, w[n].array, 2 * w[n].capacity, m = 0)]
  BY <1>2, <1>3, <1>10, <1>11 DEF Doubled
<1>13. CASE m = 0
  <2>1. handler.refused = {"array"}
    BY <1>3, <1>13 DEF m
  <2>2. Len(w[n].array) = w[n].capacity
    BY <1>5
  <2>3. /\ ~add_to_whitelist_faults(w, handler.uid, handler.refused)
        /\ add_to_whitelist(w, handler.data, handler.uid, handler.refused)
             = With(w, n, array_push(w[n], handler.data, handler.refused))
    <3>1. /\ w \in Seq(Entry) /\ StopsAt(w, n, handler.uid) /\ ~w[n].lost
          /\ Len(w) < MAX_SIZE_ARRAY
      BY <1>2, <1>5
    <3> HIDE DEF w, n
    <3> QED
      BY <3>1, AddAtEntry
  <2>6. array_push(w[n], handler.data, handler.refused)
          = Made(w[n].uid, w[n].array, 2 * w[n].capacity, TRUE)
    <3>1. w[n] \in Entry /\ ~w[n].lost /\ handler.data \in Data /\ "array" \in handler.refused
      BY <1>2, <1>5, <2>1
    <3> HIDE DEF w, n
    <3> QED
      BY <2>2, <3>1, PushOutcome
  <2>4. Value' = add_to_whitelist(w, handler.data, handler.uid, handler.refused)
    BY <1>12, <1>13, <2>3, <2>6 DEF With
  <2>5. Work'
    BY <1>9, <1>13, <2>3, <2>4 DEF Work, HandlerMatchesOperator
  <2> QED
    BY <1>11, <2>5 DEF ListInv
<1>14. CASE m # 0
  <2>1. Value' = Doubled(w, n)
    BY <1>5, <1>12, <1>14 DEF Doubled
  <2>2. handler'.pc = "cell" /\ handler'.refused = {}
    BY <1>3, <1>9, <1>14 DEF m
  <2>3. list'[n] = e /\ e.size < e.capacity
    BY <1>2, <1>6, <1>7, <1>8
  <2>4. Work'
    BY <1>1, <1>2, <1>3, <1>9, <2>1, <2>2, <2>3 DEF Work, HandlerMatchesOperator
  <2> QED
    BY <1>11, <2>4 DEF ListInv
<1> QED
  BY <1>13, <1>14

\* What is known of the entry when its next cell is written and counted.
LEMMA RoomLeft ==
  ASSUME ListInv, handler.pc \in {"cell", "size"}
  PROVE  LET w == handler.before
             n == handler.cur + 1
         IN  /\ Mine.size \in Nat /\ Mine.capacity \in Nat /\ Mine.size < Mine.capacity
             /\ Mine.uid = handler.uid /\ handler.refused = {}
             /\ Mine.capacity # 0 /\ Mine.live # 0
             /\ w[n].array = SubSeq(Mine.cells, 1, Mine.size)
             /\ w[n].lost \in BOOLEAN /\ (w[n].lost <=> Mine.base = 0)
             /\ \/ /\ Value = w /\ Len(w[n].array) # w[n].capacity
                   /\ Mine.capacity = w[n].capacity
                \/ /\ Value = Doubled(w, n) /\ Len(w[n].array) = w[n].capacity
                   /\ Mine.capacity = 2 * w[n].capacity /\ ~w[n].lost
<1> DEFINE w == handler.before
           n == handler.cur + 1
<1>1. /\ n \in DOMAIN w /\ Mine = list[n] /\ Mine \in StoredEntry /\ SoundEntry(Mine)
      /\ Value[n] = View(Mine) /\ w \in Seq(Entry) /\ w[n] \in Entry
      /\ w[n].uid = handler.uid
  BY MyEntry
<1>2. /\ list[n].size < list[n].capacity /\ handler.refused = {}
      /\ \/ Value = w /\ Len(w[n].array) # w[n].capacity
         \/ Value = Doubled(w, n) /\ WasFull(w[n])
  BY DEF ListInv, Work
<1>3. /\ View(Mine).uid = Mine.uid /\ View(Mine).capacity = Mine.capacity
      /\ (View(Mine).lost <=> Mine.base = 0)
      /\ View(Mine).array = SubSeq(Mine.cells, 1, Mine.size)
  BY <1>1, ShownAs
<1>4. Mine.size \in Nat /\ Mine.capacity \in Nat /\ Mine.live # 0 /\ Mine.capacity # 0
  BY <1>1 DEF StoredEntry, SoundEntry
<1>5. w[n].lost \in BOOLEAN
  BY <1>1 DEF Entry
<1>6. ASSUME Value = w /\ Len(w[n].array) # w[n].capacity
      PROVE  /\ Mine.uid = w[n].uid /\ Mine.capacity = w[n].capacity
             /\ (w[n].lost <=> Mine.base = 0)
             /\ w[n].array = SubSeq(Mine.cells, 1, Mine.size)
  <2>1. View(Mine) = w[n]
    BY <1>1, <1>6
  <2> HIDE DEF w, n
  <2> QED
    BY <1>3, <2>1
<1>7. ASSUME Value = Doubled(w, n) /\ WasFull(w[n])
      PROVE  /\ Mine.uid = w[n].uid /\ Mine.capacity = 2 * w[n].capacity
             /\ (w[n].lost <=> Mine.base = 0)
             /\ w[n].array = SubSeq(Mine.cells, 1, Mine.size)
             /\ Len(w[n].array) = w[n].capacity /\ ~w[n].lost
  <2>1. View(Mine) = Made(w[n].uid, w[n].array, 2 * w[n].capacity, w[n].lost)
    BY <1>1, <1>7 DEF Doubled
  <2>2. /\ View(Mine).uid = w[n].uid /\ View(Mine).array = w[n].array
        /\ View(Mine).capacity = 2 * w[n].capacity /\ View(Mine).lost = w[n].lost
    BY <2>1 DEF Made
  <2>3. Len(w[n].array) = w[n].capacity /\ ~w[n].lost
    BY <1>7 DEF WasFull
  <2> HIDE DEF w, n
  <2> QED
    BY <1>3, <2>2, <2>3
<1>8. Mine.size < Mine.capacity
  BY <1>1, <1>2
<1> QED
  BY <1>1, <1>2, <1>4, <1>5, <1>6, <1>7, <1>8

LEMMA PushCellStep ==
  ASSUME ListInv, push_cell
  PROVE  ListInv'
<1> DEFINE w == handler.before
           n == handler.cur + 1
<1>1. handler.pc = "cell" /\ index' = index
  BY DEF push_cell
<1>2. /\ handler \in HandlerRecord /\ n \in 1 .. index /\ n \in DOMAIN list /\ n \in DOMAIN w
      /\ Mine = list[n] /\ Mine \in StoredEntry /\ SoundEntry(Mine)
      /\ Len(Mine.cells) = Mine.size
      /\ StopsAt(w, n, handler.uid) /\ w \in Seq(Entry) /\ w[n] \in Entry
      /\ Len(w) = index /\ index < MAX_SIZE_ARRAY
      /\ handler.data \in Data
  BY <1>1, MyEntry
<1>3. /\ Mine.size \in Nat /\ Mine.capacity \in Nat /\ Mine.size < Mine.capacity
      /\ Mine.uid = handler.uid /\ handler.refused = {}
      /\ Mine.capacity # 0 /\ Mine.live # 0
      /\ w[n].array = SubSeq(Mine.cells, 1, Mine.size)
      /\ w[n].lost \in BOOLEAN /\ (w[n].lost <=> Mine.base = 0)
  BY <1>1, RoomLeft
<1>4. \/ Value = w /\ Len(w[n].array) # w[n].capacity
      \/ Value = Doubled(w, n) /\ WasFull(w[n])
  BY <1>1 DEF ListInv, Work
<1>5. CASE Mine.base = 0
  <2>1. list' = list /\ handler' = [handler EXCEPT !.pc = "oops"]
    BY <1>5 DEF push_cell
  <2>2. /\ handler' \in HandlerRecord /\ handler'.pc = "oops"
        /\ handler'.uid = handler.uid /\ handler'.before = w /\ handler'.refused = {}
    BY <1>2, <1>3, <2>1 DEF HandlerRecord
  <2>3. Lists' /\ Value' = Value
    BY <1>1, <2>1, <2>2, NothingWritten DEF ListInv
  <2>4. HasEntry(w, handler.uid) /\ EntryOf(w, handler.uid) = w[n]
    <3> HIDE DEF w, n
    <3> QED
      BY <1>2, StopsFirst
  <2>5. add_to_whitelist_faults(w, handler.uid, {})
    BY <1>2, <1>3, <1>5, <2>4 DEF add_to_whitelist_faults
  <2>6. Work'
    BY <2>2, <2>5 DEF Work, HandlerMatchesOperator
  <2> QED
    BY <2>3, <2>6 DEF ListInv
<1>6. CASE Mine.base # 0
  <2> DEFINE c == Append(Mine.cells, handler.data)
             e == [Mine EXCEPT !.cells = c]
  <2>1. /\ list' = [list EXCEPT ![n] = e]
        /\ handler' = [handler EXCEPT !.pc = "size"]
    BY <1>2, <1>6 DEF push_cell
  <2>2. Mine.cells \in Seq(Data) /\ c \in Seq(Data) /\ Len(c) = Mine.size + 1
    BY <1>2, <1>3 DEF StoredEntry
  <2>3. SubSeq(c, 1, Mine.size) = SubSeq(Mine.cells, 1, Mine.size) /\ w[n].array = Mine.cells
    BY <1>2, <1>3, <2>2, Unseen
  <2>4. e = [uid |-> Mine.uid, cells |-> c, size |-> Mine.size,
             capacity |-> Mine.capacity, base |-> Mine.base, live |-> Mine.live,
             freed |-> Mine.freed]
    <3> HIDE DEF c
    <3> QED
      BY <1>2, <2>2, CellStored
  <2>5. /\ handler' \in HandlerRecord /\ handler'.pc = "size"
        /\ handler'.uid = handler.uid /\ handler'.data = handler.data
        /\ handler'.cur = handler.cur /\ handler'.before = w /\ handler'.refused = {}
    BY <1>2, <1>3, <2>1 DEF HandlerRecord
  <2> HIDE DEF c, e
  <2>6. /\ e \in StoredEntry /\ SoundEntry(e) /\ Len(e.cells) = e.size + 1
        /\ View(e) = View(Mine)
    BY <1>2, <1>3, <2>2, <2>3, <2>4 DEF StoredEntry, SoundEntry, View
  <2>7. Lists' /\ Value' = Value
    <3>1. Lists /\ handler.pc # "raise" /\ handler'.pc # "raise"
          /\ Len(e.cells) = IF handler'.pc = "size" THEN e.size + 1 ELSE e.size
      BY <1>1, <2>5, <2>6 DEF ListInv
    <3>2. n \in 1 .. index /\ n = handler.cur + 1 /\ View(e) = View(list[n])
      BY <1>2, <2>6
    <3> HIDE DEF n
    <3>3. Lists'
      BY <1>1, <2>1, <2>5, <2>6, <3>1, <3>2, MineWritten
    <3>4. Value' = Value
      BY <1>1, <2>1, <3>1, <3>2, OneEntryWritten
    <3> QED
      BY <3>3, <3>4
  <2>8. /\ list'[n].size < list'[n].capacity
        /\ ~w[n].lost /\ list'[n].cells = Append(w[n].array, handler.data)
    BY <1>2, <1>3, <1>6, <2>1, <2>3, <2>4 DEF c
  <2>9. Work'
    BY <1>1, <1>2, <1>4, <2>5, <2>7, <2>8 DEF Work, HandlerMatchesOperator
  <2> QED
    BY <2>7, <2>9 DEF ListInv
<1> QED
  BY <1>5, <1>6

LEMMA PushSizeStep ==
  ASSUME ListInv, push_size
  PROVE  ListInv'
<1> DEFINE w == handler.before
           n == handler.cur + 1
           m == Mine.size + 1
           e == [Mine EXCEPT !.size = m]
<1>1. handler.pc = "size" /\ index' = index
      /\ list' = [list EXCEPT ![handler.cur + 1].size = @ + 1]
      /\ handler' = [handler EXCEPT !.pc = "done"]
  BY DEF push_size
<1>2. /\ handler \in HandlerRecord /\ n \in 1 .. index /\ n \in DOMAIN list /\ n \in DOMAIN w
      /\ Mine = list[n] /\ Mine \in StoredEntry /\ SoundEntry(Mine)
      /\ Len(Mine.cells) = Mine.size + 1
      /\ StopsAt(w, n, handler.uid) /\ w \in Seq(Entry) /\ w[n] \in Entry
      /\ w[n].uid = handler.uid /\ Len(w) = index /\ index < MAX_SIZE_ARRAY
      /\ handler.data \in Data
  BY <1>1, MyEntry
<1>3. /\ Mine.size \in Nat /\ Mine.capacity \in Nat /\ Mine.size < Mine.capacity
      /\ Mine.uid = handler.uid /\ handler.refused = {}
      /\ Mine.capacity # 0 /\ Mine.live # 0
      /\ w[n].lost \in BOOLEAN /\ (w[n].lost <=> Mine.base = 0)
      /\ \/ /\ Value = w /\ Len(w[n].array) # w[n].capacity
            /\ Mine.capacity = w[n].capacity
         \/ /\ Value = Doubled(w, n) /\ Len(w[n].array) = w[n].capacity
            /\ Mine.capacity = 2 * w[n].capacity
  BY <1>1, RoomLeft
<1>4. Mine.base # 0 /\ Mine.cells = Append(w[n].array, handler.data) /\ ~w[n].lost
  BY <1>1, <1>2, <1>3 DEF ListInv, Work
<1>5. list' = [list EXCEPT ![n] = e] /\ m \in Nat /\ m <= Mine.capacity
  BY <1>1, <1>2, <1>3
<1>6. e = [uid |-> Mine.uid, cells |-> Mine.cells, size |-> m,
           capacity |-> Mine.capacity, base |-> Mine.base, live |-> Mine.live,
           freed |-> Mine.freed]
  <2> HIDE DEF m
  <2> QED
    BY <1>2, <1>5, StoredWith
<1>7. /\ handler' \in HandlerRecord /\ handler'.pc = "done"
      /\ handler'.uid = handler.uid /\ handler'.data = handler.data
      /\ handler'.cur = handler.cur /\ handler'.before = w
      /\ handler'.refused = handler.refused
  BY <1>1, <1>2, <1>3 DEF HandlerRecord
<1>8. Len(Mine.cells) = m
  BY <1>2
<1> HIDE DEF m, e
<1>9. /\ e \in StoredEntry /\ SoundEntry(e) /\ Len(e.cells) = e.size
  BY <1>2, <1>3, <1>4, <1>5, <1>6, <1>8 DEF StoredEntry, SoundEntry
<1>10. View(e) = Pushed(w[n], handler.data, Mine.capacity)
  <2>1. View(e).array = Mine.cells /\ View(e).uid = Mine.uid
        /\ View(e).capacity = Mine.capacity /\ ~View(e).lost
    BY <1>4, <1>6, <1>9, ShownAs
  <2>2. View(e) = Made(Mine.uid, Mine.cells, Mine.capacity, FALSE)
    BY <1>4, <1>6, <2>1 DEF View, Made
  <2> QED
    BY <1>2, <1>3, <1>4, <2>2 DEF Pushed
<1>11. Lists' /\ Value' = [Value EXCEPT ![n] = View(e)]
  <2>1. Lists /\ handler.pc # "raise" /\ handler'.pc # "raise"
        /\ Len(e.cells) = IF handler'.pc = "size" THEN e.size + 1 ELSE e.size
    BY <1>1, <1>7, <1>9 DEF ListInv
  <2>2. n \in 1 .. index /\ n = handler.cur + 1
    BY <1>2
  <2> HIDE DEF n
  <2> QED
    BY <1>1, <1>5, <1>7, <1>9, <2>1, <2>2, MineWritten
<1>12. Value' = With(w, n, View(e))
  BY <1>2, <1>3, <1>11 DEF Doubled, With
<1>13. /\ Value' = add_to_whitelist(w, handler.data, handler.uid, handler.refused)
       /\ ~add_to_whitelist_faults(w, handler.uid, handler.refused)
  <2>3. /\ w \in Seq(Entry) /\ StopsAt(w, n, handler.uid) /\ ~w[n].lost
        /\ Len(w) < MAX_SIZE_ARRAY /\ handler.data \in Data /\ "array" \notin handler.refused
    BY <1>2, <1>3, <1>4
  <2>4. w[n] \in Entry
    BY <1>2
  <2> HIDE DEF w, n
  <2>5. /\ ~add_to_whitelist_faults(w, handler.uid, handler.refused)
        /\ add_to_whitelist(w, handler.data, handler.uid, handler.refused)
             = With(w, n, array_push(w[n], handler.data, handler.refused))
    BY <2>3, AddAtEntry
  <2>6. array_push(w[n], handler.data, handler.refused) = View(e)
    BY <1>3, <1>10, <2>3, <2>4, PushOutcome
  <2> QED
    BY <1>12, <2>5, <2>6
<1>14. Work'
  BY <1>7, <1>13 DEF Work, HandlerMatchesOperator
<1> QED
  BY <1>11, <1>14 DEF ListInv

LEMMA NewStep ==
  ASSUME ListInv, add_new
  PROVE  ListInv'
<1> DEFINE w == handler.before
<1>1. /\ handler.pc = "new" /\ list' = list /\ index' = index
      /\ handler' \in {[handler EXCEPT !.pc = "publish"],
                       [handler EXCEPT !.pc = "done", !.refused = {"entry"}],
                       [handler EXCEPT !.pc = "oops", !.refused = {"array"}]}
  BY DEF add_new
<1>2. /\ handler \in HandlerRecord
      /\ Value = w /\ Len(w) = index /\ index < MAX_SIZE_ARRAY
      /\ handler.refused = {} /\ handler.data \in Data /\ ~HasEntry(w, handler.uid)
  BY <1>1 DEF ListInv, Lists, Work
<1>3. /\ handler' \in HandlerRecord
      /\ handler'.uid = handler.uid /\ handler'.data = handler.data /\ handler'.before = w
      /\ \/ handler'.pc = "publish" /\ handler'.refused = {}
         \/ handler'.pc = "done" /\ handler'.refused = {"entry"}
         \/ handler'.pc = "oops" /\ handler'.refused = {"array"}
  BY <1>1, <1>2 DEF HandlerRecord, WhitelistAllocation
<1>4. Lists' /\ Value' = Value
  BY <1>1, <1>3, NothingWritten DEF ListInv
<1>5. CASE handler'.pc = "publish" /\ handler'.refused = {}
  <2>1. Work'
    BY <1>1, <1>2, <1>3, <1>4, <1>5 DEF Work, HandlerMatchesOperator
  <2> QED
    BY <1>4, <2>1 DEF ListInv
<1>6. CASE handler'.pc = "done" /\ handler'.refused = {"entry"}
  <2>1. /\ ~add_to_whitelist_faults(w, handler.uid, {"entry"})
        /\ add_to_whitelist(w, handler.data, handler.uid, {"entry"}) = w
    BY <1>2 DEF add_to_whitelist, add_to_whitelist_faults
  <2>2. Work'
    BY <1>2, <1>3, <1>4, <1>6, <2>1 DEF Work, HandlerMatchesOperator
  <2> QED
    BY <1>4, <2>2 DEF ListInv
<1>7. CASE handler'.pc = "oops" /\ handler'.refused = {"array"}
  <2>1. add_to_whitelist_faults(w, handler.uid, {"array"})
    BY <1>2 DEF add_to_whitelist_faults
  <2>2. Work'
    BY <1>2, <1>3, <1>4, <1>7, <2>1 DEF Work, HandlerMatchesOperator
  <2> QED
    BY <1>4, <2>2 DEF ListInv
<1> QED
  BY <1>3, <1>5, <1>6, <1>7

LEMMA PublishStep ==
  ASSUME ListInv, add_publish
  PROVE  ListInv'
<1> DEFINE w == handler.before
           e == [uid |-> handler.uid, cells |-> <<handler.data>>, size |-> 1,
                 capacity |-> ARRAY_DEFAULT_CAPACITY, base |-> 1, live |-> 1,
                 freed |-> FALSE]
<1>1. /\ handler.pc = "publish" /\ index' = index
      /\ list' = Append(SubSeq(list, 1, index), e)
      /\ handler' = [handler EXCEPT !.pc = "raise"]
  BY DEF add_publish
<1>2. /\ handler \in HandlerRecord /\ list \in Seq(StoredEntry) /\ Len(list) = index
      /\ index \in Nat /\ index \in 0 .. MAX_SIZE_ARRAY
      /\ Value = w /\ Len(w) = index /\ index < MAX_SIZE_ARRAY
      /\ handler.refused = {} /\ handler.data \in Data /\ ~HasEntry(w, handler.uid)
  BY <1>1, UidTableAssumption DEF ListInv, Lists, Work
<1>3. /\ handler' \in HandlerRecord /\ handler'.pc = "raise"
      /\ handler'.uid = handler.uid /\ handler'.data = handler.data /\ handler'.before = w
      /\ handler'.refused = {}
  BY <1>1, <1>2 DEF HandlerRecord
<1>4. /\ e \in StoredEntry /\ SoundEntry(e) /\ Len(e.cells) = e.size
  <2>1. handler.uid \in Uid /\ <<handler.data>> \in Seq(Data) /\ Len(<<handler.data>>) = 1
    BY <1>2 DEF HandlerRecord
  <2> QED
    BY <2>1, WhitelistAssumption DEF StoredEntry, SoundEntry
<1>5. View(e) = Made(handler.uid, <<handler.data>>, ARRAY_DEFAULT_CAPACITY, FALSE)
  <2>1. /\ e.uid = handler.uid /\ e.cells = <<handler.data>>
        /\ e.capacity = ARRAY_DEFAULT_CAPACITY /\ (e.base = 0) = FALSE
    OBVIOUS
  <2> HIDE DEF e
  <2>2. View(e).array = e.cells
    BY <1>4, ShownAs
  <2>3. View(e) = Made(e.uid, View(e).array, e.capacity, e.base = 0)
    BY DEF View, Made
  <2> QED
    BY <2>1, <2>2, <2>3
<1> HIDE DEF e
<1>6. /\ list' = Append(list, e) /\ list' \in Seq(StoredEntry) /\ Len(list') = index + 1
      /\ list'[index + 1] = e
      /\ \A i \in DOMAIN list : list'[i] = list[i]
      /\ DOMAIN list' = 1 .. index + 1
  <2>1. SubSeq(list, 1, index) = list
    BY <1>2
  <2> QED
    BY <1>1, <1>2, <1>4, <2>1
<1>7. Value' = Value
  <2>1. \A i \in 1 .. index : list'[i] = list[i]
    BY <1>2, <1>6
  <2> QED
    BY <1>1, <2>1 DEF Value
<1>8. Lists'
  <2>1. \A i : ~Uncounted(i) /\ ~Uncounted(i)'
    BY <1>1, <1>3 DEF Uncounted
  <2>2. ASSUME NEW i \in DOMAIN list'
        PROVE  SoundEntry(list'[i]) /\ Len(list'[i].cells) = list'[i].size
    <3>1. CASE i = index + 1
      BY <1>4, <1>6, <3>1
    <3>2. CASE i # index + 1
      <4>1. i \in DOMAIN list
        BY <1>2, <1>6, <3>2
      <4> QED
        BY <1>6, <2>1, <4>1 DEF ListInv, Lists
    <3> QED
      BY <3>1, <3>2
  <2>3. \A i \in DOMAIN list' : SoundEntry(list[i])' <=> SoundEntry(list'[i])
    BY DEF SoundEntry
  <2> QED
    BY <1>1, <1>2, <1>3, <1>6, <2>1, <2>2, <2>3 DEF Lists
<1>9. View(list[index + 1])' = View(e)
  BY <1>1, <1>6 DEF View
<1>10. Work'
  BY <1>1, <1>2, <1>3, <1>5, <1>7, <1>9 DEF Work, HandlerMatchesOperator
<1> QED
  BY <1>8, <1>10 DEF ListInv

LEMMA RaiseStep ==
  ASSUME ListInv, add_raise
  PROVE  ListInv'
<1> DEFINE w == handler.before
           e == Made(handler.uid, <<handler.data>>, ARRAY_DEFAULT_CAPACITY, FALSE)
<1>1. /\ handler.pc = "raise" /\ list' = list /\ index' = index + 1
      /\ handler' = [handler EXCEPT !.pc = "done"]
  BY DEF add_raise
<1>2. /\ handler \in HandlerRecord /\ list \in Seq(StoredEntry) /\ Len(list) = index + 1
      /\ index \in Nat /\ MAX_SIZE_ARRAY \in Nat
      /\ Value = w /\ Len(w) = index /\ index < MAX_SIZE_ARRAY
      /\ handler.refused = {} /\ handler.data \in Data /\ ~HasEntry(w, handler.uid)
      /\ View(list[index + 1]) = e
  <2>1. /\ handler \in HandlerRecord /\ list \in Seq(StoredEntry) /\ Len(list) = index + 1
        /\ index \in Nat /\ MAX_SIZE_ARRAY \in Nat
    BY <1>1, UidTableAssumption DEF ListInv, Lists
  <2>2. /\ Value = w /\ Len(w) = index /\ index < MAX_SIZE_ARRAY
        /\ handler.refused = {} /\ handler.data \in Data /\ ~HasEntry(w, handler.uid)
    BY <1>1 DEF ListInv, Work
  <2>3. View(list[index + 1]) = e
    BY <1>1 DEF ListInv, Work
  <2> QED
    BY <2>1, <2>2, <2>3
<1>3. /\ handler' \in HandlerRecord /\ handler'.pc = "done"
      /\ handler'.uid = handler.uid /\ handler'.data = handler.data /\ handler'.before = w
      /\ handler'.refused = {}
  BY <1>1, <1>2 DEF HandlerRecord
<1>4. Value' = Append(w, e)
  <2>1. Value' = [i \in 1 .. index + 1 |-> View(list[i])]
    BY <1>1 DEF Value, View, Made
  <2>2. w = [i \in 1 .. index |-> View(list[i])]
    BY <1>2, ValueIs
  <2>3. w \in Seq(Entry) /\ e \in Entry
    <3>1. <<handler.data>> \in Seq(Data) /\ handler.uid \in Uid
          /\ ARRAY_DEFAULT_CAPACITY \in Nat
      BY <1>2, WhitelistAssumption DEF HandlerRecord
    <3> QED
      BY <1>2, <3>1 DEF HandlerRecord, Made, Entry
  <2> HIDE DEF w, e
  <2>4. /\ Append(w, e) \in Seq(Entry) /\ DOMAIN Append(w, e) = 1 .. index + 1
        /\ \A i \in 1 .. index : Append(w, e)[i] = w[i]
        /\ Append(w, e)[index + 1] = e
    BY <1>2, <2>3
  <2>5. Append(w, e) = [i \in 1 .. index + 1 |-> Append(w, e)[i]]
    <3> DEFINE a == Append(w, e)
    <3>1. a \in Seq(Entry) /\ DOMAIN a = 1 .. index + 1
      BY <2>4
    <3> HIDE DEF a
    <3>2. a = [i \in 1 .. index + 1 |-> a[i]]
      BY <3>1
    <3> QED
      BY <3>2 DEF a
  <2>6. \A i \in 1 .. index + 1 : View(list[i]) = Append(w, e)[i]
    <3>1. \A i \in 1 .. index : View(list[i]) = w[i]
      BY <2>2
    <3>2. \A i \in 1 .. index + 1 : i \in 1 .. index \/ i = index + 1
      BY <1>2
    <3> QED
      BY <1>2, <2>4, <3>1, <3>2
  <2> QED
    BY <2>1, <2>5, <2>6
<1>5. /\ add_to_whitelist(w, handler.data, handler.uid, {}) = Append(w, e)
      /\ ~add_to_whitelist_faults(w, handler.uid, {})
  <2>1. ~add_to_whitelist_faults(w, handler.uid, {})
    BY <1>2 DEF add_to_whitelist_faults
  <2>2. ~(Len(w) >= MAX_SIZE_ARRAY)
    BY <1>2
  <2> DEFINE fresh == array_with_capacity(ARRAY_DEFAULT_CAPACITY, handler.uid)
             f == array_push(fresh, handler.data, {})
  <2>3. add_to_whitelist(w, handler.data, handler.uid, {}) = Append(w, f)
    BY <1>2, <2>1, <2>2 DEF add_to_whitelist
  <2>4. fresh = [uid |-> handler.uid, array |-> << >>, capacity |-> ARRAY_DEFAULT_CAPACITY,
                 lost |-> FALSE]
    BY DEF array_with_capacity
  <2>5. Len(<< >>) # ARRAY_DEFAULT_CAPACITY /\ Append(<< >>, handler.data) = <<handler.data>>
    BY WhitelistAssumption
  <2>6. f = e
    <3>1. f = [fresh EXCEPT !.array = Append(fresh.array, handler.data)]
      BY <2>4, <2>5 DEF array_push
    <3>2. /\ fresh \in Entry /\ Append(fresh.array, handler.data) \in Seq(Data)
          /\ fresh.uid = handler.uid /\ fresh.capacity = ARRAY_DEFAULT_CAPACITY
          /\ fresh.lost = FALSE
          /\ Append(fresh.array, handler.data) = <<handler.data>>
      BY <1>2, <2>4, <2>5, WhitelistAssumption DEF HandlerRecord, Entry
    <3> HIDE DEF fresh, f
    <3>3. f = Made(fresh.uid, Append(fresh.array, handler.data), fresh.capacity, fresh.lost)
      BY <3>1, <3>2, EntryWith
    <3> QED
      BY <3>2, <3>3
  <2> QED
    BY <2>1, <2>3, <2>6
<1>6. Lists'
  <2>1. \A i : ~Uncounted(i) /\ ~Uncounted(i)'
    BY <1>1, <1>3 DEF Uncounted
  <2> QED
    BY <1>1, <1>2, <1>3, <2>1 DEF ListInv, Lists
<1>7. Work'
  BY <1>3, <1>4, <1>5 DEF Work, HandlerMatchesOperator
<1> QED
  BY <1>6, <1>7 DEF ListInv

LEMMA IdleHandlerTyped == IdleHandler \in HandlerRecord /\ IdleHandler.pc = "idle"
BY UidTableAssumption DEF IdleHandler, HandlerRecord

LEMMA ReturnStep ==
  ASSUME ListInv, add_return
  PROVE  ListInv'
<1>1. handler'.pc = "idle" /\ handler' \in HandlerRecord /\ list' = list /\ index' = index
      /\ handler.pc \in {"done", "oops"}
  BY IdleHandlerTyped DEF add_return
<1>2. Lists'
  BY <1>1, NothingWritten DEF ListInv
<1>3. Work'
  BY <1>1 DEF Work, HandlerMatchesOperator
<1> QED
  BY <1>2, <1>3 DEF ListInv

LEMMA HandlerStepInv == ASSUME ListInv, HandlerStep PROVE ListInv'
BY CheckStep, ScanStep, PushCheckStep, PushReallocStep, PushStorageStep, PushCellStep,
   PushSizeStep, NewStep, PublishStep, RaiseStep, ReturnStep DEF HandlerStep

-----------------------------------------------------------------------------
(* The life of the module. *)

LEMMA ListInvInit == CycleInit => ListInv
<1> SUFFICES ASSUME CycleInit PROVE ListInv
  OBVIOUS
<1>1. list = << >> /\ index = 0 /\ handler = IdleHandler
  BY DEF CycleInit, ListInit
<1>2. Lists
  BY <1>1, IdleHandlerTyped, UidTableAssumption DEF Lists
<1>3. Work
  BY <1>1, IdleHandlerTyped DEF Work, HandlerMatchesOperator
<1> QED
  BY <1>2, <1>3 DEF ListInv

\* The memory of the module is given back.
LEMMA FreeStep == ASSUME Free PROVE ListInv'
<1>1. list' = << >> /\ index' = 0 /\ handler' = IdleHandler
  BY DEF Free
<1>2. Lists'
  BY <1>1, IdleHandlerTyped, UidTableAssumption DEF Lists
<1>3. Work'
  BY <1>1, IdleHandlerTyped DEF Work, HandlerMatchesOperator
<1> QED
  BY <1>2, <1>3 DEF ListInv

LEMMA ListUntouched ==
  ASSUME ListInv, UNCHANGED <<list, index, handler>>
  PROVE  ListInv'
<1>1. Value' = Value
  BY DEF Value
<1>2. \A i : Uncounted(i)' <=> Uncounted(i)
  BY DEF Uncounted
<1>3. \A i : View(list[i])' = View(list[i])
  BY DEF View
<1>4. Lists'
  BY <1>2 DEF ListInv, Lists, SoundEntry
<1>5. Work'
  BY <1>1, <1>3 DEF ListInv, Work, HandlerMatchesOperator
<1> QED
  BY <1>4, <1>5 DEF ListInv

\* While the lists are given back no handler is at work.
LEMMA DisposeStep ==
  ASSUME Inv, ListInv, whitelist_dispose
  PROVE  ListInv'
<1>1. CASE UNCHANGED listvars
  BY <1>1, ListUntouched DEF listvars
<1>2. CASE whitelist_dispose_entry(at)
  <2>1. /\ list' = [list EXCEPT ![at].freed = TRUE]
        /\ index' = index /\ handler' = handler
    BY <1>2 DEF whitelist_dispose_entry
  <2>2. handler.pc = "idle"
    BY DEF whitelist_dispose, Inv, Phases, Unloading, Sockets, HandlerActive
  <2>3. list \in Seq(StoredEntry)
    BY DEF ListInv, Lists
  <2>4. list' \in Seq(StoredEntry) /\ Len(list') = Len(list) /\ DOMAIN list' = DOMAIN list
    <3>1. CASE at \in DOMAIN list
      <4> DEFINE e == [list[at] EXCEPT !.freed = TRUE]
      <4>1. list[at] \in StoredEntry
        BY <2>3, <3>1
      <4>2. e \in StoredEntry
        BY <4>1 DEF StoredEntry
      <4>3. list' = [list EXCEPT ![at] = e]
        BY <2>1
      <4> HIDE DEF e
      <4> QED
        BY <2>3, <3>1, <4>2, <4>3
    <3>2. CASE at \notin DOMAIN list
      <4>1. list' = list
        BY <2>1, <2>3, <3>2
      <4> QED
        BY <2>3, <4>1
    <3> QED
      BY <3>1, <3>2
  <2>5. ASSUME NEW i \in DOMAIN list
        PROVE  /\ list'[i].size = list[i].size /\ list'[i].capacity = list[i].capacity
               /\ list'[i].base = list[i].base /\ list'[i].live = list[i].live
               /\ list'[i].cells = list[i].cells
    <3> DEFINE e == [list[at] EXCEPT !.freed = TRUE]
    <3>1. list[i] \in StoredEntry /\ list' = [list EXCEPT ![at] = e]
      BY <2>1, <2>3
    <3>2. i = at => /\ e.size = list[i].size /\ e.capacity = list[i].capacity
                    /\ e.base = list[i].base /\ e.live = list[i].live
                    /\ e.cells = list[i].cells
      BY <3>1 DEF StoredEntry
    <3> HIDE DEF e
    <3>3. list'[i] = IF i = at THEN e ELSE list[i]
      BY <2>3, <3>1
    <3> QED
      BY <3>2, <3>3
  <2>6. \A i : ~Uncounted(i) /\ ~Uncounted(i)'
    BY <2>1, <2>2 DEF Uncounted
  <2>7. ASSUME NEW i \in DOMAIN list'
        PROVE  SoundEntry(list'[i]) /\ Len(list'[i].cells) = list'[i].size
    BY <2>4, <2>5, <2>6 DEF ListInv, Lists, SoundEntry
  <2>8. \A i \in DOMAIN list' : SoundEntry(list[i])' <=> SoundEntry(list'[i])
    BY DEF SoundEntry
  <2>9. Lists'
    <3>1. \A i \in DOMAIN list' :
            /\ SoundEntry(list[i])'
            /\ Len(list'[i].cells) = IF Uncounted(i)' THEN list'[i].size + 1 ELSE list'[i].size
      BY <2>6, <2>7, <2>8
    <3>2. /\ index' \in 0 .. MAX_SIZE_ARRAY /\ handler' \in HandlerRecord
          /\ Len(list') = IF handler'.pc = "raise" THEN index' + 1 ELSE index'
      BY <2>1, <2>2, <2>4 DEF ListInv, Lists
    <3> QED
      BY <2>4, <3>1, <3>2 DEF Lists
  <2>10. Work'
    BY <2>1, <2>2 DEF Work, HandlerMatchesOperator
  <2> QED
    BY <2>9, <2>10 DEF ListInv
<1> QED
  BY <1>1, <1>2 DEF whitelist_dispose

LEMMA ListNext ==
  ASSUME Inv, ListInv, [Next]_vars
  PROVE  ListInv'
<1>1. CASE insmod \/ rmmod \/ create_socket \/ acquire_table \/ replace_slot \/ protect
           \/ unprotect \/ restore_slot \/ reprotect
  BY <1>1, ListUntouched DEF insmod, rmmod, create_socket, acquire_table, replace_slot,
       protect, unprotect, restore_slot, reprotect, LoaderKeeps
<1>2. CASE save_originals
  <2>1. Free \/ UNCHANGED <<list, index, handler>>
    BY <1>2 DEF save_originals
  <2> QED
    BY <2>1, FreeStep, ListUntouched
<1>3. CASE whitelist_dispose \/ release
  BY <1>3, DisposeStep, FreeStep DEF release
<1>4. CASE open_socket \/ close_socket \/ UNCHANGED vars
  BY <1>4, ListUntouched DEF open_socket, close_socket, SocketOnly, vars, listvars
<1>5. ASSUME NEW c \in Commands, recv_msg(c.uid, c.data)
      PROVE  ListInv'
  <2>1. c.uid \in Uid /\ c.data \in Data
    BY LifecycleAssumption
  <2> QED
    BY <1>5, <2>1, CallStep DEF recv_msg
<1>6. CASE HandlerRuns
  BY <1>6, HandlerStepInv DEF HandlerRuns
<1>7. ASSUME NEW k \in Hooks,
             (\E c \in Calls : syscall(k, c)) \/ HookRuns(k) \/ wake(k) \/ crash(k)
      PROVE  ListInv'
  BY <1>7, ListUntouched DEF syscall, HookRuns, not_hooked, copy_string, lookup, decide,
       call_original, wake, crash, CallOnly
<1> QED
  BY <1>1, <1>2, <1>3, <1>4, <1>5, <1>6, <1>7 DEF Next, Loader

\* Step by step, for every capacity, limit and order of failed allocations, and
\* beside the loading of the module, the handler leaves the list that its
\* operator computes, and dies exactly when the operator says so.
THEOREM HandlerAgrees == Spec => []HandlerMatchesOperator
<1>1. Inv /\ ListInv /\ [Next]_vars => ListInv'
  BY ListNext
<1>2. Spec => []ListInv
  BY <1>1, ListInvInit, InvHolds, PTL DEF Spec
<1>3. ListInv => HandlerMatchesOperator
  BY DEF ListInv, Work
<1> QED
  BY <1>2, <1>3, PTL

-----------------------------------------------------------------------------
(* The types of what TLC checks as CycleTypeOK. *)

HookRecord ==
  [pc : {"idle", "entry", "size", "base", "cell", "answered"}, uid : Uid,
   data : Data \cup {NoData, Unfit}, cur : Nat, i : Nat, limit : Nat, base : Int,
   hit : BOOLEAN, listed : BOOLEAN, disturbed : BOOLEAN]

\* A search that found its entry stays there.
Within(h) == h.pc \in {"size", "base", "cell"} => h.cur + 1 \in DOMAIN list

\* It is there as long as the module is.
AtEntry(k) == call[k].pc = "lookup" /\ Text(call[k].load) => Within(hook[k])

HookInv == hook \in [Hooks -> HookRecord] /\ \A k \in Hooks : AtEntry(k)

Bounds ==
  /\ writable \in BOOLEAN /\ failed \in BOOLEAN
  /\ socket.users <= MaxSockets /\ loads <= MaxLoads
  /\ \A k \in Hooks : call[k].load <= MaxLoads

LEMMA IdleHookTyped ==
  /\ IdleHook \in HookRecord /\ IdleHook.pc = "idle"
  /\ \A hit \in BOOLEAN :
       /\ [IdleHook EXCEPT !.pc = "answered", !.hit = hit] \in HookRecord
       /\ [IdleHook EXCEPT !.pc = "answered", !.hit = hit].pc = "answered"
<1>1. IdleHook \in HookRecord /\ IdleHook.pc = "idle"
  BY UidTableAssumption DEF IdleHook, HookRecord, NotLoaded
<1> QED
  BY <1>1 DEF HookRecord

\* The searches are told that memory is given back.
LEMMA Disturbed ==
  ASSUME hook \in [Hooks -> HookRecord], NEW S,
         hook' = [k \in Hooks |-> IF k \in S THEN [hook[k] EXCEPT !.disturbed = TRUE]
                                             ELSE hook[k]]
  PROVE  /\ hook' \in [Hooks -> HookRecord]
         /\ \A k \in Hooks : hook'[k].pc = hook[k].pc /\ hook'[k].cur = hook[k].cur
<1>1. ASSUME NEW k \in Hooks
      PROVE  /\ [hook[k] EXCEPT !.disturbed = TRUE] \in HookRecord
             /\ [hook[k] EXCEPT !.disturbed = TRUE].pc = hook[k].pc
             /\ [hook[k] EXCEPT !.disturbed = TRUE].cur = hook[k].cur
  <2>1. hook[k] \in HookRecord
    OBVIOUS
  <2> QED
    BY <2>1 DEF HookRecord
<1> QED
  BY <1>1

\* What one step makes of a search.
Moved(k) == \E h \in HookRecord : hook' = [hook EXCEPT ![k] = h] /\ Within(h)

LEMMA SearchMoves ==
  ASSUME Lists, hook \in [Hooks -> HookRecord], NEW k \in Hooks, Within(hook[k]),
         LookupStep(k)
  PROVE  Moved(k)
<1> DEFINE g == hook[k]
<1>1. g \in HookRecord /\ list \in Seq(StoredEntry) /\ index \in Nat
      /\ g.cur + 1 \in Nat /\ g.i + 1 \in Nat /\ g.limit \in Nat /\ g.base \in Int
  BY UidTableAssumption DEF Lists, HookRecord
<1>2. ASSUME NEW h \in HookRecord, hook' = [hook EXCEPT ![k] = h], Within(h) PROVE Moved(k)
  BY <1>2 DEF Moved
<1>3. ASSUME Die(k) PROVE Moved(k)
  BY <1>3, <1>2, IdleHookTyped DEF Die, Within
<1>4. ASSUME NEW hit \in BOOLEAN, Answer(k, hit) PROVE Moved(k)
  <2> DEFINE h == [IdleHook EXCEPT !.pc = "answered", !.hit = hit]
  <2>1. h \in HookRecord /\ h.pc = "answered" /\ hook' = [hook EXCEPT ![k] = h]
    BY <1>4, IdleHookTyped DEF Answer
  <2> HIDE DEF h
  <2> QED
    BY <1>2, <2>1 DEF Within
<1>5. ASSUME Undefined(k) PROVE Moved(k)
  BY <1>3, <1>4, <1>5 DEF Undefined
<1>6. CASE lookup_entry(k)
  <2> DEFINE Found(r) == [r EXCEPT !.pc = "size", !.limit = Seen(k).size]
             Further(r, limit) == [r EXCEPT !.cur = @ + 1, !.limit = limit]
  <2>1. g.pc = "entry"
    BY <1>6 DEF lookup_entry
  <2>2. PICK limit \in {hook[k].limit, index} :
          IF hook[k].cur >= limit THEN Answer(k, FALSE)
          ELSE IF hook[k].cur + 1 \notin DOMAIN list THEN Die(k)
          ELSE hook' = [hook EXCEPT ![k] =
                 IF Seen(k).uid = @.uid
                   THEN [@ EXCEPT !.pc = "size", !.limit = Seen(k).size]
                   ELSE [@ EXCEPT !.cur = hook[k].cur + 1, !.limit = limit]]
    BY <1>6 DEF lookup_entry
  <2>3. CASE g.cur >= limit \/ g.cur + 1 \notin DOMAIN list
    BY <1>3, <1>4, <2>2, <2>3
  <2>4. CASE ~(g.cur >= limit) /\ g.cur + 1 \in DOMAIN list /\ Seen(k).uid = g.uid
    <3>1. hook' = [hook EXCEPT ![k] = Found(g)]
      BY <2>2, <2>4
    <3> DEFINE size == Seen(k).size
    <3>2. Seen(k) \in StoredEntry
      BY <1>1, <2>4 DEF Seen
    <3>3. size \in Nat
      BY <3>2 DEF StoredEntry
    <3> HIDE DEF size
    <3>4. [g EXCEPT !.pc = "size", !.limit = size] \in HookRecord
          /\ [g EXCEPT !.pc = "size", !.limit = size].cur = g.cur
      BY <1>1, <3>3 DEF HookRecord
    <3>5. Found(g) \in HookRecord /\ Found(g).cur = g.cur
      BY <3>4 DEF size
    <3> HIDE DEF Found
    <3> QED
      BY <1>2, <2>4, <3>1, <3>5 DEF Within
  <2>5. CASE ~(g.cur >= limit) /\ g.cur + 1 \in DOMAIN list /\ Seen(k).uid # g.uid
    <3>1. hook' = [hook EXCEPT ![k] = Further(g, limit)]
      BY <2>2, <2>5
    <3> DEFINE c == g.cur + 1
    <3>2. limit \in Nat /\ c \in Nat
      BY <1>1
    <3> HIDE DEF c
    <3>3. [g EXCEPT !.cur = c, !.limit = limit] \in HookRecord
          /\ [g EXCEPT !.cur = c, !.limit = limit].pc = g.pc
      BY <1>1, <3>2 DEF HookRecord
    <3>4. Further(g, limit) \in HookRecord /\ Further(g, limit).pc = "entry"
      BY <2>1, <3>3 DEF c
    <3> HIDE DEF Further
    <3> QED
      BY <1>2, <3>1, <3>4 DEF Within
  <2> QED
    BY <2>3, <2>4, <2>5
<1>7. CASE lookup_size(k)
  <2>1. g.cur + 1 \in DOMAIN list /\ Seen(k) \in StoredEntry
    BY <1>1, <1>7 DEF Within, lookup_size, Seen
  <2>2. PICK limit \in {hook[k].limit, Seen(k).size} :
          \/ Undefined(k) \/ Answer(k, FALSE)
          \/ hook' = [hook EXCEPT ![k].pc = "base", ![k].limit = limit]
    BY <1>7 DEF lookup_size
  <2>3. CASE Undefined(k) \/ Answer(k, FALSE)
    BY <1>4, <1>5, <2>3
  <2>4. CASE hook' = [hook EXCEPT ![k].pc = "base", ![k].limit = limit]
    <3> DEFINE h == [g EXCEPT !.pc = "base", !.limit = limit]
    <3>1. limit \in Nat
      BY <1>1, <2>1 DEF HookRecord, StoredEntry
    <3>2. h \in HookRecord /\ h.cur = g.cur
      BY <1>1, <3>1 DEF HookRecord
    <3>3. hook' = [hook EXCEPT ![k] = h]
      BY <2>4
    <3> QED
      BY <1>2, <2>1, <3>2, <3>3 DEF Within
  <2> QED
    BY <2>2, <2>3, <2>4
<1>8. CASE lookup_base(k)
  <2>1. g.cur + 1 \in DOMAIN list /\ Seen(k) \in StoredEntry
    BY <1>1, <1>8 DEF Within, lookup_base, Seen
  <2>2. PICK base \in {hook[k].base, Seen(k).base} :
          Undefined(k) \/ hook' = [hook EXCEPT ![k].pc = "cell", ![k].base = base]
    BY <1>8 DEF lookup_base
  <2>3. CASE Undefined(k)
    BY <1>5, <2>3
  <2>4. CASE hook' = [hook EXCEPT ![k].pc = "cell", ![k].base = base]
    <3> DEFINE h == [g EXCEPT !.pc = "cell", !.base = base]
    <3>1. base \in Int
      BY <1>1, <2>1 DEF HookRecord, StoredEntry
    <3>2. h \in HookRecord /\ h.cur = g.cur
      BY <1>1, <3>1 DEF HookRecord
    <3>3. hook' = [hook EXCEPT ![k] = h]
      BY <2>4
    <3> QED
      BY <1>2, <2>1, <3>2, <3>3 DEF Within
  <2> QED
    BY <2>2, <2>3, <2>4
<1>9. CASE lookup_cell(k)
  <2>1. g.cur + 1 \in DOMAIN list
    BY <1>9 DEF Within, lookup_cell
  <2>2. \/ Die(k) \/ Undefined(k) \/ Answer(k, TRUE)
        \/ hook' = [hook EXCEPT ![k].pc = "size", ![k].i = @ + 1]
    BY <1>9 DEF lookup_cell
  <2>3. CASE Die(k) \/ Undefined(k) \/ Answer(k, TRUE)
    BY <1>3, <1>4, <1>5, <2>3
  <2>4. CASE hook' = [hook EXCEPT ![k].pc = "size", ![k].i = @ + 1]
    <3> DEFINE m == g.i + 1
               h == [g EXCEPT !.pc = "size", !.i = m]
    <3>1. hook' = [hook EXCEPT ![k] = h] /\ m \in Nat
      BY <1>1, <2>4
    <3> HIDE DEF m
    <3>2. h \in HookRecord /\ h.cur = g.cur
      BY <1>1, <3>1 DEF HookRecord
    <3> QED
      BY <1>2, <2>1, <3>1, <3>2 DEF Within
  <2> QED
    BY <2>2, <2>3, <2>4
<1> QED
  BY <1>6, <1>7, <1>8, <1>9 DEF LookupStep

\* What one step makes of a call: only a string that was copied is looked up.
LEMMA CallSteps ==
  ASSUME Types, NEW k \in Hooks,
         \/ \E c \in Calls : syscall(k, c)
         \/ not_hooked(k) \/ copy_string(k) \/ lookup(k) \/ decide(k)
         \/ call_original(k) \/ wake(k) \/ crash(k)
  PROVE  /\ \A j \in Hooks : j # k => call'[j] = call[j]
         /\ call'[k].load \in {0, loads, call[k].load}
         /\ call'[k].pc = "lookup" => /\ copy_string(k) \/ lookup(k)
                                      /\ call'[k].load = call[k].load
<1>1. call[k] \in CallRecord /\ NoCall.pc = "outside" /\ NoCall.load = 0
      /\ call \in [Hooks -> CallRecord]
  BY DEF Types, NoCall
<1>2. ASSUME NEW c, call' = [call EXCEPT ![k] = c], c.load \in {0, loads, call[k].load},
             c.pc = "lookup" => (copy_string(k) \/ lookup(k)) /\ c.load = call[k].load
      PROVE  /\ \A j \in Hooks : j # k => call'[j] = call[j]
             /\ call'[k].load \in {0, loads, call[k].load}
             /\ call'[k].pc = "lookup" => /\ copy_string(k) \/ lookup(k)
                                          /\ call'[k].load = call[k].load
  BY <1>1, <1>2
<1>3. ASSUME call' = [call EXCEPT ![k] = NoCall]
      PROVE  /\ \A j \in Hooks : j # k => call'[j] = call[j]
             /\ call'[k].load = 0 /\ call'[k].pc = "outside"
  BY <1>1, <1>3
<1>4. ASSUME ToOriginal(k)
      PROVE  /\ \A j \in Hooks : j # k => call'[j] = call[j]
             /\ call'[k].load = call[k].load /\ call'[k].pc = "original"
  <2> DEFINE r == [NoCall EXCEPT !.pc = "original", !.load = call[k].load,
                                 !.syscall = call[k].syscall]
  <2>1. r.load = call[k].load /\ r.pc = "original"
    BY DEF NoCall
  <2>2. call' = [call EXCEPT ![k] = r]
    BY <1>4 DEF ToOriginal
  <2> HIDE DEF r
  <2> QED
    BY <1>1, <2>1, <2>2
<1>5. ASSUME NEW c \in Calls, syscall(k, c)
      PROVE  /\ \A j \in Hooks : j # k => call'[j] = call[j]
             /\ call'[k].load \in {0, loads} /\ call'[k].pc # "lookup"
  <2> DEFINE r == [NoCall EXCEPT !.pc = "hook", !.syscall = c.syscall, !.load = loads,
                                 !.uid = c.uid, !.data = c.data, !.pointer = c.pointer]
  <2>1. r.load = loads /\ r.pc = "hook"
    BY DEF NoCall
  <2>2. call' = [call EXCEPT ![k] = IF Text(loads) THEN r ELSE NoCall]
    BY <1>5 DEF syscall
  <2> HIDE DEF r
  <2> QED
    BY <1>1, <2>1, <2>2
<1>6. CASE not_hooked(k)
  BY <1>4, <1>6 DEF not_hooked
<1>7. CASE copy_string(k)
  <2>1. ToOriginal(k) \/ \E copy : call' = [call EXCEPT ![k].pc = "lookup", ![k].copy = copy]
    BY <1>7 DEF copy_string
  <2>2. ASSUME NEW copy, call' = [call EXCEPT ![k].pc = "lookup", ![k].copy = copy]
        PROVE  /\ \A j \in Hooks : j # k => call'[j] = call[j]
               /\ call'[k].load = call[k].load
    BY <1>1, <2>2 DEF CallRecord
  <2> QED
    BY <1>4, <1>7, <2>1, <2>2
<1>8. CASE lookup(k)
  BY <1>1, <1>3, <1>8 DEF lookup
<1>9. CASE decide(k)
  BY <1>3, <1>4, <1>9 DEF decide
<1>10. CASE call_original(k)
  <2>1. call' = [call EXCEPT ![k] = NoCall] \/ call' = [call EXCEPT ![k].pc = "sleeping"]
    BY <1>10 DEF call_original
  <2>2. ASSUME call' = [call EXCEPT ![k].pc = "sleeping"]
        PROVE  /\ \A j \in Hooks : j # k => call'[j] = call[j]
               /\ call'[k].load = call[k].load /\ call'[k].pc = "sleeping"
    BY <1>1, <2>2 DEF CallRecord
  <2> QED
    BY <1>3, <2>1, <2>2
<1>11. CASE wake(k) \/ crash(k)
  BY <1>3, <1>11 DEF wake, crash
<1> QED
  BY <1>5, <1>6, <1>7, <1>8, <1>9, <1>10, <1>11

LEMMA BoundsInit == CycleInit => Bounds /\ HookInv
<1> SUFFICES ASSUME CycleInit PROVE Bounds /\ HookInv
  OBVIOUS
<1>1. Bounds
  <2>1. \A k \in Hooks : call[k].load = 0
    BY DEF CycleInit, NoCall
  <2>2. socket.users = 0 /\ loads = 0 /\ writable = FALSE /\ failed = FALSE
    BY DEF CycleInit
  <2>3. 0 <= MaxLoads /\ 0 <= MaxSockets
    BY LifecycleAssumption
  <2> QED
    BY <2>1, <2>2, <2>3 DEF Bounds
<1>2. HookInv
  BY IdleHookTyped DEF CycleInit, ListInit, HookInv, AtEntry, Within
<1> QED
  BY <1>1, <1>2

LEMMA BoundsNext ==
  ASSUME Inv, Bounds, [Next]_vars
  PROVE  Bounds'
<1>1. /\ MaxLoads \in Nat /\ MaxSockets \in Nat /\ loads \in Nat
      /\ socket \in [registered : BOOLEAN, users : Nat]
      /\ \A k \in Hooks : call[k].load \in Nat
  BY LifecycleAssumption DEF Inv, Types, CallRecord
<1>2. CASE insmod
  BY <1>1, <1>2 DEF insmod, LoaderKeeps, Bounds
<1>3. CASE rmmod \/ Loader
  BY <1>1, <1>3 DEF rmmod, Loader, create_socket, acquire_table, save_originals, replace_slot,
       protect, unprotect, restore_slot, reprotect, whitelist_dispose, release, LoaderKeeps,
       Bounds
<1>4. CASE open_socket \/ close_socket
  BY <1>1, <1>4 DEF open_socket, close_socket, SocketOnly, Bounds
<1>5. CASE HandlerRuns \/ (\E c \in Commands : recv_msg(c.uid, c.data)) \/ UNCHANGED vars
  BY <1>5 DEF HandlerRuns, recv_msg, vars, cyclevars, Bounds
<1>6. ASSUME NEW k \in Hooks,
             (\E c \in Calls : syscall(k, c)) \/ HookRuns(k) \/ wake(k) \/ crash(k)
      PROVE  Bounds'
  <2>1. CallOnly
    BY <1>6 DEF syscall, HookRuns, not_hooked, copy_string, lookup, decide, call_original,
         wake, crash
  <2>2. /\ \A j \in Hooks : j # k => call'[j] = call[j]
        /\ call'[k].load \in {0, loads, call[k].load}
    BY <1>6, CallSteps DEF Inv, HookRuns
  <2> QED
    BY <1>1, <2>1, <2>2 DEF CallOnly, Bounds
<1> QED
  BY <1>2, <1>3, <1>4, <1>5, <1>6 DEF Next

\* No search moves, and no entry of a list that a search may be at goes away.
LEMMA SearchesKept ==
  ASSUME Inv, HookInv, UNCHANGED call, hook' \in [Hooks -> HookRecord],
         \A k \in Hooks : hook'[k].pc = hook[k].pc /\ hook'[k].cur = hook[k].cur,
         \/ loads' = loads + 1
         \/ /\ loads' = loads
            /\ module' # "absent" => module # "absent" /\ DOMAIN list \subseteq DOMAIN list'
  PROVE  HookInv'
<1>1. ASSUME NEW k \in Hooks, call[k].pc = "lookup", Text(call[k].load)',
             hook'[k].pc \in {"size", "base", "cell"}
      PROVE  hook'[k].cur + 1 \in DOMAIN list'
  <2>1. call[k].load \in Nat /\ call[k].load <= loads /\ loads \in Nat
    BY <1>1 DEF Inv, Types, CallRecord, InCalls, LoadKnown, Inside
  <2>2. /\ loads' = loads /\ Text(call[k].load)
        /\ DOMAIN list \subseteq DOMAIN list'
    BY <1>1, <2>1 DEF Text
  <2>3. hook[k].cur + 1 \in DOMAIN list
    BY <1>1, <2>2 DEF HookInv, AtEntry, Within
  <2> QED
    BY <2>2, <2>3
<1>2. \A k \in Hooks : AtEntry(k)'
  BY <1>1 DEF AtEntry, Within, Text
<1> QED
  BY <1>2 DEF HookInv

\* One process moves.
LEMMA SearchesMove ==
  ASSUME HookInv, CallOnly, NEW k \in Hooks, NEW h \in HookRecord,
         hook' = [hook EXCEPT ![k] = h],
         \A j \in Hooks : j # k => call'[j] = call[j],
         call'[k].pc = "lookup" /\ Text(call'[k].load) => Within(h)
  PROVE  HookInv'
<1>1. hook' \in [Hooks -> HookRecord] /\ hook'[k] = h
      /\ \A j \in Hooks : j # k => hook'[j] = hook[j]
  BY DEF HookInv
<1>2. list' = list /\ loads' = loads /\ module' = module
  BY DEF CallOnly
<1>3. ASSUME NEW j \in Hooks, call'[j].pc = "lookup", Text(call'[j].load)
      PROVE  Within(hook'[j])
  <2>1. CASE j = k
    BY <1>1, <1>3, <2>1
  <2>2. CASE j # k
    BY <1>1, <1>3, <2>2 DEF HookInv, AtEntry
  <2> QED
    BY <2>1, <2>2
<1>4. \A j \in Hooks : AtEntry(j)'
  BY <1>2, <1>3 DEF AtEntry, Within, Text
<1> QED
  BY <1>1, <1>4 DEF HookInv

\* The list of a handler at work only grows.
LEMMA HandlerWrites ==
  ASSUME ListInv, HandlerStep, hook \in [Hooks -> HookRecord]
  PROVE  /\ DOMAIN list \subseteq DOMAIN list'
         /\ hook' \in [Hooks -> HookRecord]
         /\ \A k \in Hooks : hook'[k].pc = hook[k].pc /\ hook'[k].cur = hook[k].cur
<1>1. list \in Seq(StoredEntry)
  BY DEF ListInv, Lists
<1>2. DOMAIN list \subseteq DOMAIN list'
  <2>1. CASE add_publish
    <3>1. handler.pc = "publish" /\ Len(list) = index /\ index \in Nat
      BY <2>1, UidTableAssumption DEF add_publish, ListInv, Lists
    <3> DEFINE e == [uid |-> handler.uid, cells |-> <<handler.data>>, size |-> 1,
                     capacity |-> ARRAY_DEFAULT_CAPACITY, base |-> 1, live |-> 1,
                     freed |-> FALSE]
    <3>2. list' = Append(SubSeq(list, 1, index), e)
      BY <2>1 DEF add_publish
    <3>3. handler.data \in Data /\ handler.uid \in Uid /\ 1 \in Nat
      BY <3>1 DEF ListInv, Lists, Work, HandlerRecord
    <3>4. e \in StoredEntry
      BY <3>3, WhitelistAssumption DEF StoredEntry
    <3> HIDE DEF e
    <3>5. SubSeq(list, 1, index) = list
      BY <1>1, <3>1
    <3>6. DOMAIN Append(list, e) = 1 .. Len(list) + 1 /\ DOMAIN list = 1 .. Len(list)
      BY <1>1, <3>4
    <3> QED
      BY <3>1, <3>2, <3>5, <3>6
  <2>2. CASE push_check \/ push_realloc \/ push_storage \/ push_cell \/ push_size
    <3>1. list' = list \/ \E n, e : list' = [list EXCEPT ![n] = e]
      BY <2>2 DEF push_check, push_realloc, push_storage, push_cell, push_size
    <3> QED
      BY <1>1, <3>1
  <2>3. CASE add_check \/ add_scan \/ add_new \/ add_raise \/ add_return
    BY <2>3 DEF add_check, add_scan, add_new, add_raise, add_return
  <2> QED
    BY <2>1, <2>2, <2>3 DEF HandlerStep
<1>3. hook' = hook \/ Disturb(handler.uid)
  BY DEF HandlerStep, add_check, add_scan, push_check, push_realloc, push_storage, push_cell,
         push_size, add_new, add_publish, add_raise, add_return
<1>4. CASE Disturb(handler.uid)
  <2> DEFINE S == {k \in Hooks : Searching(k) /\ hook[k].uid = handler.uid}
  <2>1. hook' = [k \in Hooks |-> IF k \in S THEN [hook[k] EXCEPT !.disturbed = TRUE]
                                            ELSE hook[k]]
    BY <1>4 DEF Disturb
  <2> HIDE DEF S
  <2> QED
    BY <1>2, <2>1, Disturbed
<1> QED
  BY <1>2, <1>3, <1>4

LEMMA CallsSearch ==
  ASSUME Inv, ListInv, HookInv, NEW k \in Hooks,
         (\E c \in Calls : syscall(k, c)) \/ HookRuns(k) \/ wake(k) \/ crash(k)
  PROVE  HookInv'
<1>1. CallOnly
  BY DEF syscall, HookRuns, not_hooked, copy_string, lookup, decide, call_original, wake,
         crash
<1>2. /\ \A j \in Hooks : j # k => call'[j] = call[j]
      /\ call'[k].pc = "lookup" => /\ copy_string(k) \/ lookup(k)
                                   /\ call'[k].load = call[k].load
  BY CallSteps DEF Inv, HookRuns
<1>3. hook[k] \in HookRecord /\ hook \in [Hooks -> HookRecord]
  BY DEF HookInv
<1>4. CASE lookup(k)
  <2>1. call[k].pc = "lookup" /\ Text(call[k].load) /\ LookupStep(k)
    BY <1>4 DEF lookup
  <2>2. Moved(k)
    BY <1>3, <2>1, SearchMoves DEF HookInv, AtEntry, ListInv
  <2>3. PICK h \in HookRecord : hook' = [hook EXCEPT ![k] = h] /\ Within(h)
    BY <2>2 DEF Moved
  <2> QED
    BY <1>1, <1>2, <2>3, SearchesMove
<1>5. CASE copy_string(k)
  <2>1. PICK data \in Data \cup {Unfit} :
          \/ ToOriginal(k) /\ UNCHANGED hook
          \/ lookup_call(k, call[k].uid, data)
    <3>1. call[k].data \in Data
      BY <1>5 DEF copy_string, Inv, Types
    <3> QED
      BY <1>5, <3>1 DEF copy_string
  <2>2. CASE ToOriginal(k) /\ UNCHANGED hook
    <3> DEFINE r == [NoCall EXCEPT !.pc = "original", !.load = call[k].load,
                                   !.syscall = call[k].syscall]
    <3>1. r.pc = "original"
      BY DEF NoCall
    <3>2. call' = [call EXCEPT ![k] = r] /\ call \in [Hooks -> CallRecord]
      BY <2>2 DEF ToOriginal, Inv, Types
    <3> HIDE DEF r
    <3>3. call'[k].pc # "lookup"
      BY <3>1, <3>2
    <3>4. hook' = [hook EXCEPT ![k] = hook[k]]
      BY <1>3, <2>2
    <3> QED
      BY <1>1, <1>2, <1>3, <3>3, <3>4, SearchesMove
  <2>3. CASE lookup_call(k, call[k].uid, data)
    <3> DEFINE listed == \E d \in Data : <<call[k].uid, d>> \in allowed /\ <<data, d>> \in PrefixOf
               disturbed == data = Unfit \/ call[k].uid \in moving
               h == [IdleHook EXCEPT
                       !.pc = "entry", !.uid = call[k].uid, !.data = data, !.limit = index,
                       !.listed = listed, !.disturbed = disturbed]
    <3>1. hook' = [hook EXCEPT ![k] = h]
      BY <2>3 DEF lookup_call
    <3>2. listed \in BOOLEAN /\ disturbed \in BOOLEAN
      OBVIOUS
    <3>3. call[k].uid \in Uid /\ index \in Nat
      BY UidTableAssumption DEF Inv, Types, CallRecord, ListInv, Lists
    <3> HIDE DEF listed, disturbed
    <3>4. h \in HookRecord /\ h.pc = "entry"
      BY <3>2, <3>3, IdleHookTyped DEF HookRecord
    <3> HIDE DEF h
    <3> QED
      BY <1>1, <1>2, <3>1, <3>4, SearchesMove DEF Within
  <2> QED
    BY <2>1, <2>2, <2>3
<1>6. CASE decide(k) \/ crash(k)
  <2>1. hook' = [hook EXCEPT ![k] = IdleHook]
    BY <1>6 DEF decide, lookup_return, crash
  <2> QED
    BY <1>1, <1>2, <2>1, IdleHookTyped, SearchesMove DEF Within
<1>7. CASE (\E c \in Calls : syscall(k, c)) \/ not_hooked(k) \/ call_original(k) \/ wake(k)
  <2>1. hook' = hook
    BY <1>7 DEF syscall, not_hooked, call_original, wake
  <2>2. hook' = [hook EXCEPT ![k] = hook[k]]
    BY <1>3, <2>1
  <2>3. CASE copy_string(k) \/ lookup(k)
    BY <1>4, <1>5, <2>3
  <2>4. CASE ~copy_string(k) /\ ~lookup(k)
    BY <1>1, <1>2, <1>3, <2>2, <2>4, SearchesMove
  <2> QED
    BY <2>3, <2>4
<1> QED
  BY <1>4, <1>5, <1>6, <1>7 DEF HookRuns

LEMMA HookNext ==
  ASSUME Inv, ListInv, HookInv, [Next]_vars
  PROVE  HookInv'
<1>1. hook \in [Hooks -> HookRecord] /\ loads \in Nat
  BY DEF HookInv, Inv, Types
<1>2. CASE insmod
  BY <1>1, <1>2, SearchesKept DEF insmod, LoaderKeeps
<1>3. CASE rmmod \/ create_socket \/ acquire_table \/ replace_slot \/ protect \/ unprotect
           \/ restore_slot \/ reprotect
  <2>1. /\ hook' = hook /\ call' = call /\ loads' = loads /\ list' = list
        /\ module' # "absent" => module # "absent"
    BY <1>3 DEF rmmod, create_socket, acquire_table, replace_slot, protect, unprotect,
         restore_slot, reprotect, LoaderKeeps, Inv, Phases, Loading, Unloading
  <2> QED
    BY <1>1, <2>1, SearchesKept
<1>4. ASSUME Free, UNCHANGED <<call, loads>> PROVE HookInv'
  <2> DEFINE S == {k \in Hooks : Searching(k)}
  <2>1. hook' = [k \in Hooks |-> IF k \in S THEN [hook[k] EXCEPT !.disturbed = TRUE]
                                            ELSE hook[k]]
    BY <1>4 DEF Free
  <2>2. module' = "absent"
    BY <1>4 DEF Free
  <2> HIDE DEF S
  <2>3. /\ hook' \in [Hooks -> HookRecord]
        /\ \A k \in Hooks : hook'[k].pc = hook[k].pc /\ hook'[k].cur = hook[k].cur
    BY <1>1, <2>1, Disturbed
  <2> QED
    BY <1>4, <2>2, <2>3, SearchesKept
<1>5. CASE save_originals
  <2>1. CASE Free
    BY <1>4, <1>5, <2>1 DEF save_originals
  <2>2. CASE ~Free
    <3>1. hook' = hook /\ call' = call /\ loads' = loads /\ list' = list /\ module' = module
      BY <1>5, <2>2 DEF save_originals
    <3> QED
      BY <1>1, <3>1, SearchesKept
  <2> QED
    BY <2>1, <2>2
<1>6. CASE whitelist_dispose
  <2>1. call' = call /\ loads' = loads /\ module' = module
    BY <1>6 DEF whitelist_dispose
  <2>2. CASE UNCHANGED listvars
    BY <1>1, <2>1, <2>2, SearchesKept DEF listvars
  <2>3. CASE whitelist_dispose_entry(at)
    <3> DEFINE uid == list[at].uid
               S == {k \in Hooks : Searching(k) /\ hook[k].uid = uid}
    <3>1. hook' = [k \in Hooks |-> IF k \in S THEN [hook[k] EXCEPT !.disturbed = TRUE]
                                              ELSE hook[k]]
      BY <2>3 DEF whitelist_dispose_entry, Disturb
    <3>2. list' = [list EXCEPT ![at].freed = TRUE]
      BY <2>3 DEF whitelist_dispose_entry
    <3>3. DOMAIN list' = DOMAIN list
      BY <3>2
    <3> HIDE DEF S
    <3>4. /\ hook' \in [Hooks -> HookRecord]
          /\ \A k \in Hooks : hook'[k].pc = hook[k].pc /\ hook'[k].cur = hook[k].cur
      BY <1>1, <3>1, Disturbed
    <3> QED
      BY <2>1, <3>3, <3>4, SearchesKept
  <2> QED
    BY <1>6, <2>2, <2>3 DEF whitelist_dispose
<1>7. CASE release
  BY <1>4, <1>7 DEF release
<1>8. CASE open_socket \/ close_socket \/ UNCHANGED vars
           \/ \E c \in Commands : recv_msg(c.uid, c.data)
  <2>1. hook' = hook /\ call' = call /\ loads' = loads /\ list' = list /\ module' = module
    BY <1>8 DEF open_socket, close_socket, SocketOnly, vars, listvars, cyclevars, recv_msg,
         add_call
  <2> QED
    BY <1>1, <2>1, SearchesKept
<1>9. CASE HandlerRuns
  <2>1. call' = call /\ loads' = loads /\ module' = module /\ HandlerStep
    BY <1>9 DEF HandlerRuns, cyclevars
  <2>2. /\ DOMAIN list \subseteq DOMAIN list'
        /\ hook' \in [Hooks -> HookRecord]
        /\ \A k \in Hooks : hook'[k].pc = hook[k].pc /\ hook'[k].cur = hook[k].cur
    BY <1>1, <2>1, HandlerWrites
  <2> QED
    BY <2>1, <2>2, SearchesKept
<1>10. ASSUME NEW k \in Hooks,
              (\E c \in Calls : syscall(k, c)) \/ HookRuns(k) \/ wake(k) \/ crash(k)
       PROVE  HookInv'
  BY <1>10, CallsSearch
<1> QED
  BY <1>2, <1>3, <1>5, <1>6, <1>7, <1>8, <1>9, <1>10 DEF Next, Loader

\* Through every load and unload, and whatever runs meanwhile, the list, the
\* handler, the searches, the loader and the calls keep their types: in particular
\* the list never has more than MAX_SIZE_ARRAY entries.
THEOREM CycleTypesHold == Spec => []CycleTypeOK
<1>1. Inv /\ ListInv /\ HookInv /\ Bounds /\ [Next]_vars
        => ListInv' /\ HookInv' /\ Bounds'
  BY ListNext, HookNext, BoundsNext
<1>2. Spec => [](ListInv /\ HookInv /\ Bounds)
  BY <1>1, ListInvInit, BoundsInit, InvHolds, PTL DEF Spec
<1>3. Inv /\ ListInv /\ HookInv /\ Bounds => CycleTypeOK
  <2> SUFFICES ASSUME Inv, ListInv, HookInv, Bounds PROVE CycleTypeOK
    OBVIOUS
  <2>1. ListTypeOK
    BY DEF ListInv, Lists, HandlerRecord, HookInv, HookRecord, ListTypeOK
  <2>2. socket \in [registered : BOOLEAN, users : 0 .. MaxSockets] /\ loads \in 0 .. MaxLoads
    BY LifecycleAssumption DEF Inv, Types, Bounds
  <2>3. ASSUME NEW k \in Hooks
        PROVE  call[k] \in
                 [pc : {"outside", "hook", "lookup", "original", "sleeping"},
                  syscall : Syscall, load : 0 .. MaxLoads, uid : Uid,
                  data : Data \cup {NoData}, pointer : {"null", "bad", "good"}, copy : Copy]
    <3>1. call[k] \in CallRecord /\ call[k].load <= MaxLoads
      BY DEF Inv, Types, Bounds
    <3> QED
      BY <3>1, LifecycleAssumption DEF CallRecord
  <2>4. call \in [Hooks ->
          [pc : {"outside", "hook", "lookup", "original", "sleeping"},
           syscall : Syscall, load : 0 .. MaxLoads, uid : Uid, data : Data \cup {NoData},
           pointer : {"null", "bad", "good"}, copy : Copy]]
    BY <2>3 DEF Inv, Types
  <2> QED
    BY <2>1, <2>2, <2>4 DEF Inv, Types, Phases, Loading, Unloading, Bounds, CycleTypeOK
<1> QED
  BY <1>2, <1>3, InvHolds, PTL
=============================================================================
