-------------------------- MODULE WhitelistProofs ---------------------------
(***************************************************************************)
(* What add_to_whitelist does to a whitelist, whatever allocations it is   *)
(* refused, proved for every table size, capacity and set of strings.      *)
(***************************************************************************)
EXTENDS Whitelist, TLAPS

\* A whitelist as the module keeps it.
GoodList(w) ==
  /\ w \in Seq(Entry)
  /\ OneEntryPerUid(w)
  /\ \A i \in DOMAIN w : WithinCapacity(w[i])

\* The whitelists start empty.
LEMMA EmptyListFacts ==
  /\ GoodList(<< >>)
  /\ \A u : Stored(<< >>, u) = {} /\ ~Lost(<< >>, u)
BY DEF GoodList, OneEntryPerUid, Stored, Lost, HasEntry

\* The search for a uid stops at its entry.
LEMMA EntryUnique ==
  ASSUME NEW w \in Seq(Entry), OneEntryPerUid(w), NEW i \in DOMAIN w
  PROVE  /\ HasEntry(w, w[i].uid)
         /\ FirstEntry(w, w[i].uid) = i
         /\ EntryOf(w, w[i].uid) = w[i]
<1>1. \A j \in 1 .. i - 1 : j \in DOMAIN w /\ j # i
  OBVIOUS
<1>2. \A j \in 1 .. i - 1 : w[j].uid # w[i].uid
  BY <1>1 DEF OneEntryPerUid
<1>3. \A k \in DOMAIN w : w[k].uid = w[i].uid => k = i
  BY DEF OneEntryPerUid
<1>4. FirstEntry(w, w[i].uid) = i
  BY <1>2, <1>3 DEF FirstEntry
<1> QED  BY <1>4 DEF HasEntry, EntryOf

\* array_push on an Array that has its storage: the string is appended, or
\* the storage is lost; either way the strings fit the capacity.
LEMMA PushFacts ==
  ASSUME NEW e \in Entry, NEW data \in Data, NEW refused,
         ~e.lost, Len(e.array) <= e.capacity, e.capacity # 0
  PROVE  LET f == array_push(e, data, refused)
         IN  /\ f \in Entry
             /\ f.uid = e.uid
             /\ WithinCapacity(f)
             /\ \/ f.array = Append(e.array, data) /\ ~f.lost
                \/ f.array = e.array /\ f.array # << >> /\ f.lost
<1> DEFINE f == array_push(e, data, refused)
<1>1. /\ e.uid \in Uid /\ e.array \in Seq(Data) /\ e.capacity \in Nat
      /\ e.lost \in BOOLEAN
      /\ Append(e.array, data) \in Seq(Data)
      /\ Len(Append(e.array, data)) = Len(e.array) + 1
      /\ Len(e.array) \in Nat
  BY DEF Entry
<1>2. CASE Len(e.array) # e.capacity
  <2>1. f = [e EXCEPT !.array = Append(e.array, data)]
    BY <1>2 DEF array_push
  <2>2. /\ f.uid = e.uid /\ f.array = Append(e.array, data)
        /\ f.capacity = e.capacity /\ f.lost = e.lost
    BY <2>1 DEF Entry
  <2>3. f \in Entry
    BY <1>1, <2>1 DEF Entry
  <2>4. Len(f.array) <= f.capacity
    BY <1>1, <1>2, <2>2
  <2> QED  BY <2>2, <2>3, <2>4 DEF WithinCapacity
<1>3. CASE Len(e.array) = e.capacity /\ "array" \in refused
  <2>1. f = [e EXCEPT !.capacity = 2 * e.capacity, !.lost = TRUE]
    BY <1>3 DEF array_push
  <2>2. /\ f.uid = e.uid /\ f.array = e.array
        /\ f.capacity = 2 * e.capacity /\ f.lost = TRUE
    BY <2>1 DEF Entry
  <2>3. f \in Entry
    <3>1. f = [uid |-> e.uid, array |-> e.array, capacity |-> 2 * e.capacity,
               lost |-> TRUE]
      BY <2>1 DEF Entry
    <3>2. 2 * e.capacity \in Nat
      BY <1>1
    <3> QED  BY <1>1, <3>1, <3>2 DEF Entry
  <2>4. Len(f.array) < f.capacity /\ Len(f.array) <= f.capacity
    BY <1>1, <1>3, <2>2
  <2>5. f.array # << >>
    BY <1>1, <1>3, <2>2
  <2> QED  BY <2>2, <2>3, <2>4, <2>5 DEF WithinCapacity
<1>4. CASE Len(e.array) = e.capacity /\ "array" \notin refused
  <2>1. f = [e EXCEPT !.capacity = 2 * e.capacity, !.array = Append(e.array, data)]
    BY <1>4 DEF array_push
  <2>2. /\ f.uid = e.uid /\ f.array = Append(e.array, data)
        /\ f.capacity = 2 * e.capacity /\ f.lost = e.lost
    BY <2>1 DEF Entry
  <2>3. f \in Entry
    <3>1. f = [uid |-> e.uid, array |-> Append(e.array, data),
               capacity |-> 2 * e.capacity, lost |-> e.lost]
      BY <2>1 DEF Entry
    <3>2. 2 * e.capacity \in Nat
      BY <1>1
    <3> QED  BY <1>1, <3>1, <3>2 DEF Entry
  <2>4. Len(f.array) <= f.capacity
    BY <1>1, <1>4, <2>2
  <2> QED  BY <2>2, <2>3, <2>4 DEF WithinCapacity
<1> QED  BY <1>2, <1>3, <1>4

\* The cases of add_to_whitelist: nothing changes, or the entry of the uid is
\* pushed on, or a first entry is appended for it.
LEMMA AddCases ==
  ASSUME NEW w, GoodList(w), NEW data \in Data, NEW uid \in Uid, NEW refused
  PROVE  LET v == add_to_whitelist(w, data, uid, refused)
         IN  \/ v = w
             \/ \E i \in DOMAIN w :
                  /\ w[i].uid = uid /\ ~w[i].lost
                  /\ v = [w EXCEPT ![i] = array_push(w[i], data, refused)]
             \/ /\ ~HasEntry(w, uid)
                /\ v = Append(w, array_push(
                         array_with_capacity(ARRAY_DEFAULT_CAPACITY, uid), data, refused))
<1> DEFINE v == add_to_whitelist(w, data, uid, refused)
<1>1. CASE ~HasEntry(w, uid)
  BY <1>1 DEF add_to_whitelist
<1>2. CASE HasEntry(w, uid)
  <2>1. PICK i \in DOMAIN w : w[i].uid = uid
    BY <1>2 DEF HasEntry
  <2>2. FirstEntry(w, uid) = i /\ EntryOf(w, uid) = w[i]
    BY <2>1, EntryUnique DEF GoodList
  <2>3. Len(w) < MAX_SIZE_ARRAY \/ Len(w) >= MAX_SIZE_ARRAY
    BY UidTableAssumption DEF GoodList
  <2>4. CASE Len(w) >= MAX_SIZE_ARRAY \/ add_to_whitelist_faults(w, uid, refused)
    BY <2>4 DEF add_to_whitelist
  <2>5. CASE Len(w) < MAX_SIZE_ARRAY /\ ~add_to_whitelist_faults(w, uid, refused)
    <3>1. ~w[i].lost
      BY <1>2, <2>2, <2>5 DEF add_to_whitelist_faults
    <3>2. ~(Len(w) >= MAX_SIZE_ARRAY)
      BY <2>5, UidTableAssumption DEF GoodList
    <3>3. v = [w EXCEPT ![i] = array_push(w[i], data, refused)]
      BY <1>2, <2>2, <2>5, <3>2 DEF add_to_whitelist
    <3> QED  BY <2>1, <3>1, <3>3
  <2> QED  BY <2>3, <2>4, <2>5
<1> QED  BY <1>1, <1>2

\* The entry of a list that is good fits array_push, and so does a new one.
LEMMA PushableEntries ==
  /\ \A w, i : GoodList(w) /\ i \in DOMAIN w =>
       /\ w[i] \in Entry /\ w[i].capacity # 0 /\ Len(w[i].array) <= w[i].capacity
       /\ w[i].array # << >>
  /\ \A uid \in Uid :
       LET e == array_with_capacity(ARRAY_DEFAULT_CAPACITY, uid)
       IN  /\ e \in Entry /\ ~e.lost /\ e.uid = uid /\ e.array = << >>
           /\ e.capacity # 0 /\ Len(e.array) <= e.capacity
<1>1. ASSUME NEW w, GoodList(w), NEW i \in DOMAIN w
      PROVE  /\ w[i] \in Entry /\ w[i].capacity # 0 /\ Len(w[i].array) <= w[i].capacity
             /\ w[i].array # << >>
  <2>1. w[i] \in Entry /\ w[i].array # << >> /\ Len(w[i].array) <= w[i].capacity
    BY <1>1 DEF GoodList, OneEntryPerUid, WithinCapacity
  <2>2. Len(w[i].array) \in Nat \ {0}
    BY <2>1 DEF Entry
  <2> QED  BY <2>1, <2>2 DEF Entry
<1>2. ASSUME NEW uid \in Uid
      PROVE  LET e == array_with_capacity(ARRAY_DEFAULT_CAPACITY, uid)
             IN  /\ e \in Entry /\ ~e.lost /\ e.uid = uid /\ e.array = << >>
                 /\ e.capacity # 0 /\ Len(e.array) <= e.capacity
  BY WhitelistAssumption DEF array_with_capacity, Entry
<1> QED  BY <1>1, <1>2

\* Elements of a record of strings: what is stored, by entry.
Elements(e) == {e.array[k] : k \in DOMAIN e.array}

\* What a lookup finds for a uid is what the entry of the uid holds.
LEMMA StoredIs ==
  ASSUME NEW w, GoodList(w), NEW i \in DOMAIN w
  PROVE  /\ Stored(w, w[i].uid) = Elements(w[i])
         /\ Lost(w, w[i].uid) <=> w[i].lost
BY EntryUnique DEF GoodList, Stored, Lost, Elements

\* What a lookup finds for a uid without an entry.
LEMMA StoredNothing ==
  ASSUME NEW w, NEW u, ~HasEntry(w, u)
  PROVE  Stored(w, u) = {} /\ ~Lost(w, u)
BY DEF Stored, Lost

\* What a lookup finds are strings, and it finds one wherever there is an entry.
LEMMA StoredIsData ==
  ASSUME NEW w, GoodList(w), NEW u
  PROVE  Stored(w, u) \subseteq Data /\ (HasEntry(w, u) => Stored(w, u) # {})
<1>1. CASE HasEntry(w, u)
  <2>1. PICK i \in DOMAIN w : w[i].uid = u
    BY <1>1 DEF HasEntry
  <2>2. Stored(w, u) = Elements(w[i])
    BY <2>1, StoredIs
  <2>3. w[i] \in Entry /\ w[i].array # << >>
    BY PushableEntries
  <2>4. w[i].array \in Seq(Data) /\ 1 \in DOMAIN w[i].array
    BY <2>3 DEF Entry
  <2>5. \A k \in DOMAIN w[i].array : w[i].array[k] \in Data
    BY <2>4
  <2>6. Elements(w[i]) \subseteq Data /\ Elements(w[i]) # {}
    BY <2>4, <2>5 DEF Elements
  <2> QED  BY <2>2, <2>6
<1>2. CASE ~HasEntry(w, u)
  BY <1>2, StoredNothing
<1> QED  BY <1>1, <1>2

\* Appending a string to an entry adds it to what the entry holds.
LEMMA AppendElements ==
  ASSUME NEW e \in Entry, NEW f \in Entry, NEW data \in Data,
         f.array = Append(e.array, data)
  PROVE  Elements(f) = Elements(e) \cup {data}
<1>1. e.array \in Seq(Data)
  BY DEF Entry
<1>2. DOMAIN f.array = DOMAIN e.array \cup {Len(e.array) + 1}
  BY <1>1
<1>3. f.array[Len(e.array) + 1] = data
  BY <1>1
<1>4. \A k \in DOMAIN e.array : f.array[k] = e.array[k]
  BY <1>1
<1> QED  BY <1>2, <1>3, <1>4 DEF Elements

\* A push keeps a list good, changes nothing for the other uids, and for its
\* own adds the string or loses the storage.
LEMMA PushOnEntry ==
  ASSUME NEW w, GoodList(w), NEW i \in DOMAIN w, ~w[i].lost, NEW data \in Data, NEW refused
  PROVE  LET v == [w EXCEPT ![i] = array_push(w[i], data, refused)]
         IN  /\ GoodList(v)
             /\ \A u : u # w[i].uid => Stored(v, u) = Stored(w, u) /\ (Lost(v, u) <=> Lost(w, u))
             /\ \/ /\ Stored(v, w[i].uid) = Stored(w, w[i].uid) \cup {data}
                   /\ ~Lost(v, w[i].uid) /\ ~Lost(w, w[i].uid)
                \/ /\ Stored(v, w[i].uid) = Stored(w, w[i].uid)
                   /\ Stored(w, w[i].uid) # {} /\ Lost(v, w[i].uid)
<1> DEFINE f == array_push(w[i], data, refused)
           v == [w EXCEPT ![i] = f]
<1>1. /\ w[i] \in Entry /\ w[i].capacity # 0 /\ Len(w[i].array) <= w[i].capacity
      /\ w[i].array # << >>
  BY PushableEntries
<1>2. /\ f \in Entry /\ f.uid = w[i].uid /\ WithinCapacity(f)
      /\ \/ f.array = Append(w[i].array, data) /\ ~f.lost
         \/ f.array = w[i].array /\ f.array # << >> /\ f.lost
  BY <1>1, PushFacts
<1>3. w \in Seq(Entry)
  BY DEF GoodList
<1>4. v \in Seq(Entry) /\ DOMAIN v = DOMAIN w
  BY <1>2, <1>3
<1>5. v[i] = f /\ \A j \in DOMAIN w : j # i => v[j] = w[j]
  BY <1>3
<1>6. \A j \in DOMAIN w : v[j].uid = w[j].uid
  BY <1>2, <1>5
<1>7. f.array # << >>
  BY <1>1, <1>2 DEF Entry
<1>8. GoodList(v)
  <2>1. OneEntryPerUid(v)
    BY <1>4, <1>5, <1>6, <1>7 DEF OneEntryPerUid, GoodList
  <2>2. \A j \in DOMAIN v : WithinCapacity(v[j])
    BY <1>2, <1>4, <1>5 DEF GoodList
  <2> QED  BY <1>4, <2>1, <2>2 DEF GoodList
<1>9. ASSUME NEW u, u # w[i].uid
      PROVE  Stored(v, u) = Stored(w, u) /\ (Lost(v, u) <=> Lost(w, u))
  <2>1. CASE \E j \in DOMAIN w : w[j].uid = u
    <3>1. PICK j \in DOMAIN w : w[j].uid = u
      BY <2>1
    <3>2. j # i /\ v[j] = w[j] /\ j \in DOMAIN v
      BY <1>4, <1>5, <1>9, <3>1
    <3> QED  BY <1>8, <3>1, <3>2, StoredIs
  <2>2. CASE ~ \E j \in DOMAIN w : w[j].uid = u
    <3>1. ~HasEntry(w, u) /\ ~HasEntry(v, u)
      BY <1>4, <1>6, <2>2 DEF HasEntry
    <3> QED  BY <3>1, StoredNothing
  <2> QED  BY <2>1, <2>2
<1>10. /\ Stored(w, w[i].uid) = Elements(w[i]) /\ ~Lost(w, w[i].uid)
       /\ Stored(v, w[i].uid) = Elements(f) /\ (Lost(v, w[i].uid) <=> f.lost)
  <2>1. v[i].uid = w[i].uid /\ i \in DOMAIN v
    BY <1>4, <1>6
  <2>2. Stored(v, w[i].uid) = Elements(v[i]) /\ (Lost(v, w[i].uid) <=> v[i].lost)
    BY <1>8, <2>1, StoredIs
  <2> QED  BY <1>5, <2>2, StoredIs
<1>11. Elements(w[i]) # {}
  <2>1. 1 \in DOMAIN w[i].array
    BY <1>1 DEF Entry
  <2> QED  BY <2>1 DEF Elements
<1>12. CASE f.array = Append(w[i].array, data) /\ ~f.lost
  <2>1. Elements(f) = Elements(w[i]) \cup {data}
    BY <1>1, <1>2, <1>12, AppendElements
  <2>2. /\ Stored(v, w[i].uid) = Stored(w, w[i].uid) \cup {data}
        /\ ~Lost(v, w[i].uid) /\ ~Lost(w, w[i].uid)
    BY <1>10, <1>12, <2>1
  <2> QED  BY <1>8, <1>9, <2>2
<1>13. CASE f.array = w[i].array /\ f.lost
  <2>1. Elements(f) = Elements(w[i])
    BY <1>13 DEF Elements
  <2>2. /\ Stored(v, w[i].uid) = Stored(w, w[i].uid)
        /\ Stored(w, w[i].uid) # {} /\ Lost(v, w[i].uid)
    BY <1>10, <1>11, <1>13, <2>1
  <2> QED  BY <1>8, <1>9, <2>2
<1> QED  BY <1>2, <1>12, <1>13

\* A first entry keeps a list good, changes nothing for the other uids, and
\* holds the string of its own.
LEMMA FirstEntryAdded ==
  ASSUME NEW w, GoodList(w), NEW uid \in Uid, ~HasEntry(w, uid), NEW data \in Data, NEW refused
  PROVE  LET v == Append(w, array_push(
                    array_with_capacity(ARRAY_DEFAULT_CAPACITY, uid), data, refused))
         IN  /\ GoodList(v)
             /\ \A u : u # uid => Stored(v, u) = Stored(w, u) /\ (Lost(v, u) <=> Lost(w, u))
             /\ Stored(v, uid) = {data} /\ ~Lost(v, uid)
             /\ Stored(w, uid) = {} /\ ~Lost(w, uid)
<1> DEFINE e == array_with_capacity(ARRAY_DEFAULT_CAPACITY, uid)
           f == array_push(e, data, refused)
           v == Append(w, f)
           n == Len(w) + 1
<1>1. /\ e \in Entry /\ ~e.lost /\ e.uid = uid /\ e.array = << >>
      /\ e.capacity # 0 /\ Len(e.array) <= e.capacity
  BY PushableEntries
<1>2. /\ f \in Entry /\ f.uid = uid /\ WithinCapacity(f)
      /\ f.array = Append(e.array, data) /\ ~f.lost
  BY <1>1, PushFacts
<1>3. w \in Seq(Entry)
  BY DEF GoodList
<1>4. v \in Seq(Entry) /\ DOMAIN v = DOMAIN w \cup {n} /\ n \notin DOMAIN w
  BY <1>2, <1>3
<1>5. v[n] = f /\ \A j \in DOMAIN w : v[j] = w[j]
  BY <1>2, <1>3
<1>6. f.array # << >> /\ Elements(f) = {data}
  <2>1. f.array = <<data>>
    BY <1>1, <1>2
  <2> QED  BY <2>1 DEF Elements
<1>7. \A j \in DOMAIN w : w[j].uid # uid
  BY DEF HasEntry
<1>8. GoodList(v)
  <2>1. OneEntryPerUid(v)
    BY <1>2, <1>4, <1>5, <1>6, <1>7 DEF OneEntryPerUid, GoodList
  <2>2. \A j \in DOMAIN v : WithinCapacity(v[j])
    BY <1>2, <1>4, <1>5 DEF GoodList
  <2> QED  BY <1>4, <2>1, <2>2 DEF GoodList
<1>9. ASSUME NEW u, u # uid
      PROVE  Stored(v, u) = Stored(w, u) /\ (Lost(v, u) <=> Lost(w, u))
  <2>1. CASE \E j \in DOMAIN w : w[j].uid = u
    <3>1. PICK j \in DOMAIN w : w[j].uid = u
      BY <2>1
    <3>2. v[j] = w[j] /\ j \in DOMAIN v
      BY <1>4, <1>5, <3>1
    <3> QED  BY <1>8, <3>1, <3>2, StoredIs
  <2>2. CASE ~ \E j \in DOMAIN w : w[j].uid = u
    <3>1. ~HasEntry(w, u) /\ ~HasEntry(v, u)
      BY <1>2, <1>4, <1>5, <1>9, <2>2 DEF HasEntry
    <3> QED  BY <3>1, StoredNothing
  <2> QED  BY <2>1, <2>2
<1>10. Stored(v, uid) = {data} /\ ~Lost(v, uid)
  <2>1. n \in DOMAIN v /\ v[n].uid = uid
    BY <1>2, <1>4, <1>5
  <2>2. Stored(v, uid) = Elements(v[n]) /\ (Lost(v, uid) <=> v[n].lost)
    BY <1>8, <2>1, StoredIs
  <2> QED  BY <1>2, <1>5, <1>6, <2>2
<1> QED  BY <1>8, <1>9, <1>10, StoredNothing

\* add_to_whitelist keeps a list good, whatever it is refused; it changes
\* nothing for other uids, and for its own nothing, or it adds the string, or
\* it loses the storage of what was there.
LEMMA AddToWhitelistFacts ==
  ASSUME NEW w, GoodList(w), NEW data \in Data, NEW uid \in Uid, NEW refused
  PROVE  LET v == add_to_whitelist(w, data, uid, refused)
         IN  /\ GoodList(v)
             /\ \A u : u # uid => Stored(v, u) = Stored(w, u) /\ (Lost(v, u) <=> Lost(w, u))
             /\ \/ Stored(v, uid) = Stored(w, uid) /\ (Lost(v, uid) <=> Lost(w, uid))
                \/ /\ Stored(v, uid) = Stored(w, uid) \cup {data}
                   /\ (Lost(v, uid) <=> Lost(w, uid))
                \/ /\ Stored(v, uid) = Stored(w, uid) /\ Stored(w, uid) # {}
                   /\ Lost(v, uid)
<1> DEFINE v == add_to_whitelist(w, data, uid, refused)
<1>1. CASE v = w
  BY <1>1
<1>2. CASE \E i \in DOMAIN w : /\ w[i].uid = uid /\ ~w[i].lost
                              /\ v = [w EXCEPT ![i] = array_push(w[i], data, refused)]
  <2>1. PICK i \in DOMAIN w : /\ w[i].uid = uid /\ ~w[i].lost
                             /\ v = [w EXCEPT ![i] = array_push(w[i], data, refused)]
    BY <1>2
  <2> DEFINE x == [w EXCEPT ![i] = array_push(w[i], data, refused)]
  <2>2. /\ GoodList(x)
        /\ \A u : u # w[i].uid => Stored(x, u) = Stored(w, u) /\ (Lost(x, u) <=> Lost(w, u))
        /\ \/ /\ Stored(x, w[i].uid) = Stored(w, w[i].uid) \cup {data}
              /\ ~Lost(x, w[i].uid) /\ ~Lost(w, w[i].uid)
           \/ /\ Stored(x, w[i].uid) = Stored(w, w[i].uid)
              /\ Stored(w, w[i].uid) # {} /\ Lost(x, w[i].uid)
    BY <2>1, PushOnEntry
  <2>3. v = x /\ w[i].uid = uid
    BY <2>1
  <2> HIDE DEF x, v
  <2>4. CASE /\ Stored(x, w[i].uid) = Stored(w, w[i].uid) \cup {data}
             /\ ~Lost(x, w[i].uid) /\ ~Lost(w, w[i].uid)
    BY <2>2, <2>3, <2>4 DEF v
  <2>5. CASE /\ Stored(x, w[i].uid) = Stored(w, w[i].uid)
             /\ Stored(w, w[i].uid) # {} /\ Lost(x, w[i].uid)
    BY <2>2, <2>3, <2>5 DEF v
  <2> QED  BY <2>2, <2>4, <2>5
<1>3. CASE /\ ~HasEntry(w, uid)
           /\ v = Append(w, array_push(
                    array_with_capacity(ARRAY_DEFAULT_CAPACITY, uid), data, refused))
  BY <1>3, FirstEntryAdded
<1> QED  BY <1>1, <1>2, <1>3, AddCases

=============================================================================
