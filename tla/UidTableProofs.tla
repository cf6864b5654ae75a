--------------------------- MODULE UidTableProofs ---------------------------
(***************************************************************************)
(* What add_uid_to_array and remove_uid_from_array do to a table, proved   *)
(* for every table size and every set of uids.                             *)
(***************************************************************************)
EXTENDS UidTable, TLAPS

\* The static arrays start as a table without duplicates and without members.
LEMMA EmptyTableFacts ==
  /\ EmptyTable \in Table
  /\ NoDuplicate(EmptyTable)
  /\ \A v : ~is_hooked_user(EmptyTable, v)
BY UidTableAssumption
   DEF EmptyTable, Table, Slot, NoDuplicate, InUse, is_hooked_user

\* The slots in use are slots of the array.
LEMMA InUseIsSlot ==
  ASSUME NEW t \in Table
  PROVE  /\ InUse(t) \subseteq Slot
         /\ t.index \in Nat
         /\ ~Full(t) => t.index \in Slot
BY UidTableAssumption DEF Table, InUse, Slot, Full

\* add_uid_to_array returns a table, for every table and uid.
LEMMA AddType ==
  ASSUME NEW t \in Table, NEW uid \in Uid
  PROVE  add_uid_to_array(t, uid) \in Table
<1>1. CASE Full(t) \/ is_hooked_user(t, uid)
  BY <1>1 DEF add_uid_to_array
<1>2. CASE ~Full(t) /\ ~is_hooked_user(t, uid)
  <2>1. t.index + 1 \in 0 .. MAX_SIZE_ARRAY
    BY <1>2, UidTableAssumption DEF Table, Full
  <2>2. [t.array EXCEPT ![t.index] = uid] \in [Slot -> Uid]
    BY DEF Table
  <2> QED  BY <1>2, <2>1, <2>2 DEF add_uid_to_array, Table
<1> QED  BY <1>1, <1>2

\* The members after add_uid_to_array are those before and the uid, unless
\* the table is full.
LEMMA AddMembers ==
  ASSUME NEW t \in Table, NEW uid \in Uid, NEW v
  PROVE  is_hooked_user(add_uid_to_array(t, uid), v)
           <=> is_hooked_user(t, v) \/ (v = uid /\ ~Full(t))
<1> DEFINE s == add_uid_to_array(t, uid)
<1>1. CASE Full(t) \/ is_hooked_user(t, uid)
  <2>1. s = t
    BY <1>1 DEF add_uid_to_array
  <2> QED  BY <1>1, <2>1
<1>2. CASE ~Full(t) /\ ~is_hooked_user(t, uid)
  <2>1. s = [array |-> [t.array EXCEPT ![t.index] = uid], index |-> t.index + 1]
    BY <1>2 DEF add_uid_to_array
  <2>2. InUse(s) = InUse(t) \cup {t.index} /\ t.index \notin InUse(t)
    BY <2>1, InUseIsSlot DEF InUse
  <2>3. s.array[t.index] = uid
    BY <1>2, <2>1, InUseIsSlot DEF Table
  <2>4. \A i \in InUse(t) : s.array[i] = t.array[i]
    BY <2>1, <2>2, InUseIsSlot DEF Table
  <2> QED  BY <1>2, <2>2, <2>3, <2>4 DEF is_hooked_user
<1> QED  BY <1>1, <1>2

\* add_uid_to_array gives no uid a second slot.
LEMMA AddNoDuplicate ==
  ASSUME NEW t \in Table, NEW uid \in Uid, NoDuplicate(t)
  PROVE  NoDuplicate(add_uid_to_array(t, uid))
<1> DEFINE s == add_uid_to_array(t, uid)
<1>1. CASE Full(t) \/ is_hooked_user(t, uid)
  BY <1>1 DEF add_uid_to_array
<1>2. CASE ~Full(t) /\ ~is_hooked_user(t, uid)
  <2>1. s = [array |-> [t.array EXCEPT ![t.index] = uid], index |-> t.index + 1]
    BY <1>2 DEF add_uid_to_array
  <2>2. InUse(s) = InUse(t) \cup {t.index} /\ t.index \notin InUse(t)
    BY <2>1, InUseIsSlot DEF InUse
  <2>3. s.array[t.index] = uid
    BY <1>2, <2>1, InUseIsSlot DEF Table
  <2>4. \A i \in InUse(t) : s.array[i] = t.array[i] /\ t.array[i] # uid
    BY <1>2, <2>1, <2>2, InUseIsSlot DEF Table, is_hooked_user
  <2> QED  BY <2>2, <2>3, <2>4 DEF NoDuplicate
<1> QED  BY <1>1, <1>2

\* Without duplicates the search of remove_uid_from_array stops at the slot
\* of the uid.
LEMMA FirstSlotUnique ==
  ASSUME NEW t \in Table, NoDuplicate(t), NEW i \in InUse(t)
  PROVE  FirstSlot(t, t.array[i]) = i
<1>1. \A j \in 0 .. i - 1 : j \in InUse(t) /\ j # i
  BY InUseIsSlot DEF InUse
<1>2. \A j \in 0 .. i - 1 : t.array[j] # t.array[i]
  BY <1>1 DEF NoDuplicate
<1>3. \A k \in InUse(t) : t.array[k] = t.array[i] => k = i
  BY DEF NoDuplicate
<1> QED  BY <1>2, <1>3 DEF FirstSlot

\* remove_uid_from_array when it has something to remove: the slots in use
\* afterwards hold what they held, moved down by one from the hole on.
LEMMA RemoveShape ==
  ASSUME NEW t \in Table, NoDuplicate(t), NEW i \in InUse(t), ~Full(t)
  PROVE  LET s == remove_uid_from_array(t, t.array[i])
         IN  /\ s \in Table
             /\ InUse(s) = 0 .. t.index - 2
             /\ \A k \in InUse(s) :
                  s.array[k] = t.array[IF k < i THEN k ELSE k + 1]
<1> DEFINE s == remove_uid_from_array(t, t.array[i])
           moved == [k \in Slot |-> IF k \in i .. t.index - 2
                                      THEN t.array[k + 1] ELSE t.array[k]]
<1>1. FirstSlot(t, t.array[i]) = i
  BY FirstSlotUnique
<1>2. is_hooked_user(t, t.array[i])
  BY DEF is_hooked_user
<1>3. t.index - 1 - 1 = t.index - 2
  BY InUseIsSlot
<1>4. s = [array |-> moved, index |-> t.index - 1]
  BY <1>1, <1>2, <1>3 DEF remove_uid_from_array
<1>5. t.index \in 1 .. MAX_SIZE_ARRAY - 1 /\ i \in 0 .. t.index - 1
  BY UidTableAssumption DEF InUse, Table, Full
<1>6. moved \in [Slot -> Uid]
  <2>1. \A k \in i .. t.index - 2 : k + 1 \in Slot
    BY <1>5, UidTableAssumption DEF Slot
  <2> QED  BY <2>1 DEF Table
<1>7. s \in Table
  BY <1>4, <1>5, <1>6, UidTableAssumption DEF Table
<1>8. InUse(s) = 0 .. t.index - 2
  BY <1>3, <1>4, <1>5 DEF InUse
<1>9. \A k \in 0 .. t.index - 2 :
        k \in Slot /\ (k \in i .. t.index - 2 <=> ~(k < i))
  BY <1>5, UidTableAssumption DEF Slot
<1>10. \A k \in InUse(s) : s.array[k] = t.array[IF k < i THEN k ELSE k + 1]
  BY <1>4, <1>8, <1>9
<1> QED  BY <1>7, <1>8, <1>10

\* remove_uid_from_array returns a table without duplicates.
LEMMA RemoveType ==
  ASSUME NEW t \in Table, NoDuplicate(t), NEW uid
  PROVE  /\ remove_uid_from_array(t, uid) \in Table
         /\ NoDuplicate(remove_uid_from_array(t, uid))
<1> DEFINE s == remove_uid_from_array(t, uid)
<1>1. CASE Full(t) \/ ~is_hooked_user(t, uid)
  BY <1>1 DEF remove_uid_from_array
<1>2. CASE ~Full(t) /\ is_hooked_user(t, uid)
  <2>1. PICK i \in InUse(t) : t.array[i] = uid
    BY <1>2 DEF is_hooked_user
  <2>2. /\ s \in Table
        /\ InUse(s) = 0 .. t.index - 2
        /\ \A k \in InUse(s) : s.array[k] = t.array[IF k < i THEN k ELSE k + 1]
    BY <1>2, <2>1, RemoveShape
  <2>3. ASSUME NEW k \in InUse(s), NEW l \in InUse(s), s.array[k] = s.array[l]
        PROVE  k = l
    <3> DEFINE from(m) == IF m < i THEN m ELSE m + 1
    <3>1. from(k) \in InUse(t) /\ from(l) \in InUse(t)
      BY <2>2, InUseIsSlot DEF InUse
    <3>2. from(k) = from(l)
      BY <2>2, <2>3, <3>1 DEF NoDuplicate
    <3> QED  BY <2>2, <3>2, InUseIsSlot DEF InUse
  <2> QED  BY <2>2, <2>3 DEF NoDuplicate
<1> QED  BY <1>1, <1>2

\* The members after remove_uid_from_array are those before without the uid,
\* unless the table is full.
LEMMA RemoveMembers ==
  ASSUME NEW t \in Table, NoDuplicate(t), NEW uid, NEW v
  PROVE  is_hooked_user(remove_uid_from_array(t, uid), v)
           <=> is_hooked_user(t, v) /\ (v # uid \/ Full(t))
<1> DEFINE s == remove_uid_from_array(t, uid)
<1>1. CASE Full(t) \/ ~is_hooked_user(t, uid)
  <2>1. s = t
    BY <1>1 DEF remove_uid_from_array
  <2> QED  BY <1>1, <2>1
<1>2. CASE ~Full(t) /\ is_hooked_user(t, uid)
  <2>1. PICK i \in InUse(t) : t.array[i] = uid
    BY <1>2 DEF is_hooked_user
  <2>2. /\ InUse(s) = 0 .. t.index - 2
        /\ \A k \in InUse(s) : s.array[k] = t.array[IF k < i THEN k ELSE k + 1]
    BY <1>2, <2>1, RemoveShape
  <2>3. ASSUME is_hooked_user(s, v)
        PROVE  is_hooked_user(t, v) /\ v # uid
    <3>1. PICK k \in InUse(s) : s.array[k] = v
      BY <2>3 DEF is_hooked_user
    <3> DEFINE j == IF k < i THEN k ELSE k + 1
    <3>2. k \in 0 .. t.index - 2 /\ i \in 0 .. t.index - 1
      BY <2>2 DEF InUse
    <3>3. j \in 0 .. t.index - 1 /\ j # i
      BY <3>2, InUseIsSlot
    <3>4. j \in InUse(t)
      BY <3>3 DEF InUse
    <3>5. t.array[j] = v
      BY <2>2, <3>1
    <3> QED  BY <2>1, <3>3, <3>4, <3>5 DEF is_hooked_user, NoDuplicate
  <2>4. ASSUME is_hooked_user(t, v), v # uid
        PROVE  is_hooked_user(s, v)
    <3>1. PICK j \in InUse(t) : t.array[j] = v
      BY <2>4 DEF is_hooked_user
    <3> DEFINE k == IF j < i THEN j ELSE j - 1
    <3>2. j \in 0 .. t.index - 1 /\ i \in 0 .. t.index - 1 /\ j # i
      BY <2>1, <2>4, <3>1 DEF InUse
    <3>3. k \in 0 .. t.index - 2 /\ (IF k < i THEN k ELSE k + 1) = j
      BY <3>2, InUseIsSlot
    <3>4. k \in InUse(s)
      BY <2>2, <3>3
    <3> QED  BY <2>2, <3>1, <3>3, <3>4 DEF is_hooked_user
  <2> QED  BY <1>2, <2>3, <2>4
<1> QED  BY <1>1, <1>2

=============================================================================
