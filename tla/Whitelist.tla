----------------------------- MODULE Whitelist ------------------------------
(***************************************************************************)
(* The whitelists of the freezer kernel module, one value at a time.       *)
(*                                                                         *)
(* freezer_hook.c keeps, for files, processes and the network, an array of *)
(* pointers to `struct array_uid': the uid and a growing Array (array.c)   *)
(* of the strings this uid may still use while it is frozen.  Entries are  *)
(* only ever appended, so the pointers in use are a sequence.              *)
(*                                                                         *)
(* An entry records the strings pushed, the capacity of its Array, and     *)
(* whether a failed krealloc has left the Array without its storage: its   *)
(* size still counts the strings, but reading or pushing follows NULL.     *)
(*                                                                         *)
(* Strings are abstract; the only question the code asks of two of them is *)
(* whether the first is a prefix of the second (strncmp bounded by strlen  *)
(* of the first).                                                          *)
(***************************************************************************)
EXTENDS UidTable, Sequences

CONSTANTS
  Data,                    \* paths, program names and addresses
  NoData,                  \* the NULL pointer in place of a string
  PrefixOf,                \* <<d, e>> : string d is a prefix of string e
  ARRAY_DEFAULT_CAPACITY   \* first capacity of an Array (10 in array.h)

ASSUME WhitelistAssumption ==
  /\ NoData \notin Data
  /\ PrefixOf \subseteq Data \X Data
  /\ \A d \in Data : <<d, d>> \in PrefixOf
  /\ ARRAY_DEFAULT_CAPACITY \in Nat \ {0}

Entry == [uid : Uid, array : Seq(Data), capacity : Nat, lost : BOOLEAN]

\* The allocations of add_to_whitelist that may fail: the struct array_uid, and
\* the Array with its storage (kzalloc for a new one, krealloc for a full one).
WhitelistAllocation == {"entry", "array"}

HasEntry(w, uid) == \E i \in DOMAIN w : w[i].uid = uid

\* The entry the search loops stop at.
FirstEntry(w, uid) ==
  CHOOSE i \in DOMAIN w :
    w[i].uid = uid /\ \A j \in 1 .. i - 1 : w[j].uid # uid

EntryOf(w, uid) == w[FirstEntry(w, uid)]

\* What a lookup for uid can find, and whether it would follow NULL.
Stored(w, uid) ==
  IF HasEntry(w, uid)
    THEN {EntryOf(w, uid).array[k] : k \in DOMAIN EntryOf(w, uid).array}
    ELSE {}
Lost(w, uid) == HasEntry(w, uid) /\ EntryOf(w, uid).lost

\* No uid has two entries, and no entry is empty.
OneEntryPerUid(w) ==
  /\ \A i, j \in DOMAIN w : w[i].uid = w[j].uid => i = j
  /\ \A i \in DOMAIN w : w[i].array # << >>

\* The strings fit the storage.
WithinCapacity(e) ==
  /\ Len(e.array) <= e.capacity
  /\ e.lost => Len(e.array) < e.capacity

-----------------------------------------------------------------------------

array_with_capacity(capacity, uid) ==
  [uid |-> uid, array |-> << >>, capacity |-> capacity, lost |-> FALSE]

\* Faulty variant: grows one push too late.
array_push_late_growth(e, data, refused) ==
  IF Len(e.array) <= e.capacity
    THEN [e EXCEPT !.array = Append(e.array, data)]
    ELSE [e EXCEPT !.capacity = 2 * e.capacity, !.array = Append(e.array, data)]

\* array_push on the Array of entry e.  The capacity is doubled before the
\* result of krealloc is looked at.  Follows NULL when e.lost already holds.
array_push(e, data, refused) ==
  IF Len(e.array) # e.capacity
    THEN [e EXCEPT !.array = Append(e.array, data)]
    ELSE IF "array" \in refused
           THEN [e EXCEPT !.capacity = 2 * e.capacity, !.lost = TRUE]
           ELSE [e EXCEPT !.capacity = 2 * e.capacity,
                          !.array = Append(e.array, data)]

\* The calls of add_to_whitelist that follow a NULL pointer: a push on an
\* Array without storage, or on the NULL that array_new returned.
add_to_whitelist_faults(w, uid, refused) ==
  /\ Len(w) < MAX_SIZE_ARRAY
  /\ IF HasEntry(w, uid)
       THEN EntryOf(w, uid).lost
       ELSE "entry" \notin refused /\ "array" \in refused

\* Faulty variant: never looks for the entry of the uid.
add_to_whitelist_no_search(w, data, uid, refused) ==
  IF Len(w) >= MAX_SIZE_ARRAY \/ refused # {}
    THEN w
    ELSE Append(w, array_push(
           array_with_capacity(ARRAY_DEFAULT_CAPACITY, uid), data, refused))

\* A full list is refused even to a uid that has its entry already.
add_to_whitelist(w, data, uid, refused) ==
  IF \/ Len(w) >= MAX_SIZE_ARRAY
     \/ add_to_whitelist_faults(w, uid, refused)
     \/ ~HasEntry(w, uid) /\ "entry" \in refused
    THEN w
    ELSE IF HasEntry(w, uid)
           THEN [w EXCEPT ![FirstEntry(w, uid)] = array_push(@, data, refused)]
           ELSE Append(w, array_push(
                  array_with_capacity(ARRAY_DEFAULT_CAPACITY, uid), data, refused))

\* The lookups that follow a NULL pointer: no storage, or no string to look
\* for (strlen of the NULL path name of hooked_write).
lookup_faults(w, data, uid) ==
  HasEntry(w, uid) /\ (Lost(w, uid) \/ data = NoData)

\* A string is found when it is a PREFIX of one on the list.
resource_data_is_in_whitelist(w, data, uid) ==
  \E d \in Stored(w, uid) : <<data, d>> \in PrefixOf

=============================================================================
