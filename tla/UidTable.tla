------------------------------ MODULE UidTable ------------------------------
(***************************************************************************)
(* The lock tables of the freezer kernel module, one value at a time.      *)
(*                                                                         *)
(* freezer_hook.c keeps, for each of the four resources, a static array    *)
(* `int xxx_uid_array[MAX_SIZE_ARRAY]' and the number of its slots in use  *)
(* `current_xxx_index'.  A table is that pair.  Slots at and after the     *)
(* index keep whatever was last stored in them; a slot that was never      *)
(* written holds 0, the uid of root, because the arrays are static.        *)
(*                                                                         *)
(* The operators give the result of a call that nothing disturbs; module   *)
(* UidTableSmp runs the same functions one memory access at a time.        *)
(***************************************************************************)
EXTENDS Integers

CONSTANTS
  Uid,              \* user ids a command or a system call may carry
  Root,             \* uid 0, also the content of a slot never written
  MAX_SIZE_ARRAY    \* slots of each table (1024 in array.h)

ASSUME UidTableAssumption ==
  /\ Root \in Uid
  /\ MAX_SIZE_ARRAY \in Nat \ {0}

Slot == 0 .. MAX_SIZE_ARRAY - 1

Table == [array : [Slot -> Uid], index : 0 .. MAX_SIZE_ARRAY]

EmptyTable == [array |-> [i \in Slot |-> Root], index |-> 0]

\* The slots the functions look at, the uids in them, and the full table.
InUse(t) == 0 .. t.index - 1
Members(t) == {t.array[i] : i \in InUse(t)}
Full(t) == t.index >= MAX_SIZE_ARRAY

\* No uid occupies two slots in use.
NoDuplicate(t) == \A i, j \in InUse(t) : t.array[i] = t.array[j] => i = j

\* The slot the search loops stop at: the first one in use that holds uid.
FirstSlot(t, uid) ==
  CHOOSE i \in InUse(t) :
    t.array[i] = uid /\ \A j \in 0 .. i - 1 : t.array[j] # uid

-----------------------------------------------------------------------------

is_hooked_user(t, uid) == \E i \in InUse(t) : t.array[i] = uid

\* Faulty variants, here and in the other modules: each differs from the
\* operator it is named after in one detail, and the properties tell them
\* apart.  No specification uses them.
add_uid_to_array_no_limit(t, uid) ==
  IF is_hooked_user(t, uid)
    THEN t
    ELSE [array |-> [t.array EXCEPT ![t.index] = uid], index |-> t.index + 1]

add_uid_to_array_no_search(t, uid) ==
  IF Full(t)
    THEN t
    ELSE [array |-> [t.array EXCEPT ![t.index] = uid], index |-> t.index + 1]

remove_uid_from_array_no_move(t, uid) ==
  IF Full(t) \/ ~is_hooked_user(t, uid)
    THEN t
    ELSE [t EXCEPT !.index = t.index - 1]

\* Silently refused when the table is full or the uid already there.
add_uid_to_array(t, uid) ==
  IF Full(t) \/ is_hooked_user(t, uid)
    THEN t
    ELSE [array |-> [t.array EXCEPT ![t.index] = uid], index |-> t.index + 1]

\* The slots after the removed one move down by one; the last one in use
\* before the call is left as it was.  Silently refused when the table is full.
remove_uid_from_array(t, uid) ==
  IF Full(t) \/ ~is_hooked_user(t, uid)
    THEN t
    ELSE LET hole == FirstSlot(t, uid)
             last == t.index - 1
         IN  [array |-> [i \in Slot |-> IF i \in hole .. last - 1
                                          THEN t.array[i + 1]
                                          ELSE t.array[i]],
              index |-> last]

=============================================================================
