------------------------------ MODULE SafeCopy ------------------------------
(***************************************************************************)
(* safe_copy_from_user: the copy of a string of user space that a hook     *)
(* takes its decision on.                                                  *)
(*                                                                         *)
(* Of the string only its length matters, and whether the pointer is NULL  *)
(* or leads to memory that cannot be read.  Of the copy: the characters in *)
(* it, the bytes it has room for, and whether a NUL follows the characters.*)
(***************************************************************************)
EXTENDS Integers

UserString == [pointer : {"null", "bad", "good"}, length : Nat]

Copy == [chars : Nat, room : Nat, terminated : BOOLEAN]
NoCopy == [chars |-> 0, room |-> 0, terminated |-> FALSE]

\* The length without the NUL if one is among the first max_size bytes, else
\* max_size.
strncpy_from_user(src, max_size) ==
  IF src.length < max_size THEN src.length ELSE max_size

\* Faulty variant: gives the last byte of the string away.
safe_copy_from_user_tight(src, max_size) ==
  LET copied_len == strncpy_from_user(src, max_size)
  IN  {NoCopy} \cup
        (IF src.pointer = "good" /\ copied_len > 0
           THEN {[chars |-> copied_len, room |-> copied_len, terminated |-> FALSE]}
           ELSE {})

\* What the function may return.  NULL is always possible (no memory), and it
\* is what an empty string gives.  Only a string that filled the buffer is
\* moved to a larger one; what lies behind it there is undefined.
safe_copy_from_user(src, max_size) ==
  LET copied_len == strncpy_from_user(src, max_size)
      dest(room, terminated) ==
        [chars |-> copied_len, room |-> room, terminated |-> terminated]
  IN  {NoCopy} \cup
        (IF src.pointer # "good" \/ copied_len <= 0 THEN {}
         ELSE IF copied_len = max_size - 1 THEN {dest(max_size, TRUE)}
         ELSE {dest(copied_len + 1, t) :
                 t \in IF copied_len < max_size THEN {TRUE} ELSE BOOLEAN})

\* What freezer_hook_utils.h says of the result: "a pointer that has the exact
\* size of the __user string, and is terminated".
Exact(copy, src) ==
  copy = [chars |-> src.length, room |-> src.length + 1, terminated |-> TRUE]

=============================================================================
