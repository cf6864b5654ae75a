----------------------------- MODULE CartoArray -----------------------------
(***************************************************************************)
(* The growing arrays of carto (src/carto/src/utils.c): pointers pushed    *)
(* one after the other into a block that doubles when it is full.  An      *)
(* array is the sequence of its cells and the capacity of its block; the   *)
(* size field of the code is Len(cells).                                   *)
(*                                                                         *)
(* malloc and reallocarray may fail, and neither failure is noticed:       *)
(* array_with_capacity does not test its result, and xreallocarray tests   *)
(* the old pointer instead of the new one.  Pushing then writes through a  *)
(* null pointer, which the caller of these operators models (see           *)
(* Carto!growth_fails).                                                    *)
(***************************************************************************)
EXTENDS Integers, Sequences

CONSTANT ARRAY_DEFAULT_CAPACITY      \* 10 in the code

ASSUME CapacityAssumption == ARRAY_DEFAULT_CAPACITY \in Nat \ {0}

array_with_capacity(capacity) == [cells |-> <<>>, capacity |-> capacity]

array_new == array_with_capacity(ARRAY_DEFAULT_CAPACITY)

Full(a) == Len(a.cells) = a.capacity

\* FAULTY array_push: grows one push too late.
array_push_late(a, element) ==
    [cells    |-> Append(a.cells, element),
     capacity |-> IF Len(a.cells) > a.capacity THEN 2 * a.capacity
                                               ELSE a.capacity]

array_push(a, element) ==
    [cells    |-> Append(a.cells, element),
     capacity |-> IF Full(a) THEN 2 * a.capacity ELSE a.capacity]

\* The struct is freed, the block survives with whatever it holds.
array_as_raw(a) == a.cells

\* No cell lies behind the end of the block.
Fits(a) == Len(a.cells) <= a.capacity
=============================================================================
