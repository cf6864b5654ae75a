------------------------------ MODULE MCCarto ------------------------------
(* Carto on two processes, three descriptors and digits of base 2. *)
EXTENDS Carto

OneWord == {<<0, 1, 1, 0, 1, 1, 0, 1>>, <<1, 0, 0, 0, 0, 1, 1, 1>>}
TwoWords == {<<1, 1, 0, 1, 0, 0, 1, 0, 0, 1, 1, 1, 0, 0, 0, 1>>,
             <<0, 0, 0, 0, 0, 0, 0, 0, 1, 0, 1, 0, 0, 1, 1, 0>>}

\* Everything; all but the insides of process 2; not even /proc.
SomeViews == {{0, 1, 2}, {0, 1}, {}}
=============================================================================
