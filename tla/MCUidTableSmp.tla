--------------------------- MODULE MCUidTableSmp ----------------------------
(***************************************************************************)
(* Small instances of UidTableSmp for TLC: who may send which command.     *)
(***************************************************************************)
EXTENDS UidTableSmp

CONSTANTS root, alice, bob, carol, h1, h2, k1, k2

AnyCommand == [op : {"LOCK", "UNLOCK"}, uid : Uid]

OneHandler == [h \in {h1} |-> AnyCommand]
TwoHandlers ==
  [h \in {h1, h2} |-> IF h = h1 THEN AnyCommand
                                ELSE [op : {"LOCK", "UNLOCK"}, uid : {alice}]]

\* Only locks, of two users.
TwoLockers == [h \in {h1, h2} |-> [op : {"LOCK"}, uid : {alice, bob}]]

=============================================================================
