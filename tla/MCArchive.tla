----------------------------- MODULE MCArchive ------------------------------
(* Small instances of Archive for TLC. *)
EXTENDS Archive, TLC

OneDayLate == [t \in Tables |-> IF t = 1 THEN 1 ELSE 0]
TwoDaysLate == [t \in Tables |-> 2]

Slots == Permutations(Slot)
=============================================================================
