------------------------------ MODULE MCIngest ------------------------------
(* Small instances of Ingest for TLC: one national half-hour, and the      *)
(* Agile prices of two regions, which take one request each.               *)
EXTENDS Ingest, TLC

AssetRequests ==
  [a \in Asset |-> IF a = "national" THEN {"intensity"} ELSE {"ratesA", "ratesB"}]

ResponseKeys ==
  [q \in Request |->
    IF q = "intensity" THEN {"n0"} ELSE IF q = "ratesA" THEN {"pA"} ELSE {"pB"}]

Slots == Permutations(Slot)
=============================================================================
