----------------------------- MODULE MCPipeline -----------------------------
(* Small instances of Pipeline for TLC: half-hours of which the mix shows  *)
(* two at a time, and days of two half-hours, whose prices are published a *)
(* day ahead.  A carbon outage may last; the mix comes back in time.       *)
EXTENDS Pipeline

Windows == [f \in Feed |-> IF f = "carbon" THEN 1 ELSE 2]

Outages == [f \in Feed |-> IF f = "carbon" THEN MaxPeriod ELSE 2]

Leads == [f \in Feed |-> IF f = "price" THEN 2 ELSE 0]

DailyPrice == [f \in Feed |-> IF f = "price" THEN {2} ELSE {1, 2}]

(* The price is a feed like the mix: quiet where the mix is the question.  *)
QuietPrice == [f \in Feed |-> IF f = "price" THEN {} ELSE {1, 2}]

MixOverlaps == [mix |-> 2, carbon |-> 0, price |-> 0]

OneEach == [f \in Feed |-> 1]
=============================================================================
