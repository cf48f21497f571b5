----------------------------- MODULE MCBackfill -----------------------------
(* A small instance of Backfill for TLC: a month of three days, chunks of  *)
(* two, which are then whole, half empty or empty.                         *)
EXTENDS Backfill

WithGaps == Day \ {3, 4, 6}

Months == {1, 4}
=============================================================================
