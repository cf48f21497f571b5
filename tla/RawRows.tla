------------------------------ MODULE RawRows ------------------------------
(***************************************************************************)
(* The rows of the three raw.* hypertables and what ON CONFLICT DO UPDATE  *)
(* does to them (gridpulse/storage/postgres.py).                           *)
(*                                                                         *)
(* A row is abstracted to what the properties tell apart: rev, the         *)
(* revision of the source snapshot its columns were taken from (0: there   *)
(* is no row), and actual, whether actual_gco2_per_kwh is not NULL.        *)
(* raw.generation_mix and raw.agile_price have no such column, so actual   *)
(* is FALSE in their rows and Merge is the plain overwrite their SQL does. *)
(***************************************************************************)
EXTENDS Naturals

CONSTANTS
  Key,      \* natural keys: table, region, half-hour
  MaxRev    \* bound on the revisions a source publishes of one half-hour

ASSUME MaxRevAssumption == MaxRev \in Nat \ {0}

Row == [rev : 0..MaxRev, actual : BOOLEAN]

Table == [Key -> Row]

NoRow == [rev |-> 0, actual |-> FALSE]

EmptyTable == [k \in Key |-> NoRow]

Present(row) == row.rev > 0

KeysIn(t) == {k \in Key : Present(t[k])}

(* Mutant of Merge: actual = EXCLUDED.actual, without the COALESCE.        *)
MergeWithoutCoalesce(old, new) == IF Present(new) THEN new ELSE old

(* One INSERT ... ON CONFLICT DO UPDATE: every column from EXCLUDED, but   *)
(* COALESCE(EXCLUDED.actual, existing.actual).  No incoming row: no write. *)
Merge(old, new) ==
  IF Present(new)
  THEN [rev |-> new.rev, actual |-> new.actual \/ old.actual]
  ELSE old

(* A whole batch applied to a table. *)
Upsert(t, batch) == [k \in Key |-> Merge(t[k], batch[k])]
=============================================================================
