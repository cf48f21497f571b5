------------------------------ MODULE Backfill ------------------------------
(***************************************************************************)
(* The one-off backfill of Carbon Intensity history straight into Iceberg  *)
(* (scripts/backfill_carbon_intensity.py), next to the nightly archive.    *)
(*                                                                         *)
(* A run loads a handle of the table, then walks from --from to --to in    *)
(* chunks of ChunkDays: fetch a chunk from the API, append it.  Nothing    *)
(* de-duplicates.  A run that fails is restarted by an operator at a month *)
(* boundary.  Meanwhile the archive overwrites the days of its own window  *)
(* with what the hot store has, and moves the table's head.                *)
(*                                                                         *)
(* A day of the lake is abstracted to how many copies of its national rows *)
(* it holds.  The hot store has rows of a day from day Launch on.  The     *)
(* archive is reduced to the commits it makes (Archive has its steps).     *)
(***************************************************************************)
EXTENDS Integers

CONSTANTS
  Launch,       \* first day with rows in the hot store
  Known,        \* days of which the API has data
  MonthStart,   \* first days of months, and the API's epoch (DEFAULT_START)
  ChunkDays,    \* CHUNK_DAYS
  Lookback,     \* ARCHIVE_LOOKBACK_DAYS
  MaxDay,       \* bound on days
  MaxRuns       \* bound on runs of the script

Day == 1..MaxDay

ASSUME BackfillAssumption ==
  /\ MaxDay \in Nat
  /\ Launch \in Day
  /\ Known \subseteq Day
  /\ MonthStart \subseteq Day
  /\ ChunkDays \in Nat \ {0}
  /\ Lookback \in Nat \ {0}
  /\ MaxRuns \in Nat

VARIABLES
  today,     \* the current UTC day
  lake,      \* [day -> copies of its rows in gridpulse.carbon_intensity]
  pc,        \* control state of the backfill
  cursor,    \* first day of the current chunk
  end,       \* --to
  current,   \* whether its handle still knows the head of the table
  runs,      \* runs so far
  began,     \* the day the last of them started
  covers     \* [day -> runs whose --from and --to had it between them]

vars == <<today, lake, pc, cursor, end, current, runs, began, covers>>

TypeOK ==
  /\ today \in Launch..MaxDay
  /\ lake \in [Day -> Nat]
  /\ pc \in {"idle", "fetch", "append", "done", "failed"}
  /\ cursor \in Day
  /\ end \in Day
  /\ current \in BOOLEAN
  /\ runs \in 0..MaxRuns
  /\ began \in Launch..today
  /\ covers \in [Day -> Nat]

Init ==
  /\ today = Launch
  /\ lake = [d \in Day |-> 0]
  /\ pc = "idle"
  /\ cursor = 1
  /\ end = 1
  /\ current = FALSE
  /\ runs = 0
  /\ began = Launch
  /\ covers = [d \in Day |-> 0]

-----------------------------------------------------------------------------
Midnight ==
  /\ today < MaxDay
  /\ today' = today + 1
  /\ UNCHANGED <<lake, pc, cursor, end, current, runs, began, covers>>

InHot(d) == d >= Launch

(* _overwrite_day: the day's rows of the hot store, or none, replace what  *)
(* the lake has of it; a delete that matches nothing commits nothing.      *)
ArchiveDay(d) ==
  /\ today - Lookback <= d
  /\ d < today
  /\ InHot(d) \/ lake[d] > 0
  /\ lake' = [lake EXCEPT ![d] = IF InHot(d) THEN 1 ELSE 0]
  /\ current' = FALSE
  /\ UNCHANGED <<today, pc, cursor, end, runs, began, covers>>

-----------------------------------------------------------------------------
Running == pc \in {"fetch", "append"}

(* What the docstring tells the operator to restart at; its default, the   *)
(* API's epoch, is such a boundary too, having no day before it.           *)
FullyBackfilled(d) == \A e \in Known : e < d => lake[e] > 0

(* get_catalog().load_table: once, before the loop. *)
LoadTable == current' = TRUE

(* The operator starts the script: --from a fully backfilled month         *)
(* boundary, --to today, as is the default, or any day before.             *)
Start ==
  /\ ~Running
  /\ runs < MaxRuns
  /\ runs' = runs + 1
  /\ began' = today
  /\ cursor' \in {d \in MonthStart : FullyBackfilled(d)}
  /\ end' \in 1..today
  /\ covers' = [d \in Day |-> IF cursor' <= d /\ d < end' THEN covers[d] + 1 ELSE covers[d]]
  /\ pc' = "fetch"
  /\ LoadTable
  /\ UNCHANGED <<today, lake>>

(* Mutant of ChunkEnd: the last chunk is not cut at --to. *)
ChunkEndUncut == cursor + ChunkDays

ChunkEnd == IF cursor + ChunkDays < end THEN cursor + ChunkDays ELSE end

(* Mutant of InChunk: the window is taken as closed at its end. *)
InChunkClosed(d) == cursor <= d /\ d <= ChunkEnd /\ d \in Known

(* The days of the chunk of which the API has rows. *)
InChunk(d) == cursor <= d /\ d < ChunkEnd /\ d \in Known

(* A chunk without rows is skipped ... *)
FetchEmpty ==
  /\ pc = "fetch"
  /\ cursor < end
  /\ \A d \in Day : ~InChunk(d)
  /\ cursor' = ChunkEnd
  /\ UNCHANGED <<today, lake, pc, end, current, runs, began, covers>>

FetchRange ==
  /\ pc = "fetch"
  /\ cursor < end
  /\ \E d \in Day : InChunk(d)
  /\ pc' = "append"
  /\ UNCHANGED <<today, lake, cursor, end, current, runs, began, covers>>

Appended == [d \in Day |-> IF InChunk(d) THEN lake[d] + 1 ELSE lake[d]]

(* ... and any other is appended to the table, in one commit. *)
Append ==
  /\ pc = "append"
  /\ current
  /\ lake' = Appended
  /\ cursor' = ChunkEnd
  /\ pc' = "fetch"
  /\ UNCHANGED <<today, end, current, runs, began, covers>>

(* The archive has moved the head: CommitFailedException, exit code 1. *)
CommitFails ==
  /\ pc = "append"
  /\ ~current
  /\ pc' = "failed"
  /\ UNCHANGED <<today, lake, cursor, end, current, runs, began, covers>>

(* Mutant of Fail: the chunk that failed is logged and skipped. *)
FailSkipsChunk ==
  /\ Running
  /\ cursor' = ChunkEnd
  /\ pc' = "fetch"
  /\ UNCHANGED <<today, lake, end, current, runs, began, covers>>

(* The API or R2 gives up, or the process is killed. *)
Fail ==
  /\ Running
  /\ pc' = "failed"
  /\ UNCHANGED <<today, lake, cursor, end, current, runs, began, covers>>

(* The same just after a commit, so that no log line tells of it. *)
AppendThenFail ==
  /\ pc = "append"
  /\ current
  /\ lake' = Appended
  /\ pc' = "failed"
  /\ UNCHANGED <<today, cursor, end, current, runs, began, covers>>

Finish ==
  /\ pc = "fetch"
  /\ cursor >= end
  /\ pc' = "done"
  /\ UNCHANGED <<today, lake, cursor, end, current, runs, began, covers>>

Next ==
  \/ Midnight
  \/ \E d \in Day : ArchiveDay(d)
  \/ Start
  \/ FetchEmpty
  \/ FetchRange
  \/ Append
  \/ CommitFails
  \/ Fail
  \/ AppendThenFail
  \/ Finish

Spec == Init /\ [][Next]_vars

-----------------------------------------------------------------------------
(* Properties.                                                             *)

(* The archive's window reaches d no more, or finds its rows in the hot    *)
(* store, from when the run started on.                                    *)
OutOfArchivesReach(d) == InHot(d) \/ d + Lookback < began

(* Exit code 0 means that the lake has, and keeps, every day before --to   *)
(* that the API has, also what earlier runs appended before they failed    *)
(* (main, backfill).  The exception are the last days before Launch, which *)
(* the archive deletes if the backfill is earlier than its window.         *)
DoneMeansComplete ==
  pc = "done" => \A d \in Known : d < end /\ OutOfArchivesReach(d) => lake[d] > 0

(* A day is in the lake at most once for each run that was asked for it,   *)
(* and once from the archive: chunks do not overlap, no run appends beyond *)
(* its --to, and one that fails just after a commit appends no more        *)
(* (table.append; "existing data is not de-duplicated").                   *)
OneCopyPerRun ==
  \A d \in Day : lake[d] <= covers[d] + (IF InHot(d) THEN 1 ELSE 0)
=============================================================================
