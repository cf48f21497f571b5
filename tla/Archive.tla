------------------------------ MODULE Archive ------------------------------
(***************************************************************************)
(* The nightly archive of the hot store into Iceberg                       *)
(* (gridpulse/dagster_defs/iceberg_assets.py).                             *)
(*                                                                         *)
(* A run of archive_to_iceberg goes through the tables one after the       *)
(* other.  For each it loads a handle from the catalog, reads the clock,   *)
(* and for each of the last Lookback days SELECTs the day from Postgres    *)
(* and overwrites (or, with no rows, deletes) the day in the lake; each    *)
(* overwrite is a commit of its own.  Ingest goes on meanwhile, retention  *)
(* drops old days from the hot store, runs overlap (an operator            *)
(* materialises while the schedule fires) and die anywhere.                *)
(*                                                                         *)
(* The rows of a day of a table are abstracted to the version of their     *)
(* content: every ingest that changes the day raises it, 0 is no rows.     *)
(* Iceberg commits are optimistic: PyIceberg refuses a commit when the     *)
(* table's head is not the snapshot the handle knows.                      *)
(***************************************************************************)
EXTENDS Integers

CONSTANTS
  Slot,        \* processes that run archive_to_iceberg
  NTables,     \* number of tables archived, in a fixed order
  Lookback,    \* ARCHIVE_LOOKBACK_DAYS
  Retain,      \* days the hot store keeps
  Lag,         \* [1..NTables -> days after its end in which a day changes]
  MaxMissed,   \* nights in a row without a completed archive of a table
  MaxDay,      \* bound on days
  MaxVer       \* bound on versions of a day

Tables == 1..NTables

(* The behaviours begin with a hot store as full as retention lets it be.  *)
FirstDay == Retain + 1

Day == 1..MaxDay

ASSUME ArchiveAssumption ==
  /\ NTables \in Nat \ {0}
  /\ Lookback \in Nat \ {0}
  /\ Retain \in Nat
  /\ Retain > Lookback
  /\ Lag \in [Tables -> Nat]
  /\ MaxMissed \in Nat
  /\ MaxDay \in Nat
  /\ MaxDay >= FirstDay
  /\ MaxVer \in Nat \ {0}

VARIABLES
  today,     \* the current UTC day
  hot,       \* [table -> [day -> version]], the raw.* tables
  lake,      \* the same in Iceberg
  lastDone,  \* latest day0 for which a table's whole window was committed
  pc,        \* control state of each run
  tab,       \* the table it is at
  day0,      \* its "today", read once per table
  back,      \* how many days back it is
  rows,      \* the version it has fetched
  current,   \* whether its handle still knows the head of its table
  seen       \* the days with rows in the snapshot its handle knows

runVars == <<pc, tab, day0, back, rows, current, seen>>
vars == <<today, hot, lake, lastDone, runVars>>

TypeOK ==
  /\ today \in FirstDay..MaxDay
  /\ hot \in [Tables -> [Day -> 0..MaxVer]]
  /\ lake \in [Tables -> [Day -> 0..MaxVer]]
  /\ lastDone \in [Tables -> Retain..MaxDay]
  /\ pc \in [Slot -> {"idle", "load", "clock", "fetch", "write"}]
  /\ tab \in [Slot -> Tables]
  /\ day0 \in [Slot -> FirstDay..MaxDay]
  /\ back \in [Slot -> 1..Lookback]
  /\ rows \in [Slot -> 0..MaxVer]
  /\ current \in [Slot -> BOOLEAN]
  /\ seen \in [Slot -> SUBSET Day]

(* A system in operation: every day so far has rows, as late as they may   *)
(* be, and the last night's run has archived those that were there.  What  *)
(* is out of the window is archived, so that behaviours begin in order.    *)
Init ==
  /\ today = FirstDay
  /\ hot = [t \in Tables |-> [d \in Day |-> IF d < FirstDay THEN 1 ELSE 0]]
  /\ lake = [t \in Tables |-> [d \in Day |->
               IF d + Lag[t] < Retain \/ d + Lookback < FirstDay THEN 1 ELSE 0]]
  /\ lastDone = [t \in Tables |-> Retain]
  /\ pc = [r \in Slot |-> "idle"]
  /\ tab = [r \in Slot |-> 1]
  /\ day0 = [r \in Slot |-> FirstDay]
  /\ back = [r \in Slot |-> 1]
  /\ rows = [r \in Slot |-> 0]
  /\ current = [r \in Slot |-> FALSE]
  /\ seen = [r \in Slot |-> {}]

-----------------------------------------------------------------------------
(* The world around the archive.                                           *)

(* An ingest run inserts or revises rows of the day: at once, or late as   *)
(* far as the sources' windows reach back (96 half-hours for NESO).  The    *)
(* bounding day MaxDay is never over, so its own rows do not matter.       *)
Ingest(t, d) ==
  /\ d < MaxDay
  /\ d <= today
  /\ today <= d + Lag[t]
  /\ hot[t][d] < MaxVer
  /\ hot' = [hot EXCEPT ![t][d] = @ + 1]
  /\ UNCHANGED <<today, lake, lastDone, runVars>>

(* Mutant of Expire: retention is counted from the archive's window.        *)
ExpireInWindow(t, d) ==
  /\ today > d + Lookback - 1
  /\ hot[t][d] > 0
  /\ hot' = [hot EXCEPT ![t][d] = 0]
  /\ UNCHANGED <<today, lake, lastDone, runVars>>

(* add_retention_policy drops days that have left the hot window. *)
Expire(t, d) ==
  /\ today > d + Retain
  /\ hot[t][d] > 0
  /\ hot' = [hot EXCEPT ![t][d] = 0]
  /\ UNCHANGED <<today, lake, lastDone, runVars>>

(* Assumed: no run survives its second midnight, and operations restores   *)
(* a table's archive within MaxMissed nights.                              *)
Midnight ==
  /\ today < MaxDay
  /\ \A r \in Slot : pc[r] \in {"fetch", "write"} => day0[r] = today
  /\ \A t \in Tables : today <= lastDone[t] + MaxMissed
  /\ today' = today + 1
  /\ UNCHANGED <<hot, lake, lastDone, runVars>>

-----------------------------------------------------------------------------
(* A run.                                                                  *)

Begin(r) ==
  /\ pc[r] = "idle"
  /\ pc' = [pc EXCEPT ![r] = "load"]
  /\ UNCHANGED <<today, hot, lake, lastDone, tab, day0, back, rows, current, seen>>

(* get_catalog().load_table *)
LoadTable(r) ==
  /\ pc[r] = "load"
  /\ pc' = [pc EXCEPT ![r] = "clock"]
  /\ current' = [current EXCEPT ![r] = TRUE]
  /\ seen' = [seen EXCEPT ![r] = {d \in Day : lake[tab[r]][d] > 0}]
  /\ UNCHANGED <<today, hot, lake, lastDone, tab, day0, back, rows>>

(* datetime.now(UTC): once per table, after the handle is loaded. *)
ReadClock(r) ==
  /\ pc[r] = "clock"
  /\ pc' = [pc EXCEPT ![r] = "fetch"]
  /\ day0' = [day0 EXCEPT ![r] = today]
  /\ back' = [back EXCEPT ![r] = 1]
  /\ UNCHANGED <<today, hot, lake, lastDone, tab, rows, current, seen>>

DayOf(r) == day0[r] - back[r]

(* Mutant of FetchPartition: it fetches the day after the one it writes.   *)
FetchWrongDay(r) ==
  /\ pc[r] = "fetch"
  /\ pc' = [pc EXCEPT ![r] = "write"]
  /\ rows' = [rows EXCEPT ![r] = hot[tab[r]][DayOf(r) + 1]]
  /\ UNCHANGED <<today, hot, lake, lastDone, tab, day0, back, current, seen>>

FetchPartition(r) ==
  /\ pc[r] = "fetch"
  /\ pc' = [pc EXCEPT ![r] = "write"]
  /\ rows' = [rows EXCEPT ![r] = hot[tab[r]][DayOf(r)]]
  /\ UNCHANGED <<today, hot, lake, lastDone, tab, day0, back, current, seen>>

(* The local variables of a run that ended carry no information. *)
Forget(r) ==
  /\ pc' = [pc EXCEPT ![r] = "idle"]
  /\ tab' = [tab EXCEPT ![r] = 1]
  /\ day0' = [day0 EXCEPT ![r] = FirstDay]
  /\ back' = [back EXCEPT ![r] = 1]
  /\ rows' = [rows EXCEPT ![r] = 0]

(* Mutant of NextDay: no end of the window.                                *)
NextDayForever(r) ==
  /\ pc' = [pc EXCEPT ![r] = "fetch"]
  /\ back' = [back EXCEPT ![r] = @ + 1]
  /\ UNCHANGED <<lastDone, tab, day0, rows>>

(* Mutant of NextTable: range(1, ARCHIVE_LOOKBACK_DAYS), one day short.    *)
NextTableEarly(r) ==
  /\ back[r] = Lookback - 1
  /\ lastDone' = [lastDone EXCEPT ![tab[r]] = IF @ < day0[r] THEN day0[r] ELSE @]
  /\ \/ /\ tab[r] < NTables
        /\ pc' = [pc EXCEPT ![r] = "load"]
        /\ tab' = [tab EXCEPT ![r] = @ + 1]
        /\ UNCHANGED <<day0, back, rows>>
     \/ /\ tab[r] = NTables
        /\ Forget(r)

(* The next day of the window, the next table, or the end of the run. *)
NextDay(r) ==
  /\ back[r] < Lookback
  /\ pc' = [pc EXCEPT ![r] = "fetch"]
  /\ back' = [back EXCEPT ![r] = @ + 1]
  /\ UNCHANGED <<lastDone, tab, day0, rows>>

NextTable(r) ==
  /\ back[r] = Lookback
  /\ lastDone' = [lastDone EXCEPT ![tab[r]] = IF @ < day0[r] THEN day0[r] ELSE @]
  /\ \/ /\ tab[r] < NTables
        /\ pc' = [pc EXCEPT ![r] = "load"]
        /\ tab' = [tab EXCEPT ![r] = @ + 1]
        /\ UNCHANGED <<day0, back, rows>>
     \/ /\ tab[r] = NTables
        /\ Forget(r)

(* table.overwrite, or table.delete when the day has no rows; a delete     *)
(* that matches nothing in the handle's snapshot commits nothing.          *)
NothingToDelete(r) == rows[r] = 0 /\ DayOf(r) \notin seen[r]

(* Mutant of OverwriteDay: the table is refreshed just before the commit,  *)
(* so what another run has committed since the fetch is no obstacle.       *)
OverwriteDayRefreshed(r) ==
  /\ pc[r] = "write"
  /\ ~NothingToDelete(r)
  /\ lake' = [lake EXCEPT ![tab[r]][DayOf(r)] = rows[r]]
  /\ UNCHANGED <<current, seen>>
  /\ NextDay(r) \/ NextTable(r)
  /\ UNCHANGED <<today, hot>>

OverwriteDay(r) ==
  /\ pc[r] = "write"
  /\ current[r]
  /\ ~NothingToDelete(r)
  /\ lake' = [lake EXCEPT ![tab[r]][DayOf(r)] = rows[r]]
  /\ current' = [s \in Slot |-> current[s] /\ (s = r \/ tab[s] # tab[r])]
  /\ seen' = [seen EXCEPT ![r] = IF rows[r] > 0 THEN @ \cup {DayOf(r)} ELSE @ \ {DayOf(r)}]
  /\ NextDay(r) \/ NextTable(r)
  /\ UNCHANGED <<today, hot>>

SkipDay(r) ==
  /\ pc[r] = "write"
  /\ NothingToDelete(r)
  /\ NextDay(r) \/ NextTable(r)
  /\ UNCHANGED <<today, hot, lake, current, seen>>

(* CommitFailedException: somebody else has moved the head. *)
CommitFails(r) ==
  /\ pc[r] = "write"
  /\ ~current[r]
  /\ ~NothingToDelete(r)
  /\ Forget(r)
  /\ UNCHANGED <<today, hot, lake, lastDone, current, seen>>

(* Any other exception, or the process is killed. *)
Die(r) ==
  /\ pc[r] # "idle"
  /\ Forget(r)
  /\ UNCHANGED <<today, hot, lake, lastDone, current, seen>>

Next ==
  \/ \E t \in Tables, d \in Day : Ingest(t, d) \/ Expire(t, d)
  \/ Midnight
  \/ \E r \in Slot :
       \/ Begin(r) \/ LoadTable(r) \/ ReadClock(r) \/ FetchPartition(r)
       \/ OverwriteDay(r) \/ SkipDay(r) \/ CommitFails(r) \/ Die(r)

Spec == Init /\ [][Next]_vars

-----------------------------------------------------------------------------
(* Properties.                                                             *)

(* Overlapping, dying and restarted runs never put older content of a day  *)
(* over newer, and never clear a day of the lake (_overwrite_day): a run   *)
(* that fetched before another one committed loses the commit.             *)
LakeNeverRegresses ==
  [][\A t \in Tables, d \in Day : lake'[t][d] >= lake[t][d]]_vars

(* Once a day has left the archive window the lake has its final content:  *)
(* "the lakehouse always reflects yesterday's final hot data", "late-      *)
(* arriving rows get picked up automatically on the next run".  It needs   *)
(* every late row and every missed night to fit into the window.           *)
WindowLongEnough == \A t \in Tables : Lag[t] + MaxMissed < Lookback

FinalHotInLake ==
  \A t \in Tables, d \in Day : d + Lookback < today => lake[t][d] >= hot[t][d]

(* The lake never holds content the hot store did not have. *)
LakeFromHot ==
  \A t \in Tables, d \in Day : today <= d + Retain => lake[t][d] <= hot[t][d]

(* The hot store and the lake are the two tiers of one store, as long as   *)
(* the window is long enough: retention drops what the lake has already,   *)
(* and no late row finds its day dropped.                                  *)
Tiers == INSTANCE TieredStore WITH Table <- Tables, Partition <- Day, cold <- lake

KeepsBothTiers == Tiers!Spec
=============================================================================
