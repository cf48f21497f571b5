# GridPulse in TLA+

GridPulse pulls half-hourly energy data (carbon intensity, generation mix, Octopus Agile prices)
from three public APIs into Postgres/TimescaleDB, archives it nightly to Iceberg on Cloudflare R2,
backs Postgres up to R2, and serves it from FastAPI. This directory holds TLA+ models of the parts
where concurrency, crashes and retries decide whether the data is right, the TLC configurations
that check them, and TLAPS proofs of the safety properties for every value of the constants.

All paths below are relative to `src/`.

## 1. The system

```
 public APIs --HTTP+tenacity--> ingest assets --upsert--> Postgres raw.* --dbt--> staging/marts
                                     |                      |       |                  |
                              healthchecks.io        archive to   pg_dump          FastAPI + TTL cache
                                                     Iceberg/R2   to R2             (2 workers)
```

| Component | State it keeps | Operations | Hard behaviour | Correct when |
|---|---|---|---|---|
| Ingest assets (`dagster_defs/assets.py`, `lib/heartbeat.py`) | none of its own; the check at healthchecks.io | one run per schedule tick or manual materialisation | runs overlap, are killed, lose pings | a run stores its whole batch or nothing; "up" only after a store |
| Source clients (`ingestion/*`) | attempt counter | GET the newest rows, retry on 5xx/429/transport errors, validate | retry bounds, one failing region of fourteen, outages against a window of 1 or 96 rows | every fetch ends; nothing unvalidated is stored; what an outage missed comes back |
| Hot store (`storage/postgres.py`, migrations 004-006) | `raw.*` rows, row locks, retention | `executemany` of upserts in one transaction | lock order, deadlock victims, lost acknowledgements, stale batches | realised values survive; open transactions publish what a merge with the current row gives |
| Archive (`dagster_defs/iceberg_assets.py`, `storage/iceberg.py`) | Iceberg tables, one head per table | per table: load, read clock, per day: SELECT, overwrite/delete | overlap, death half way, late rows, midnight | the lake never regresses; every day's final content arrives |
| Migrator (`storage/migrate.py`) | `public._migrations`, the schema | read ledger, apply pending files | overlap, crash between execute and record | each file once, in order, the ledger truthful, re-runs converge |
| Backup (`dagster_defs/backup_assets.py`) | files in `/tmp`, objects in R2 | dump, size check, upload, unlink | shared path, killed runs, lost data | only whole dumps in R2; success means stored |
| Response cache (`api/cache.py`) | two TTL caches per process | check, read, query, store | unlocked threads, expiry between steps, several processes | bounded staleness; misses go to Postgres |
| API queries and routes (`api/queries.py`, `api/routes`, `api/main.py`, `storage/postgres.py`) | a pool of five connections per worker | one to three reads per request, error pages, `/healthz` | threads share the pool, Postgres restarts, timeouts | every request ends; a restart of Postgres needs no restart of the API |
| dbt (`dbt/`, `dagster_defs/dbt_assets.py`) | staging views, mart tables | daily or manual build | builds overlap, read before and replace after one another, fail in a model, die | marts follow raw without holes and lose only what retention drops or an older build could not know |
| Backfill (`scripts/backfill_carbon_intensity.py`) | Iceberg table | load a handle, append 14-day chunks | failed and restarted runs, the archive's commits in between | exit code 0 means that all the API has is there; no day more often than runs went over it |
| Regions (`lib/regions.py`) | a cache for the life of a run's process | read once | none left: a run is a process of its own | every known region is fetched |

Interactions: assets and API share Postgres; archive and Iceberg's SQL catalog share it too; the
archive reads what ingest writes while ingest goes on; retention deletes what the archive must have
copied; the API reads what ingest and dbt write through a cache of its own. Runs are processes of
the `dagster-daemon` container (default launcher), so in-memory state is per run, `/tmp` is shared.

## 2. The modules

Each component has a module with its variables and one action per step of the code, an `MC...`
module with its small instance, and a `...Proofs` module with its theorems. The operators marked
*Mutant* in the comments are deliberately wrong variants of the definition that follows; no
behaviour uses them. They exist to show that each property notices the bug it is meant for (see
section 5).

### RawRows, HotStore, Ingest

`RawRows` has the rows and the upsert. A row is the revision of the source snapshot it came from and
whether its `actual_gco2_per_kwh` is set; `Merge` is `ON CONFLICT DO UPDATE` with its `COALESCE`.

`Ingest` is a set of slots that run assets. `Start` is the wrapper's start ping and the call;
`FetchOk`, `FetchRetry`, `FetchRaise` are one request with tenacity's attempts; `SkipEmpty` is the
early return; `SendRow`/`UpsertRow` are one statement of `executemany` before and after it has its
row lock; `Commit` is the end of `with pool.connection()`; `ReportSuccess`/`ReportFailure` are the
last ping. `Kill` may strike anywhere. `Commit` may end in "raised": the acknowledgement was lost, the run
reports failure although the rows are there. Postgres is modelled as the code uses it: row locks
until the end of the transaction, a lock wait per statement, a victim per cycle of waiters.
The sources revise (`Revise`) and realise (`Realise`) half-hours at any moment.

`HotStore` is the abstract promise: a run holds one batch and applies the whole of it in one step or
none of it, and a check turns "up" only on the report of a run that has applied its batch. `Ingest`
implements it through `HS` (the control states are renamed by `PhaseOf`, the rest is the same state).

`RunsAdvance` is the safety half of `RunsEnd`: a run goes through fetch, upsert and ping and never back; while it
fetches, answers come in, each next request with its first attempt, or attempts are used up, and while it upserts,
its transaction gets row after row. `NobodyWaitsInVain` is why upserts go on: of any group of runs that wait only
for each other one is in a cycle, which Postgres breaks. That rests on every end of a transaction giving its locks back.

### Archive, TieredStore

Runs walk through `NTables` tables and, per table, `Lookback` days. `LoadTable` is
`get_catalog().load_table`, `ReadClock` is `today_utc`, `FetchPartition` the SELECT, `OverwriteDay`
`table.overwrite` or `table.delete` of a day that has rows in the known snapshot, `SkipDay` a delete
that matches nothing, `CommitFails` the exception of the optimistic commit (another run moved the
head), `Die` everything else. A day's content is a version number that every ingest raises. `Lag`
says how many days after its end a day of a table may still change. `lastDone` is a history variable:
the last day on which a table's whole window was committed. `Init` is a system in operation: a full
hot store, whose rows came as late as they may, and a lake that has what was there last night.

`TieredStore` is the abstract promise of the pair: content is written to the hot tier, copied forward to the cold
one and never ahead of it, and dropped from the hot tier only when the cold one has all of it, after which
nothing is written to it. `Tiers` maps the hot store and the lake to it: `Ingest` is a write, `OverwriteDay`
(the delete of a day without rows included) must be a copy, and `Expire` (retention, which knows nothing of the archive) must be a drop.

The hot store loses rows by retention only. After a loss of the hot store that is answered by ingesting again
(`docs/runbooks/restore.md:18-21`), a night in between finds no rows and `_overwrite_day` deletes the last two days of
the lake; no property here covers that.

### Migrate, AtomicUpgrade

`ReadLedger` is the bootstrap and the single SELECT; `Execute`, `Record`, `Commit` are the three steps of
the transaction of a file; `AlreadyExists` and `DuplicateVersion` are how a run with a stale ledger
finds out; `Break` and `LoseAck` are crashes before and after the commit point. `Deploy` ships more files.

`AtomicUpgrade` is the abstract promise: one database that goes from version to version, the effects of a file and
its row in `_migrations` in one step. `Database` maps schema and ledger to it; stale runs, crashes and lost
acknowledgements leave no trace in it.

### Backup

`Open` truncates the file of the day and starts `pg_dump`, `WriteChunk` writes at the run's own offset,
`DumpDone` is exit status 0, `CheckSize`/`TooSmall` the size check by path, `Upload` reads what is at
the path now, `Unlink` removes it. A file's content says which run wrote each chunk, so mixed and
partial dumps are distinct from whole ones. `Recreate` is a deployment, `Kill` the death of one run.

### ResponseCache

`Lookup` is `key in cache`, `Hit`/`HitLost` is `cache[key]`, `Query` and `QueryFails` the call of the wrapped
function, `Store` the assignment, in which expired entries go and one is evicted when the
cache is full. `Live` is the library's test of expiry. A result is the time at which its query read the
tables, since its age is all the cache can spoil. `cache_current` and `cache_range` are two values of `MaxSize` and `TTL`.

### Serving

`Serving` extends `ResponseCache` with the routes, the pool and Postgres. `Route` has the reads each
route makes, in order: a region lookup that may end the request (400 or 404), a cached function, the probe
of `db_ok`, any other read. `/agile-price`, `/best-slots` and the two ranges read what `current` reads;
`/generation-mix` reads what `regions` reads; the page of any region but NATIONAL and the partials of
a region read what `partial` reads. `Take` is the entry of a `with get_pool().connection()`, `Read` and
`QueryCached` a read on a live connection, `Breaks` one on a dead connection, which the
pool replaces afterwards (`Connect`), `TimesOut` the pool's `PoolTimeout`; `Raises` says what an
exception does to each kind of read: it ends the request, except in `db_ok`. `GoDown` cuts the connections
of every worker. `burned` is a history variable: the requests of a worker that dead connections have failed since Postgres came up.
`StepsLeft` counts a request down: the reads it has yet to make and, in the current one, the steps of the cache and of the pool.

### Pipeline, Follower

`Pipeline` is what the runs of Ingest add up to over time, with a run's batch stored in one step as
`HotStore` promises: `Tick` and `Publish` are the sources, `Fetch` an answer with the newest `Window`
half-hours, `Store` its upsert at any later time, `Lose` the end of a run that stores nothing.
`Expire` is retention (`add_retention_policy` of migrations 004 to 006); `horizon` is the newest half-hour it has
dropped. It is assumed to keep more than any run lasts or any source is late by: 90 days against two.

A dbt model is built in two steps, as dbt does it: `ReadModel` is the beginning of the `CREATE TABLE AS`, which fixes
what it reads, and `ReplaceMart` the later rename that puts the result in the mart's place. Between the two other
models and builds go on, and ingest commits. `ModelFails` is a failing model or test, after which what
depends on it is skipped, `BuildDies` any other end of `dbt build`. Any number of builds overlap. The staging models
are views and need no state. `begun` is a history variable: `raw` when a build began.

So two overlapping builds can take a mart back: one reads, the other begins later, reads more and replaces the mart, and the
first one then replaces it by less. `Settled` are the half-hours this cannot happen to: those that each build in progress has found when
it began, and that retention has kept. `SettledStaysServed` says that what is served of these stays served.
`OneRunCatchesUp` says of every state that the answer a source would give now holds all that `raw` lacks and
retention has not dropped.

`Follower` is the abstract promise: a copy of a feed that always is a stretch of it without a hole and never goes back
behind what is settled, of which only the oldest is ever dropped. `MixMart` maps NESO's newest half-hour,
`Settled("mix")` and `mart_generation_mix_long` to it, across ingest, retention and dbt. `Mart` says which of the three
marts an instance has: the mix needs only its own.

### Backfill

`Start` is the script's start and its `load_table`; `FetchEmpty`/`FetchRange` are the request of a
chunk, `Append` the `table.append` and the next cursor, `CommitFails` the append on a head the
archive has moved, `Fail` and `AppendThenFail` any other end with exit code 1, before and just after a
commit, `Finish` exit code 0. A day of the lake is the number of copies of its rows. The archive is reduced
to its commits (`ArchiveDay`).

`--to` is any day up to today, the default, and so may reach into days of the hot store. `--from` is what the docstring tells the operator (`backfill_carbon_intensity.py:19-21`), and
the script does not check: a month boundary before which everything is backfilled (`FullyBackfilled`), the default of
the API's epoch included. The script may start while the archive's window still reaches days before the first ingest.

Under that advice days are appended more than once: a run that fails has appended
chunks behind the month boundary, and the next one appends them again. With the invariant `\A d \in Day : lake[d] <= 1`
in `backfill_once.cfg` TLC shows it in six steps: `Start`, `FetchRange`, `AppendThenFail`, `Start` at the same boundary,
`FetchRange`, `Append`. `docs/lakehouse-design.md:154` says "Safe to re-run any partition (overwrite semantics)"; the script appends. What does hold is `OneCopyPerRun`: a day is there at most once for each run over it, and
once from the archive. `DoneMeansComplete` leaves out the last days before the first ingest when a run starts that
early: the archive deletes what the hot store does not have (`OutOfArchivesReach`).

## 3. Runs

| Run | Instance | Shows |
|---|---|---|
| `ingest_national` | 3 slots, 1 half-hour, 3 revisions, 3 attempts | `HotComesFromSource`, `PendingIsMerge`, `RealisedKept`: no order of fetches, merges and commits invents or wipes a realised value |
| `ingest_agile` | 2 slots, 2 regions (one request and one row each), 3 attempts, `FairSpec` | `NobodyWaitsInVain`, `StoresWholeBatches` (Ingest implements HotStore), `RunsAdvance`, `RunsEnd`, through deadlocks and exhausted attempts |
| `archive_overlap` | 2 runs, 2 tables, 5 days (1 midnight), 2 versions, one table a day late | `LakeNeverRegresses`, `LakeFromHot`, `FinalHotInLake`, `KeepsBothTiers` (hot store and lake implement TieredStore): overlaps, deaths, midnight within a run, a head per table |
| `migrate` | 3 migrators, 3 files, 1 failure, `FairSpec` | `LedgerIsTruthful`, `EachFileOnce`, `AppliedInOrder`, `DoneMeansApplied`, `UpgradesAtomically` (Migrate implements AtomicUpgrade), `Converges` |
| `backup_nightly` | 2 runs, 2 chunks, 3 days, one run per day at a time | `OnlyWholeDumps`, `StoredMeansBackedUp` |
| `backfill_once` | 9 days in months of 3, the first 5 before the hot store, gaps, chunks of 2, 3 runs | `DoneMeansComplete`, `OneCopyPerRun` |
| `pipeline` | 3 half-hours, a window of 2 and 2 pending answers of the mix, its mart, 2 builds, retention of 2, `FairSpec` | `NoGaps`, `OneRunCatchesUp`, `SettledStaysServed`, `MixMartFollows` (Pipeline implements Follower), `EverythingServed` |
| `serving` | 2 threads, 1 worker, 1 connection, 2 keys, 1 entry, 1 outage, routes `current` and `status`, `FairServing` | `BoundedStaleness` with failing queries, `ConnectionsAreSafe`, `RecoversByItself`, `RequestsAdvance`, `RequestsEnd` |

Four runs expect a violation; each shows where the code and what is written about it part ways:

| Run | What is written | What the code does |
|---|---|---|
| `archive_late` | "late-arriving rows get picked up automatically on the next run" (`iceberg_assets.py:136-137`) | rows as late as NESO's 96-row window allows miss the window of two days for good |
| `backup_overlap` | "re-running on the same day overwrites today's backup" (`backup_assets.py:85`) | two runs of a day write the same file; a mixed or partial dump is uploaded |
| `cache_expiry` | "Hot-cache misses still hit Postgres directly" (`cache.py:6`) | an entry that expires between check and read is a `KeyError`, a 500 |
| `best_slots` | "Ranks the upcoming 24 hours per region by both price (Agile) and carbon intensity (forecast)" (`mart_best_slots_24h.sql:11-12`) | only half-hours with carbon data are candidates, and carbon is fetched for the current half-hour only: the mart is always empty, and `/best-slots` always answers with no slots |

### Bounds and why they are enough

- `MaxRev`, `MaxVer`: up to 3 revisions where older and newer content race; 1 where the question is
  only whether rows are there (`ingest_agile`).
- `Slot`: two processes for a race, three for a cycle of waiters longer than two and for a reader
  that overlaps two writers.
- `MaxAttempts` is 3, the value of `DEFAULT_MAX_ATTEMPTS`.
- `MaxDay`: behaviours begin with a hot store as full as retention lets it be (day 4 for `Retain = 3`), so that the
  next midnight both moves the window (`Lookback = 2`, the source's value) and lets a day expire; day 5 is an overlap across midnight and a day that leaves the window. `Retain = 3` stands for 90 days: a day must leave the window before it
  leaves the hot store, which is all `Retain > Lookback` says.
- `MaxMissed`: nights in a row without a completed archive of a table. It is an assumption
  about operations, in `Midnight`, as is that no run survives its second midnight. The runs have 0;
  `NothingIsMissed` is proved for any number below the look-back window less the lateness.
- `MaxFailures` bounds crashes of the migrator, so that liveness can be asked for at all.
- `NChunks = 2` is the least for which partial and mixed files exist.
- `backfill_once`: the gaps make chunks whole, half empty and empty, and chunks of 2 reach past the ends of months of 3;
  3 runs let a restarted run fail again; the window of 2 reaches before the first ingest (day 6) on its first days, and 9 days let it pass it.
- `MaxQuery`, `MaxTime`: in `cache_expiry` a query takes at most one tick; in `serving` it is stored in the tick
  it read in, and three ticks let an entry of `TTL = 2` be stored, hit, expire and be stored again.
- `Slot`, `Thread` in `serving`: one connection for two threads is the ratio of five to FastAPI's forty, where
  somebody waits for somebody; one cached key evicts the other. `current` and `status` have every kind of read.
- `Window` in `pipeline`: 2 stands for 96, and an `Outage` of 2 is the longest that fits; three
  half-hours let one leave the window before the next run. `Step = {1, 2}` lets a source publish a batch.
  `Retain = 2`: the first half-hour can be dropped once the third is published. Two builds are the least for a mart that is
  replaced by an older read. Only the mix has runs and a mart here; of carbon there is the clock, prices are quiet, so that
  what the other feeds do rests on the theorems. In `best_slots` all three feeds and marts are there, a day is two
  half-hours, and prices come a day at a time and a day ahead.

The states where TLC's exploration stops (the bound on days, time or revisions) are not deadlocks: some run
can always begin, so deadlock checking is on everywhere.

### Fairness

`Ingest!FairSpec`: a live run takes its next step: every HTTP call has a timeout and `tenacity`
bounds its attempts, Postgres resolves deadlocks. A waiter for a row lock is served in turn (strong
fairness of `UpsertRow`): Postgres queues lock waiters. Starting, killing and refused statements are not
fair. `Migrate!FairSpec`: the operator runs the migrator after deployments and after failures
(`docs/infra-design.md`, "One manual gate"), and a started run goes on. `Pipeline!FairSpec` is fair to the mix alone, so
nothing rests on the other feeds: the schedule starts runs and builds whatever became of the last, they
end, and neither the fetch nor the mart's model, its read or its replacement, fails for ever (strong fairness:
retries and the next tick of the schedule). `Serving!FairServing`: a thread that can go on does; the wait for a connection has the
pool's timeout (30 seconds), reads take no locks that last and break with their connection. Nothing is assumed of
which waiter gets a connection, nor that Postgres ever comes back. No other module assumes fairness.

## 4. Proofs

| Module | Theorems | Argument |
|---|---|---|
| `IngestProofs` | `TypeCorrect`, `NoLostMerge`, `RealisedNeverWiped`, `HotNeverInvents`, `ImplementsHotStore`, `RerunChangesNothing`, `RunsCountDown`, `NoStandstill` | `LockInv`: who holds a lock is in its transaction, holds it alone, and holds the merge of the committed row with its batch. From it a commit can only keep a realised value, and it publishes exactly `Upsert(table, batch)`, which is the refinement step. `SourceInv` bounds every row in a batch, a transaction and the table by its source. `WalkInv` adds that nobody waits for a row it has, so each statement adds one. For `NoStandstill` a least group of slots that wait for each other consists of those its members wait for, so all of it is a cycle that `Deadlocked` sees. |
| `ArchiveProofs` | `TypeCorrect`, `LakeIsFromHot`, `LakeIsMonotonic`, `NothingIsMissed`, `ImplementsTieredStore` | `OrderInv`: what a run with a current handle has fetched is at least what is in the lake, since the lake has only moved with the head. `FinalInv`: days before the window of `lastDone` are final in the lake, and a run has already put right the days it has passed. `NothingIsMissed` and the refinement assume `WindowLongEnough`: lateness plus missed nights is less than the look-back; `archive_late` shows what happens without it. |
| `MigrateProofs` | `TypeCorrect`, `LedgerCorrect`, `NoFileSkipped`, `OnlyOnce`, `DoneIsApplied`, `ImplementsAtomicUpgrade`, `NobodyHangs` | `TodoCoversMissing`: what a run does not have on its list is in the ledger, so the least element of the list has all its predecessors applied, however stale the list is. With `EachFileOnce` what a run commits is then exactly the next version. A run waits only for one at its own file that is a step ahead. |
| `BackupProofs` | `TypeCorrect`, `BackupsAreWhole`, `StoredIsBackedUp`, `BackupsAreKept` | Under `OnePerDay` a day's file has one run (`OneRunPerFile`), its chunks are the ones it has sent (`OwnFile`). `backup_overlap` shows the assumption is needed. |
| `BackfillProofs` | `TypeCorrect`, `DoneIsComplete`, `CopiesAreCounted` | `BehindInv`: what is before the cursor is there, from the start because `--from` is fully backfilled. `BeforeInv`: of a day still ahead of the cursor the running one owes a copy, so there is room for it in the count; the archive only takes copies away or leaves one. For any gaps, chunk size, calendar of boundaries and number of failures. |
| `ResponseCacheProofs` | `TypeCorrect`, `AnswersAreFresh` | an entry expires at most `TTL + MaxQuery` after the query it came from, in any cache and any order of threads. |
| `PipelineProofs` | `TypeCorrect`, `NothingIsSkipped`, `NothingOutOfReach`, `SettledIsKept`, `ImplementsFollower`, `LostForGood`, `BestSlotsStayEmpty` | `NoHoles`: a feed that recovers has `raw` without holes from its horizon up, and every pending answer overlaps or touches what is stored, because no answer is further ahead of `raw` than the outage and the window is at least that. `DroppedForGood`: no answer reaches what retention has dropped. `ReadsAreSettled`: what a build has read holds all of what it found when it began that is still there, in whatever order builds read and replace; `ReadsAreWhole`: and no read of the mix has a hole. The last two theorems are what the window costs: what has left it unstored never comes back, and as carbon is fetched for the current half-hour only, nothing in its mart or a draft of it is ever upcoming, so what `best_slots` shows on one behaviour is so on all. |
| `ServingProofs` | `ImplementsCache`, `AnswersStayFresh`, `ServingTypeCorrect`, `SelfRecovery`, `PoolIsSafe`, `RequestsCountDown`, `RequestsGoOn` | Every step of `Serving` is a step of `ResponseCache` or leaves it alone, which carries its theorems over. For `SelfRecovery`, `burned` plus the dead connections of a worker never exceed its places: each failure throws one away and none dies while Postgres is up. `SafeInv`: a place in the pool that is lent is not empty and has one borrower, whose request goes on. |

The constants are arbitrary up to the named assumptions in the modules (`MaxRevAssumption`,
`IngestAssumption`, `ArchiveAssumption`, `MigrateAssumption`, `BackupAssumption`, `CacheAssumption`, `BackfillAssumption`, `PipelineAssumption`, `ServingAssumption`),
which TLC evaluates in every run.

Every safety property that a run checks is also a theorem. Only model-checked are the liveness properties `RunsEnd`, `Converges`,
`EverythingServed` and `RequestsEnd` (fairness and ENABLED are outside TLAPS's reach), and the four violations. Of `RunsEnd` and
`RequestsEnd` the parts that are not about fairness are proved for all instances: a run or request counts down
(`RunsCountDown`, `RequestsCountDown`), and one can always take its next step, or waits for one that can (`NoStandstill`,
`RequestsGoOn`; they state the guards of the next step, in place of ENABLED). Of `EverythingServed` it is that one run is always enough (`NothingOutOfReach`), of
`Converges` that overlapping migrators never hang (`NobodyHangs`). Some theorems have no property in a run, as they
say of all instances what a run could only repeat, or are algebra: `RerunChangesNothing` is why a run whose
acknowledgement was lost may be run again. `NoStandstill` assumes that there are finitely many slots, `ImplementsFollower` and `BestSlotsStayEmpty` that the mart they are about exists. No module declares a RECURSIVE operator.

## 5. Mutations

Every property of a passing run has a mutated definition that breaks it, for instance an upsert
without `COALESCE` (`RealisedKept`), an upsert that reads the old row without its lock
(`PendingIsMerge`), a rollback that keeps its locks (`NobodyWaitsInVain`), a commit in the middle of a batch (`StoresWholeBatches`), a
commit conflict that is refreshed away (`LakeNeverRegresses`), a window that is a day short (`FinalHotInLake`),
an autocommit migrator (`LedgerIsTruthful`, `Converges`), an ignored `pg_dump` status
(`OnlyWholeDumps`), a backfill that skips the chunk that failed (`DoneMeansComplete`), a cache whose hits renew entries (`BoundedStaleness`), a client that asks for
the oldest rows (`EverythingServed`), a limit one too small (`NoGaps`), and a connection that is
kept after it broke (`RecoversByItself`), one that is never given back (`ConnectionsAreSafe`), a retention shorter than the archive's window
(`KeepsBothTiers`), files applied out of order (`UpgradesAtomically`), a probe that is retried for ever (`RequestsAdvance`),
attempts that are not reset for the next request (`RunsAdvance`), an incremental mart (`SettledStaysServed`) and a chunk that is closed at
its end (`OneCopyPerRun`). `PROJECT.json` lists them.

## 6. Not modelled

- The values in rows and responses, SQL of the read side, templates, metrics, Sentry, Terraform,
  compose files: data, formatting or configuration without state that steps of two actors share.
- That overlapping ingest runs may replace a newer forecast by an older one until the next run: the
  last to commit wins, and the source promises nothing else.
- `expire_snapshots`: it removes history, not the head; and its effect on R2 is PyIceberg's.
- The inner steps of `TTLCache`: the library is outside the repository. Each operation is atomic
  here, although the API's threads call it without a lock.
- The order in which one client's requests reach the two workers' caches (`Dockerfile:54` starts two; `cache.py:4`
  says one process): each answer is fresh within `BoundedStaleness`, answers in order are not promised.
- Backoff times; the schedules' clock times. The marts are built daily at 04:00 (`dagster_defs/__init__.py:81`),
  so they are up to a day behind, where `mart_best_slots_24h.sql:18-19` and `docs/api-design.md:102` say "after every ingest".
- A loss of the hot store next to the archive (see Archive above). A feed whose outage exceeds its window, the price on the
  long day in October, is promised nothing: `LostForGood` says what becomes of it.
- The night in which the archive catches up after a missed one (`MaxMissed = 0` in the runs), and a result stored later than the tick it was read
  in (`MaxQuery = 0` in `serving`), rest on the theorems `NothingIsMissed` and `AnswersAreFresh` alone. What PyIceberg, Octopus and
  NESO do inside is external.
- The rate limiter (a counter per client and worker), the rendering of pages and the Pydantic schemas.
- The regions lookup: one SELECT, cached for the life of a process that is one run.
- `clear_all` of the cache, which only tests call.

Noticed while reading, and outside what a behaviour can show: `db_ok` compares the probe's row with `(1,)`
(`api/queries.py:301`) while the pool returns dictionaries (`storage/postgres.py:47`), so `/healthz` says
"degraded" with a healthy database; an unreachable database answers 500 (`api/main.py:130-141`) where
`docs/architecture.md` says 503; the "1x retry on uncaught exception" of the same document, on which
`ingestion/octopus.py:68-70` relies, is configured nowhere; 96 Agile rates are two half-hours short on the long day in
October when the run before it was missed.

## 7. What could come next

Done: Ingest with HotStore, Archive with TieredStore, Migrate with AtomicUpgrade, Backup, ResponseCache, Backfill, Pipeline with
Follower, Serving over ResponseCache.

1. A composition of `Ingest` and `Archive` (and of `Backfill` with `Archive`'s steps) in which the archive reads
   between open transactions; today `Archive!Ingest` is the atomic step that `HotStore` promises.
2. `expire_snapshots` next to a reader of an old snapshot, once PyIceberg's locking is a part of the sources.
3. The rate limiter's windows under two workers.
