------------------------------- MODULE Ingest -------------------------------
(***************************************************************************)
(* The ingest assets of GridPulse (gridpulse/dagster_defs/assets.py):      *)
(* carbon_intensity_national, carbon_intensity_regional, generation_mix    *)
(* and agile_price.  Every asset is                                        *)
(*                                                                         *)
(*   start ping; fetch (bounded retries, validation); upsert of all rows   *)
(*   in one transaction; success ping - or fail ping on an exception.      *)
(*                                                                         *)
(* A slot is a process that executes one asset run after another.  Runs    *)
(* of different slots overlap: Dagster executes the assets of a job in     *)
(* separate processes, the schedules are independent of each other, and    *)
(* an operator may materialise an asset while its schedule fires.  A run   *)
(* can be killed at any point (deploy, OOM).                               *)
(*                                                                         *)
(* Postgres is modelled as the code uses it: executemany sends one upsert  *)
(* per row, each takes the row's lock and holds it until the transaction   *)
(* ends; a statement waits for a lock it cannot have; a cycle of waiting   *)
(* transactions loses one of them; COMMIT publishes all rows at once.      *)
(***************************************************************************)
EXTENDS RawRows

CONSTANTS
  Slot,          \* processes that execute asset runs
  Asset,         \* the ingest assets
  Request,       \* the HTTP requests they make
  RequestsOf,    \* [Asset -> requests of one run]
  KeysOf,        \* [Request -> keys its response may contain]
  WithActual,    \* requests whose response carries realised values
  MaxAttempts,   \* DEFAULT_MAX_ATTEMPTS of http.py
  None           \* no asset, no key

ASSUME IngestAssumption ==
  /\ RequestsOf \in [Asset -> SUBSET Request]
  /\ \A a \in Asset : RequestsOf[a] # {}
  /\ KeysOf \in [Request -> SUBSET Key]
  /\ WithActual \subseteq Request
  /\ MaxAttempts \in Nat \ {0}
  /\ None \notin Asset \cup Key

VARIABLES
  source,   \* what the public APIs would answer now, per key
  table,    \* committed rows of the raw.* tables
  hc,       \* state of each asset's check at healthchecks.io
  pc,       \* control state of each slot
  job,      \* the asset a slot runs
  todo,     \* requests of the run not yet answered
  attempt,  \* number of the current attempt of the current request
  batch,    \* rows the run has fetched and validated
  pend,     \* rows its open transaction has upserted; their locks are held
  want      \* key of the statement a slot waits in

runVars == <<pc, job, todo, attempt, batch, pend, want>>
vars == <<source, table, hc, runVars>>

PC == {"idle", "fetch", "upsert", "wait", "stored", "raised"}

TypeOK ==
  /\ source \in Table
  /\ table \in Table
  /\ hc \in [Asset -> {"new", "started", "up", "down"}]
  /\ pc \in [Slot -> PC]
  /\ job \in [Slot -> Asset \cup {None}]
  /\ todo \in [Slot -> SUBSET Request]
  /\ attempt \in [Slot -> 1..MaxAttempts]
  /\ batch \in [Slot -> Table]
  /\ pend \in [Slot -> Table]
  /\ want \in [Slot -> Key \cup {None}]

Init ==
  /\ source = EmptyTable
  /\ table = EmptyTable
  /\ hc = [a \in Asset |-> "new"]
  /\ pc = [s \in Slot |-> "idle"]
  /\ job = [s \in Slot |-> None]
  /\ todo = [s \in Slot |-> {}]
  /\ attempt = [s \in Slot |-> 1]
  /\ batch = [s \in Slot |-> EmptyTable]
  /\ pend = [s \in Slot |-> EmptyTable]
  /\ want = [s \in Slot |-> None]

-----------------------------------------------------------------------------
(* The sources.  They publish a half-hour, revise it, and realise it.      *)

Revise(k) ==
  /\ source[k].rev < MaxRev
  /\ source' = [source EXCEPT ![k].rev = @ + 1]
  /\ UNCHANGED <<table, hc, runVars>>

Realise(k) ==
  /\ Present(source[k])
  /\ ~source[k].actual
  /\ \E q \in WithActual : k \in KeysOf[q]
  /\ source' = [source EXCEPT ![k].actual = TRUE]
  /\ UNCHANGED <<table, hc, runVars>>

-----------------------------------------------------------------------------
(* The run of an asset.                                                    *)

(* One ping; every error on the way is swallowed.                          *)
Ping(a, state) == hc' \in {hc, [hc EXCEPT ![a] = state]}

(* The locals of the asset function are gone once it returns or raises. *)
Leave(s, outcome) ==
  /\ pc' = [pc EXCEPT ![s] = outcome]
  /\ todo' = [todo EXCEPT ![s] = {}]
  /\ attempt' = [attempt EXCEPT ![s] = 1]
  /\ batch' = [batch EXCEPT ![s] = EmptyTable]
  /\ want' = [want EXCEPT ![s] = None]

(* Mutant of Rollback: the connection is never given back to the pool, so  *)
(* its transaction stays open.                                             *)
RollbackForgotten(s) == pend' = pend

Rollback(s) == pend' = [pend EXCEPT ![s] = EmptyTable]

Start(s, a) ==
  /\ pc[s] = "idle"
  /\ Ping(a, "started")
  /\ pc' = [pc EXCEPT ![s] = "fetch"]
  /\ job' = [job EXCEPT ![s] = a]
  /\ todo' = [todo EXCEPT ![s] = RequestsOf[a]]
  /\ UNCHANGED <<source, table, attempt, batch, pend, want>>

(* Mutant of Answer: the forecast is stored where there is no actual yet.  *)
AnswerForecastAsActual(q) ==
  [k \in Key |->
    IF k \in KeysOf[q]
    THEN [rev |-> source[k].rev, actual |-> q \in WithActual]
    ELSE NoRow]

(* The validated rows of a response: what is published of the request's    *)
(* keys; /regional has no realised values, so its rows have actual=None.   *)
Answer(q) ==
  [k \in Key |->
    IF k \in KeysOf[q]
    THEN [rev |-> source[k].rev, actual |-> q \in WithActual /\ source[k].actual]
    ELSE NoRow]

(* Mutant of FetchOk: one retry loop around all requests of a run.         *)
FetchOkKeepsAttempts(s, q) ==
  /\ pc[s] = "fetch"
  /\ q \in todo[s]
  /\ todo' = [todo EXCEPT ![s] = @ \ {q}]
  /\ batch' = [batch EXCEPT ![s] = Upsert(@, Answer(q))]
  /\ pc' = [pc EXCEPT ![s] = IF todo[s] = {q} THEN "upsert" ELSE "fetch"]
  /\ UNCHANGED <<source, table, hc, job, attempt, pend, want>>

(* A 2xx answer that validates; the next request starts at attempt 1. *)
FetchOk(s, q) ==
  /\ pc[s] = "fetch"
  /\ q \in todo[s]
  /\ todo' = [todo EXCEPT ![s] = @ \ {q}]
  /\ attempt' = [attempt EXCEPT ![s] = 1]
  /\ batch' = [batch EXCEPT ![s] = Upsert(@, Answer(q))]
  /\ pc' = [pc EXCEPT ![s] = IF todo[s] = {q} THEN "upsert" ELSE "fetch"]
  /\ UNCHANGED <<source, table, hc, job, pend, want>>

(* Mutant of FetchRetry: no stop condition.                                *)
FetchRetryForever(s) ==
  /\ pc[s] = "fetch"
  /\ attempt' = [attempt EXCEPT ![s] = @ + 1]
  /\ UNCHANGED <<source, table, hc, pc, job, todo, batch, pend, want>>

(* Mutant of FetchRetry: the attempts of a request start over.             *)
FetchRetryStartsOver(s) ==
  /\ pc[s] = "fetch"
  /\ attempt' = [attempt EXCEPT ![s] = IF @ < MaxAttempts THEN @ + 1 ELSE 1]
  /\ UNCHANGED <<source, table, hc, pc, job, todo, batch, pend, want>>

(* 5xx, 429 or a transport error: tenacity sleeps and tries again ... *)
FetchRetry(s) ==
  /\ pc[s] = "fetch"
  /\ attempt[s] < MaxAttempts
  /\ attempt' = [attempt EXCEPT ![s] = @ + 1]
  /\ UNCHANGED <<source, table, hc, pc, job, todo, batch, pend, want>>

(* ... until the attempts are used up; any other 4xx, an undecodable body, *)
(* schema drift and success=false raise at once.                           *)
FetchRaise(s) ==
  /\ pc[s] = "fetch"
  /\ Leave(s, "raised")
  /\ UNCHANGED <<source, table, hc, job, pend>>

-----------------------------------------------------------------------------
(* The upsert transaction.                                                 *)

(* No rows: return 0 without opening a transaction. *)
SkipEmpty(s) ==
  /\ pc[s] = "upsert"
  /\ KeysIn(batch[s]) = {}
  /\ Leave(s, "stored")
  /\ UNCHANGED <<source, table, hc, job, pend>>

(* The rows go out in the order of the response, which nobody sorts. *)
SendRow(s, k) ==
  /\ pc[s] = "upsert"
  /\ k \in KeysIn(batch[s]) \ KeysIn(pend[s])
  /\ pc' = [pc EXCEPT ![s] = "wait"]
  /\ want' = [want EXCEPT ![s] = k]
  /\ UNCHANGED <<source, table, hc, job, todo, attempt, batch, pend>>

HoldsLock(t, k) == Present(pend[t][k])

(* Mutant of UpsertRow: the existing row is read by a SELECT of its own,   *)
(* which waits for nobody.                                                 *)
UpsertRowUnlocked(s) ==
  LET k == want[s] IN
  /\ pc[s] = "wait"
  /\ pend' = [pend EXCEPT ![s][k] = Merge(table[k], batch[s][k])]
  /\ pc' = [pc EXCEPT ![s] = "upsert"]
  /\ want' = [want EXCEPT ![s] = None]
  /\ UNCHANGED <<source, table, hc, job, todo, attempt, batch>>

(* The statement gets the row's lock and merges into the committed row. *)
UpsertRow(s) ==
  LET k == want[s] IN
  /\ pc[s] = "wait"
  /\ \A t \in Slot \ {s} : ~HoldsLock(t, k)
  /\ pend' = [pend EXCEPT ![s][k] = Merge(table[k], batch[s][k])]
  /\ pc' = [pc EXCEPT ![s] = "upsert"]
  /\ want' = [want EXCEPT ![s] = None]
  /\ UNCHANGED <<source, table, hc, job, todo, attempt, batch>>

(* Mutant of Commit: it may come before every row was sent.                *)
CommitEarly(s) ==
  /\ pc[s] = "upsert"
  /\ KeysIn(pend[s]) # {}
  /\ table' = [k \in Key |-> IF HoldsLock(s, k) THEN pend[s][k] ELSE table[k]]
  /\ Rollback(s)
  /\ Leave(s, "stored")
  /\ UNCHANGED <<source, hc, job>>

(* COMMIT publishes the transaction's rows and releases its locks.  When   *)
(* the acknowledgement is lost the client sees an exception instead.       *)
Commit(s) ==
  /\ pc[s] = "upsert"
  /\ KeysIn(batch[s]) # {}
  /\ KeysIn(batch[s]) \subseteq KeysIn(pend[s])
  /\ table' = [k \in Key |-> IF HoldsLock(s, k) THEN pend[s][k] ELSE table[k]]
  /\ Rollback(s)
  /\ \E outcome \in {"stored", "raised"} : Leave(s, outcome)
  /\ UNCHANGED <<source, hc, job>>

Abort(s) ==
  /\ Rollback(s)
  /\ Leave(s, "raised")
  /\ UNCHANGED <<source, table, hc, job>>

(* A CHECK or foreign key refuses a row, or the connection is gone. *)
StatementFails(s) ==
  /\ pc[s] = "wait"
  /\ Abort(s)

WaitsFor(s, t) == s # t /\ pc[s] = "wait" /\ HoldsLock(t, want[s])

Deadlocked(s) ==
  \E S \in SUBSET Slot :
    /\ s \in S
    /\ \A t \in S : (\E u \in S : WaitsFor(t, u)) /\ (\E u \in S : WaitsFor(u, t))

(* deadlock_timeout: Postgres aborts a member of a cycle of waiters. *)
DeadlockVictim(s) ==
  /\ Deadlocked(s)
  /\ Abort(s)

-----------------------------------------------------------------------------
(* The end of the run.                                                     *)

EndRun(s) ==
  /\ Leave(s, "idle")
  /\ job' = [job EXCEPT ![s] = None]

ReportSuccess(s) ==
  /\ pc[s] = "stored"
  /\ Ping(job[s], "up")
  /\ EndRun(s)
  /\ UNCHANGED <<source, table, pend>>

ReportFailure(s) ==
  /\ pc[s] = "raised"
  /\ Ping(job[s], "down")
  /\ EndRun(s)
  /\ UNCHANGED <<source, table, pend>>

(* SIGKILL, OOM, container restart: no handler runs, no ping is sent, and  *)
(* the server rolls an open transaction back when the connection drops.    *)
Kill(s) ==
  /\ pc[s] # "idle"
  /\ Rollback(s)
  /\ EndRun(s)
  /\ UNCHANGED <<source, table, hc>>

-----------------------------------------------------------------------------
RunStep(s) ==
  \/ \E q \in Request : FetchOk(s, q)
  \/ FetchRetry(s)
  \/ FetchRaise(s)
  \/ SkipEmpty(s)
  \/ \E k \in Key : SendRow(s, k)
  \/ UpsertRow(s)
  \/ Commit(s)
  \/ StatementFails(s)
  \/ DeadlockVictim(s)
  \/ ReportSuccess(s)
  \/ ReportFailure(s)

Next ==
  \/ \E k \in Key : Revise(k) \/ Realise(k)
  \/ \E s \in Slot : RunStep(s) \/ Kill(s) \/ \E a \in Asset : Start(s, a)

Spec == Init /\ [][Next]_vars

(* What the scheduler and the timeouts justify: a live run takes its next  *)
(* step (every HTTP call is bounded by DEFAULT_TIMEOUT, and Postgres       *)
(* resolves deadlocks), and the queue of a row lock is first come first    *)
(* served, so a waiter is not overtaken for ever.  Starting a run, killing *)
(* it and a refused statement are not fair: they need never happen.        *)
Progress(s) ==
  \/ \E q \in Request : FetchOk(s, q)
  \/ FetchRetry(s)
  \/ FetchRaise(s)
  \/ SkipEmpty(s)
  \/ \E k \in Key : SendRow(s, k)
  \/ Commit(s)
  \/ DeadlockVictim(s)
  \/ ReportSuccess(s)
  \/ ReportFailure(s)

FairSpec ==
  Spec /\ \A s \in Slot : WF_vars(Progress(s)) /\ SF_vars(UpsertRow(s))

-----------------------------------------------------------------------------
(* Properties.                                                             *)

(* A slot is stuck when it waits for a lock and is no candidate for        *)
(* Postgres to abort.                                                      *)
Stuck(s) == (\E t \in Slot : WaitsFor(s, t)) /\ ~Deadlocked(s)

(* Whomever the slots of S wait for is in S. *)
WaitsWithin(S) == \A s \in S, t \in Slot : WaitsFor(s, t) => t \in S

(* However many transactions wait for each other's rows, which nobody      *)
(* sorts (upsert_carbon_intensity_rows), one of them can go on: it can     *)
(* take its lock, send or commit, or it is in a cycle that Postgres        *)
(* breaks.  No lock is left behind by a run that has failed, was killed or *)
(* has committed.                                                          *)
NobodyWaitsInVain ==
  \A S \in SUBSET Slot :
    WaitsWithin(S) /\ (\E s \in S : pc[s] = "wait") =>
      \E t \in S : pc[t] \in {"upsert", "wait"} /\ ~Stuck(t)

(* What an open transaction is about to publish is still the merge of its  *)
(* batch with the row that is committed NOW: no concurrent commit slips    *)
(* between the COALESCE and the COMMIT (upsert_carbon_intensity_rows).     *)
PendingIsMerge ==
  \A s \in Slot, k \in Key :
    HoldsLock(s, k) => pend[s][k] = Merge(table[k], batch[s][k])

(* Nothing in the hot store is newer than the source or realised where the *)
(* source has not realised it, and a half-hour of a forecast-only endpoint *)
(* (to_rows of the regional response) never carries a realised value.      *)
HotComesFromSource ==
  \A k \in Key :
    /\ table[k].rev <= source[k].rev
    /\ table[k].actual =>
         source[k].actual /\ \E q \in WithActual : k \in KeysOf[q]

(* Once a realised value is committed no run ever wipes it, whatever the   *)
(* order in which overlapping runs fetch and commit: the promise of the    *)
(* comment under _UPSERT_CARBON_INTENSITY_SQL.                             *)
RealisedKept == [][\A k \in Key : table[k].actual => table'[k].actual]_vars

(* A run only ever gets nearer to its end: fetch, upsert, ping; in the     *)
(* first the answers come in and attempts are used up, in the second the   *)
(* transaction gets row after row.                                         *)
StagesLeft ==
  [fetch |-> 3, upsert |-> 2, wait |-> 2, stored |-> 1, raised |-> 1, idle |-> 0]

FetchAdvances(s) ==
  /\ pc[s] = "fetch" /\ pc'[s] = "fetch"
  /\ \/ todo'[s] \subseteq todo[s] /\ todo'[s] # todo[s] /\ attempt'[s] = 1
     \/ todo'[s] = todo[s] /\ attempt'[s] > attempt[s]

UpsertAdvances(s) ==
  LET sent == KeysIn(pend[s]) IN
  \/ pc[s] = "upsert" /\ pc'[s] = "wait" /\ sent' = sent
  \/ pc[s] = "wait" /\ pc'[s] = "upsert" /\ sent \subseteq sent' /\ sent' # sent

RunAdvances(s) ==
  \/ StagesLeft[pc'[s]] < StagesLeft[pc[s]]
  \/ FetchAdvances(s)
  \/ UpsertAdvances(s)

(* No step, of this run or of another, takes a run back: no retry starts   *)
(* over, no request inherits the attempts of the one before (http_retry    *)
(* is called anew for each), no row is sent twice (executemany).           *)
RunsAdvance ==
  [][\A s \in Slot :
       pc[s] = "idle" \/ RunAdvances(s) \/ UNCHANGED <<pc[s], todo[s], attempt[s], pend[s]>>]_vars

(* Every run ends, also when upserts wait for each other's rows.           *)
RunsEnd == \A s \in Slot : pc[s] # "idle" ~> pc[s] = "idle"

(* The run of an asset implements the atomic store of HotStore.            *)
PhaseOf(p) ==
  IF p = "fetch" THEN "working"
  ELSE IF p \in {"upsert", "wait"} THEN "holding"
  ELSE IF p = "raised" THEN "lost" ELSE p

HS == INSTANCE HotStore WITH phase <- [s \in Slot |-> PhaseOf(pc[s])]

(* Whole batches or nothing, and "up" only from a run that has stored.     *)
StoresWholeBatches == HS!Spec
=============================================================================
