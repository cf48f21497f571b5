---------------------------- MODULE IngestProofs ----------------------------
(***************************************************************************)
(* Proofs about Ingest for every set of slots, assets, requests and keys   *)
(* and every bound on revisions and attempts.                              *)
(***************************************************************************)
EXTENDS Ingest, FiniteSetTheorems, TLAPS

LEMMA MergeType ==
  ASSUME NEW old \in Row, NEW new \in Row
  PROVE  Merge(old, new) \in Row
BY MaxRevAssumption DEF Merge, Row, Present

LEMMA UpsertType ==
  ASSUME NEW t \in Table, NEW b \in Table
  PROVE  Upsert(t, b) \in Table
BY MergeType DEF Upsert, Table

LEMMA EmptyTableType == EmptyTable \in Table
BY MaxRevAssumption DEF EmptyTable, NoRow, Table, Row

LEMMA AnswerType ==
  ASSUME TypeOK, NEW q \in Request
  PROVE  Answer(q) \in Table
<1>1. ASSUME NEW k \in Key
      PROVE  [rev |-> source[k].rev, actual |-> q \in WithActual /\ source[k].actual] \in Row
  <2>1. source[k] \in Row
    BY DEF TypeOK, Table
  <2>2. (q \in WithActual /\ source[k].actual) \in BOOLEAN
    OBVIOUS
  <2>3. source[k].rev \in 0..MaxRev
    BY <2>1 DEF Row
  <2>. QED
    BY <2>2, <2>3 DEF Row
<1>2. NoRow \in Row
  BY MaxRevAssumption DEF NoRow, Row
<1>. QED
  BY <1>1, <1>2 DEF Answer, Table

-----------------------------------------------------------------------------
(* Type correctness. *)

LEMMA InitType == Init => TypeOK
<1>. SUFFICES ASSUME Init PROVE TypeOK
  OBVIOUS
<1>. QED
  BY EmptyTableType, IngestAssumption DEF Init, TypeOK, PC

LEMMA LeaveType ==
  ASSUME TypeOK, NEW s \in Slot, NEW outcome \in PC, Leave(s, outcome)
  PROVE  /\ pc' \in [Slot -> PC]
         /\ todo' \in [Slot -> SUBSET Request]
         /\ attempt' \in [Slot -> 1..MaxAttempts]
         /\ batch' \in [Slot -> Table]
         /\ want' \in [Slot -> Key \cup {None}]
BY EmptyTableType, IngestAssumption DEF TypeOK, Leave

LEMMA PingType ==
  ASSUME TypeOK, NEW a, NEW v \in {"started", "up", "down"}, Ping(a, v)
  PROVE  hc' \in [Asset -> {"new", "started", "up", "down"}]
BY DEF TypeOK, Ping

LEMMA NextType == TypeOK /\ [Next]_vars => TypeOK'
<1>. SUFFICES ASSUME TypeOK, [Next]_vars
              PROVE  TypeOK'
  OBVIOUS
<1>. USE DEF PC
<1>1. ASSUME NEW k \in Key, Revise(k) PROVE TypeOK'
  <2>. DEFINE row == source[k]
  <2>0. row \in Row /\ row.rev < MaxRev
    BY <1>1 DEF Revise, TypeOK, Table
  <2>1. [row EXCEPT !.rev = @ + 1] \in Row
    <3>. HIDE DEF row
    <3>1. row.rev + 1 \in 0..MaxRev
      BY <2>0, MaxRevAssumption DEF Row
    <3>. QED
      BY <2>0, <3>1 DEF Row
  <2>2. source' \in Table
    BY <1>1, <2>1 DEF Revise, TypeOK, Table
  <2>. QED
    BY <1>1, <2>2 DEF Revise, TypeOK, runVars
<1>2. ASSUME NEW k \in Key, Realise(k) PROVE TypeOK'
  <2>1. [source[k] EXCEPT !.actual = TRUE] \in Row
    BY <1>2 DEF Realise, TypeOK, Table, Row
  <2>2. source' \in Table
    BY <1>2, <2>1 DEF Realise, TypeOK, Table
  <2>. QED
    BY <1>2, <2>2 DEF Realise, TypeOK, runVars
<1>3. ASSUME NEW s \in Slot, NEW a \in Asset, Start(s, a) PROVE TypeOK'
  BY <1>3, PingType, IngestAssumption DEF Start, TypeOK
<1>4. ASSUME NEW s \in Slot, NEW q \in Request, FetchOk(s, q) PROVE TypeOK'
  <2>1. Upsert(batch[s], Answer(q)) \in Table
    BY AnswerType, UpsertType DEF TypeOK
  <2>2. batch' \in [Slot -> Table]
    BY <1>4, <2>1 DEF FetchOk, TypeOK
  <2>. QED
    BY <1>4, <2>2, IngestAssumption DEF FetchOk, TypeOK
<1>5. ASSUME NEW s \in Slot, FetchRetry(s) PROVE TypeOK'
  BY <1>5, IngestAssumption DEF FetchRetry, TypeOK
<1>6. ASSUME NEW s \in Slot, FetchRaise(s) PROVE TypeOK'
  BY <1>6, LeaveType DEF FetchRaise, TypeOK
<1>7. ASSUME NEW s \in Slot, SkipEmpty(s) PROVE TypeOK'
  BY <1>7, LeaveType DEF SkipEmpty, TypeOK
<1>8. ASSUME NEW s \in Slot, NEW k \in Key, SendRow(s, k) PROVE TypeOK'
  BY <1>8 DEF SendRow, TypeOK
<1>9. ASSUME NEW s \in Slot, UpsertRow(s) PROVE TypeOK'
  <2>. DEFINE k == want[s]
  <2>1. CASE k \in Key
    <3>1. Merge(table[k], batch[s][k]) \in Row
      BY <2>1, MergeType DEF TypeOK, Table
    <3>2. [pend[s] EXCEPT ![k] = Merge(table[k], batch[s][k])] \in Table
      BY <3>1 DEF TypeOK, Table
    <3>3. pend' \in [Slot -> Table]
      BY <1>9, <3>2 DEF UpsertRow, TypeOK
    <3>. QED
      BY <1>9, <3>3 DEF UpsertRow, TypeOK
  <2>2. CASE k \notin Key
    <3>1. pend[s] \in Table
      BY DEF TypeOK
    <3>2. [pend[s] EXCEPT ![k] = Merge(table[k], batch[s][k])] = pend[s]
      BY <2>2, <3>1 DEF Table
    <3>3. pend' \in [Slot -> Table]
      BY <1>9, <3>1, <3>2 DEF UpsertRow, TypeOK
    <3>. QED
      BY <1>9, <3>3 DEF UpsertRow, TypeOK
  <2>. QED
    BY <2>1, <2>2
<1>10. ASSUME NEW s \in Slot, Commit(s) PROVE TypeOK'
  <2>1. table' \in Table
    BY <1>10 DEF Commit, TypeOK, Table
  <2>2. pend' \in [Slot -> Table]
    BY <1>10, EmptyTableType DEF Commit, Rollback, TypeOK
  <2>. QED
    BY <1>10, <2>1, <2>2, LeaveType DEF Commit, TypeOK
<1>11. ASSUME NEW s \in Slot, Abort(s) PROVE TypeOK'
  <2>1. pend' \in [Slot -> Table]
    BY <1>11, EmptyTableType DEF Abort, Rollback, TypeOK
  <2>. QED
    BY <1>11, <2>1, LeaveType DEF Abort, TypeOK
<1>12. ASSUME NEW s \in Slot, EndRun(s), table' = table, source' = source,
              pend' = pend \/ Rollback(s),
              hc' = hc \/ Ping(job[s], "up") \/ Ping(job[s], "down")
       PROVE  TypeOK'
  <2>1. pend' \in [Slot -> Table]
    BY <1>12, EmptyTableType DEF Rollback, TypeOK
  <2>2. hc' \in [Asset -> {"new", "started", "up", "down"}]
    BY <1>12, PingType DEF TypeOK
  <2>. QED
    BY <1>12, <2>1, <2>2, LeaveType DEF EndRun, TypeOK
<1>13. CASE UNCHANGED vars
  BY <1>13 DEF vars, runVars, TypeOK
<1>. QED
  BY <1>1, <1>2, <1>3, <1>4, <1>5, <1>6, <1>7, <1>8, <1>9, <1>10, <1>11, <1>12, <1>13
  DEF Next, RunStep, StatementFails, DeadlockVictim, ReportSuccess, ReportFailure, Kill

(* The variables of Ingest always have their types. *)
THEOREM TypeCorrect == Spec => []TypeOK
<1>. QED
  BY InitType, NextType, PTL DEF Spec

-----------------------------------------------------------------------------
(* Row locks and pending writes.  PendingIsMerge is not inductive: no two  *)
(* transactions hold a row, a batch may only be replaced while nothing is  *)
(* pending, locks are only held inside a transaction, and only for rows of *)
(* the batch, and a slot only waits in a statement for a row of its batch. *)

ExclusiveLocks ==
  \A s, t \in Slot, k \in Key : HoldsLock(s, k) /\ HoldsLock(t, k) => s = t

LocksOnlyInTransaction ==
  \A s \in Slot, k \in Key : HoldsLock(s, k) => pc[s] \in {"upsert", "wait"}

LocksOnlyOfBatch ==
  \A s \in Slot, k \in Key : HoldsLock(s, k) => Present(batch[s][k])

WaitsForBatchRow ==
  \A s \in Slot : pc[s] = "wait" => want[s] \in Key /\ Present(batch[s][want[s]])

LockInv ==
  /\ TypeOK
  /\ ExclusiveLocks
  /\ PendingIsMerge
  /\ LocksOnlyInTransaction
  /\ LocksOnlyOfBatch
  /\ WaitsForBatchRow

LEMMA EmptyHasNoRow == \A k \in Key : EmptyTable[k] = NoRow /\ ~Present(EmptyTable[k])
BY DEF EmptyTable, NoRow, Present

LEMMA MergePresent ==
  ASSUME NEW old \in Row, NEW new \in Row, Present(new)
  PROVE  /\ Present(Merge(old, new))
         /\ Merge(old, new).actual <=> new.actual \/ old.actual
         /\ Merge(old, new).rev = new.rev
BY DEF Present, Merge, Row

LEMMA InitLockInv == Init => LockInv
<1>. SUFFICES ASSUME Init PROVE LockInv
  OBVIOUS
<1>1. \A s \in Slot, k \in Key : ~HoldsLock(s, k)
  BY EmptyHasNoRow DEF Init, HoldsLock
<1>. QED
  BY <1>1, InitType
  DEF Init, LockInv, ExclusiveLocks, PendingIsMerge, LocksOnlyInTransaction,
      LocksOnlyOfBatch, WaitsForBatchRow

(* A step of slot s that touches only s's own state and leaves it without  *)
(* locks, out of "wait", preserves LockInv, whatever happens to rows that  *)
(* only s had locked.                                                      *)
LEMMA Unlocked ==
  ASSUME LockInv, TypeOK', NEW s \in Slot,
         pend' = [pend EXCEPT ![s] = EmptyTable],
         \A t \in Slot \ {s} : pc'[t] = pc[t] /\ batch'[t] = batch[t] /\ want'[t] = want[t],
         pc'[s] # "wait",
         \A k \in Key : ~HoldsLock(s, k) => table'[k] = table[k]
  PROVE  LockInv'
<1>1. \A k \in Key : ~HoldsLock(s, k)'
  BY EmptyHasNoRow DEF HoldsLock, LockInv, TypeOK
<1>2. \A t \in Slot \ {s} : pend'[t] = pend[t]
  BY DEF LockInv, TypeOK
<1>3. \A t \in Slot \ {s}, k \in Key : HoldsLock(t, k)' <=> HoldsLock(t, k)
  BY <1>2 DEF HoldsLock
<1>4. ExclusiveLocks'
  BY <1>1, <1>3 DEF LockInv, ExclusiveLocks
<1>5. PendingIsMerge'
  <2>. SUFFICES ASSUME NEW t \in Slot, NEW k \in Key, HoldsLock(t, k)'
                PROVE  pend'[t][k] = Merge(table'[k], batch'[t][k])
    BY DEF PendingIsMerge
  <2>1. t # s /\ HoldsLock(t, k)
    BY <1>1, <1>3
  <2>2. ~HoldsLock(s, k)
    BY <2>1 DEF LockInv, ExclusiveLocks
  <2>. QED
    BY <1>2, <2>1, <2>2 DEF LockInv, PendingIsMerge
<1>6. LocksOnlyInTransaction' /\ LocksOnlyOfBatch'
  BY <1>1, <1>3 DEF LockInv, LocksOnlyInTransaction, LocksOnlyOfBatch
<1>7. WaitsForBatchRow'
  BY DEF LockInv, WaitsForBatchRow
<1>. QED
  BY <1>4, <1>5, <1>6, <1>7 DEF LockInv

(* A step that changes neither locks nor committed rows nor a batch in     *)
(* use, and starts no wait.                                                *)
LEMMA LocksKept ==
  ASSUME LockInv, TypeOK', NEW s \in Slot,
         pend' = pend, table' = table,
         \A t \in Slot \ {s} : pc'[t] = pc[t] /\ batch'[t] = batch[t] /\ want'[t] = want[t],
         pc'[s] # "wait",
         \A k \in Key : ~HoldsLock(s, k)
  PROVE  LockInv'
<1>1. \A t \in Slot, k \in Key : HoldsLock(t, k)' <=> HoldsLock(t, k)
  BY DEF HoldsLock
<1>. QED
  BY <1>1
  DEF LockInv, ExclusiveLocks, PendingIsMerge, LocksOnlyInTransaction,
      LocksOnlyOfBatch, WaitsForBatchRow

LEMMA NextLockInv == LockInv /\ [Next]_vars => LockInv'
<1>. SUFFICES ASSUME LockInv, [Next]_vars
              PROVE  LockInv'
  OBVIOUS
<1>t. TypeOK /\ TypeOK'
  BY NextType DEF LockInv
<1>n. ASSUME NEW s \in Slot, pc[s] \notin {"upsert", "wait"}
      PROVE  \A k \in Key : ~HoldsLock(s, k)
  BY <1>n DEF LockInv, LocksOnlyInTransaction
<1>1. ASSUME NEW k \in Key, Revise(k) \/ Realise(k) PROVE LockInv'
  BY <1>1, <1>t
  DEF Revise, Realise, runVars, LockInv, ExclusiveLocks, PendingIsMerge,
      LocksOnlyInTransaction, LocksOnlyOfBatch, WaitsForBatchRow, HoldsLock
<1>2. ASSUME NEW s \in Slot, NEW a \in Asset, Start(s, a) PROVE LockInv'
  BY <1>2, <1>t, <1>n, LocksKept DEF Start, TypeOK
<1>3. ASSUME NEW s \in Slot, NEW q \in Request, FetchOk(s, q) PROVE LockInv'
  BY <1>3, <1>t, <1>n, LocksKept DEF FetchOk, TypeOK
<1>4. ASSUME NEW s \in Slot, FetchRetry(s) PROVE LockInv'
  BY <1>4, <1>t, <1>n, LocksKept DEF FetchRetry, TypeOK
<1>5. ASSUME NEW s \in Slot, FetchRaise(s) PROVE LockInv'
  BY <1>5, <1>t, <1>n, LocksKept DEF FetchRaise, Leave, TypeOK
<1>6. ASSUME NEW s \in Slot, SkipEmpty(s) PROVE LockInv'
  <2>1. \A k \in Key : ~HoldsLock(s, k)
    BY <1>6 DEF SkipEmpty, KeysIn, LockInv, LocksOnlyOfBatch
  <2>. QED
    BY <1>6, <1>t, <2>1, LocksKept DEF SkipEmpty, Leave, TypeOK
<1>7. ASSUME NEW s \in Slot, NEW k \in Key, SendRow(s, k) PROVE LockInv'
  <2>1. \A t \in Slot, l \in Key : HoldsLock(t, l)' <=> HoldsLock(t, l)
    BY <1>7 DEF SendRow, HoldsLock
  <2>2. LocksOnlyInTransaction'
    BY <1>7, <1>t, <2>1 DEF SendRow, TypeOK, LockInv, LocksOnlyInTransaction
  <2>3. WaitsForBatchRow'
    BY <1>7, <1>t DEF SendRow, TypeOK, LockInv, WaitsForBatchRow, KeysIn
  <2>. QED
    BY <1>7, <1>t, <2>1, <2>2, <2>3
    DEF SendRow, LockInv, ExclusiveLocks, PendingIsMerge, LocksOnlyOfBatch
<1>8. ASSUME NEW s \in Slot, UpsertRow(s) PROVE LockInv'
  <2>. DEFINE k == want[s]
              new == Merge(table[k], batch[s][k])
  <2>1. k \in Key /\ Present(batch[s][k])
    BY <1>8 DEF UpsertRow, LockInv, WaitsForBatchRow
  <2>2. pend' = [pend EXCEPT ![s][k] = new]
    BY <1>8 DEF UpsertRow
  <2>3. pend'[s][k] = new /\ Present(new)
    BY <1>t, <2>1, <2>2, MergePresent DEF TypeOK, Table
  <2>4. \A t \in Slot, l \in Key : t # s \/ l # k => pend'[t][l] = pend[t][l]
    BY <1>t, <2>1, <2>2 DEF TypeOK, Table
  <2>5. ExclusiveLocks'
    BY <1>8, <2>1, <2>4 DEF UpsertRow, LockInv, ExclusiveLocks, HoldsLock
  <2>6. table' = table /\ batch' = batch
    BY <1>8 DEF UpsertRow
  <2>7. PendingIsMerge'
    BY <2>1, <2>3, <2>4, <2>6 DEF LockInv, PendingIsMerge, HoldsLock
  <2>8. LocksOnlyOfBatch'
    BY <2>1, <2>4, <2>6 DEF LockInv, LocksOnlyOfBatch, HoldsLock
  <2>9. pc' = [pc EXCEPT ![s] = "upsert"]
    BY <1>8 DEF UpsertRow
  <2>10. LocksOnlyInTransaction'
    BY <1>t, <2>1, <2>4, <2>9 DEF TypeOK, LockInv, LocksOnlyInTransaction, HoldsLock
  <2>11. WaitsForBatchRow'
    BY <1>8, <1>t, <2>6, <2>9 DEF UpsertRow, TypeOK, LockInv, WaitsForBatchRow
  <2>. QED
    BY <1>t, <2>5, <2>7, <2>8, <2>10, <2>11 DEF LockInv
<1>9. ASSUME NEW s \in Slot, Commit(s) PROVE LockInv'
  BY <1>9, <1>t, Unlocked DEF Commit, Rollback, Leave, TypeOK, Table
<1>10. ASSUME NEW s \in Slot, Abort(s) PROVE LockInv'
  BY <1>10, <1>t, Unlocked DEF Abort, Rollback, Leave, TypeOK
<1>11. ASSUME NEW s \in Slot, ReportSuccess(s) \/ ReportFailure(s) PROVE LockInv'
  BY <1>11, <1>t, <1>n, LocksKept
  DEF ReportSuccess, ReportFailure, EndRun, Leave, TypeOK
<1>12. ASSUME NEW s \in Slot, Kill(s) PROVE LockInv'
  BY <1>12, <1>t, Unlocked DEF Kill, EndRun, Leave, Rollback, TypeOK
<1>13. CASE UNCHANGED vars
  BY <1>13
  DEF vars, runVars, LockInv, TypeOK, ExclusiveLocks, PendingIsMerge,
      LocksOnlyInTransaction, LocksOnlyOfBatch, WaitsForBatchRow, HoldsLock
<1>. QED
  BY <1>1, <1>2, <1>3, <1>4, <1>5, <1>6, <1>7, <1>8, <1>9, <1>10, <1>11, <1>12, <1>13
  DEF Next, RunStep, StatementFails, DeadlockVictim

LEMMA LockInvariant == Spec => []LockInv
<1>. QED
  BY InitLockInv, NextLockInv, PTL DEF Spec

(* What a transaction will publish is the merge with the committed row.    *)
THEOREM NoLostMerge == Spec => []PendingIsMerge
<1>1. LockInv => PendingIsMerge
  BY DEF LockInv
<1>. QED
  BY <1>1, LockInvariant, PTL

-----------------------------------------------------------------------------
(* Realised values.  Only COMMIT changes the hot store, and what it writes *)
(* is a merge with the row it replaces.                                    *)

LEMMA TableStep ==
  ASSUME LockInv, [Next]_vars
  PROVE  table' = table \/ \E s \in Slot : Commit(s)
BY DEF vars, runVars, Next, RunStep, Revise, Realise, Start, FetchOk, FetchRetry,
       FetchRaise, SkipEmpty, SendRow, UpsertRow, StatementFails, DeadlockVictim,
       Abort, ReportSuccess, ReportFailure, EndRun, Kill

LEMMA CommitIsUpsert ==
  ASSUME LockInv, NEW s \in Slot, Commit(s)
  PROVE  table' = Upsert(table, batch[s])
<1>1. ASSUME NEW k \in Key, HoldsLock(s, k)
      PROVE  table'[k] = Merge(table[k], batch[s][k])
  BY <1>1 DEF Commit, LockInv, PendingIsMerge
<1>2. ASSUME NEW k \in Key, ~HoldsLock(s, k)
      PROVE  table'[k] = Merge(table[k], batch[s][k])
  <2>1. ~Present(batch[s][k])
    BY <1>2 DEF Commit, KeysIn, HoldsLock
  <2>. QED
    BY <1>2, <2>1 DEF Commit, Merge
<1>3. table' = [k \in Key |-> table'[k]]
  BY DEF Commit
<1>. QED
  BY <1>1, <1>2, <1>3 DEF Upsert

(* No step of any run, however they overlap, wipes a realised value.       *)
THEOREM RealisedNeverWiped == Spec => RealisedKept
<1>1. LockInv /\ [Next]_vars => [\A k \in Key : table[k].actual => table'[k].actual]_vars
  <2>. SUFFICES ASSUME LockInv, [Next]_vars, NEW k \in Key, table[k].actual
                PROVE  table'[k].actual
    OBVIOUS
  <2>1. CASE table' = table
    BY <2>1
  <2>2. ASSUME NEW s \in Slot, Commit(s) PROVE table'[k].actual
    <3>1. table'[k] = Merge(table[k], batch[s][k])
      BY <2>2, CommitIsUpsert DEF Upsert
    <3>2. table[k] \in Row /\ batch[s][k] \in Row
      BY DEF LockInv, TypeOK, Table
    <3>3. CASE Present(batch[s][k])
      BY <3>1, <3>2, <3>3, MergePresent
    <3>4. CASE ~Present(batch[s][k])
      BY <3>1, <3>4 DEF Merge
    <3>. QED
      BY <3>3, <3>4
  <2>. QED
    BY <2>1, <2>2, TableStep
<1>. QED
  BY <1>1, LockInvariant, PTL DEF Spec, RealisedKept

-----------------------------------------------------------------------------
(* Provenance.  HotComesFromSource needs the same of the rows in flight.   *)

CanCarryActual(k) == \E q \in WithActual : k \in KeysOf[q]

NotBeyondSource(row, k) ==
  /\ row.rev <= source[k].rev
  /\ row.actual => source[k].actual /\ CanCarryActual(k)

SourceInv ==
  \A k \in Key :
    /\ NotBeyondSource(table[k], k)
    /\ \A s \in Slot : NotBeyondSource(batch[s][k], k)

LEMMA RowFacts ==
  ASSUME TypeOK, NEW k \in Key
  PROVE  /\ source[k] \in Row
         /\ table[k] \in Row
         /\ \A s \in Slot : batch[s][k] \in Row
BY DEF TypeOK, Table

LEMMA NoRowIsNotBeyond == ASSUME TypeOK, NEW k \in Key PROVE NotBeyondSource(NoRow, k)
BY RowFacts, MaxRevAssumption DEF NotBeyondSource, NoRow, Row

LEMMA MergeNotBeyond ==
  ASSUME NEW old \in Row, NEW new \in Row, NEW k \in Key,
         NotBeyondSource(old, k), NotBeyondSource(new, k)
  PROVE  NotBeyondSource(Merge(old, new), k)
<1>1. CASE Present(new)
  BY <1>1, MergePresent DEF NotBeyondSource
<1>2. CASE ~Present(new)
  BY <1>2 DEF Merge
<1>. QED
  BY <1>1, <1>2

LEMMA AnswerNotBeyond ==
  ASSUME TypeOK, NEW q \in Request, NEW k \in Key
  PROVE  Answer(q)[k] \in Row /\ NotBeyondSource(Answer(q)[k], k)
<1>1. Answer(q)[k] \in Row
  BY AnswerType DEF Table
<1>2. CASE k \in KeysOf[q]
  <2>. DEFINE carried == q \in WithActual /\ source[k].actual
  <2>1. Answer(q)[k] = [rev |-> source[k].rev, actual |-> carried]
    BY <1>2 DEF Answer
  <2>2. Answer(q)[k].rev = source[k].rev
    BY <2>1
  <2>3. Answer(q)[k].actual = carried
    <3>. HIDE DEF carried
    <3>. QED
      BY <2>1
  <2>4. source[k].rev \in 0..MaxRev
    BY RowFacts DEF Row
  <2>5. Answer(q)[k].rev <= source[k].rev
    BY <2>2, <2>4, MaxRevAssumption
  <2>6. Answer(q)[k].actual => source[k].actual /\ CanCarryActual(k)
    BY <1>2, <2>3, Zenon DEF CanCarryActual
  <2>. QED
    BY <1>1, <2>5, <2>6, Zenon DEF NotBeyondSource
<1>3. CASE k \notin KeysOf[q]
  BY <1>1, <1>3, NoRowIsNotBeyond DEF Answer
<1>. QED
  BY <1>2, <1>3, <1>1

LEMMA InitSourceInv == Init => SourceInv
<1>. SUFFICES ASSUME Init PROVE SourceInv
  OBVIOUS
<1>1. TypeOK
  BY InitType
<1>2. \A k \in Key : table[k] = NoRow /\ \A s \in Slot : batch[s][k] = NoRow
  BY DEF Init, EmptyTable
<1>. QED
  BY <1>1, <1>2, NoRowIsNotBeyond DEF SourceInv

(* The source only publishes more, and a batch is emptied or extended by   *)
(* an answer.                                                              *)
LEMMA NextSourceInv == LockInv /\ SourceInv /\ [Next]_vars => SourceInv'
<1>. SUFFICES ASSUME LockInv, SourceInv, [Next]_vars
              PROVE  SourceInv'
  OBVIOUS
<1>t. TypeOK
  BY DEF LockInv
<1>1. ASSUME NEW j \in Key, Revise(j) \/ Realise(j) PROVE SourceInv'
  <2>1. table' = table /\ batch' = batch
    BY <1>1 DEF Revise, Realise, runVars
  <2>2. \A k \in Key : source'[k].rev >= source[k].rev /\ (source[k].actual => source'[k].actual)
    <3>. SUFFICES ASSUME NEW k \in Key
                  PROVE source'[k].rev >= source[k].rev /\ (source[k].actual => source'[k].actual)
      OBVIOUS
    <3>1. source[k] \in Row /\ source[k].rev \in Nat
      BY <1>t, RowFacts, MaxRevAssumption DEF Row
    <3>2. CASE k # j
      BY <1>1, <1>t, <3>1, <3>2 DEF Revise, Realise, TypeOK, Table
    <3>3. CASE k = j /\ Revise(j)
      <4>1. source'[k] = [source[k] EXCEPT !.rev = @ + 1]
        BY <3>3, <1>t DEF Revise, TypeOK, Table
      <4>. QED
        BY <3>1, <4>1 DEF Row
    <3>4. CASE k = j /\ Realise(j)
      <4>1. source'[k] = [source[k] EXCEPT !.actual = TRUE]
        BY <3>4, <1>t DEF Realise, TypeOK, Table
      <4>. QED
        BY <3>1, <4>1 DEF Row
    <3>. QED
      BY <1>1, <3>2, <3>3, <3>4
  <2>3. source' \in Table
    BY <1>1, NextType, <1>t DEF TypeOK
  <2>4. ASSUME NEW k \in Key, NEW row \in Row, NotBeyondSource(row, k)
        PROVE  NotBeyondSource(row, k)'
    <3>1. source[k].rev \in Nat /\ source'[k].rev \in Nat /\ row.rev \in Nat
      BY <1>t, <2>3, MaxRevAssumption DEF TypeOK, Table, Row
    <3>. QED
      BY <2>2, <2>4, <3>1 DEF NotBeyondSource, CanCarryActual
  <2>. QED
    BY <1>t, <2>1, <2>4, RowFacts DEF SourceInv
<1>2. ASSUME source' = source, table' = table,
             \A s \in Slot, k \in Key :
               batch'[s][k] = batch[s][k] \/ batch'[s][k] = NoRow \/
               \E q \in Request : batch'[s][k] = Merge(batch[s][k], Answer(q)[k])
      PROVE  SourceInv'
  <2>1. ASSUME NEW s \in Slot, NEW k \in Key
        PROVE  NotBeyondSource(batch'[s][k], k)
    BY <1>2, <1>t, RowFacts, NoRowIsNotBeyond, AnswerNotBeyond, MergeNotBeyond DEF SourceInv
  <2>. QED
    BY <1>2, <2>1 DEF SourceInv, NotBeyondSource
<1>3. ASSUME NEW s \in Slot, Commit(s) PROVE SourceInv'
  <2>1. source' = source
    BY <1>3 DEF Commit
  <2>2. \A k \in Key : NotBeyondSource(table'[k], k)
    BY <1>3, <1>t, CommitIsUpsert, RowFacts, MergeNotBeyond DEF Upsert, SourceInv
  <2>3. \A t \in Slot, k \in Key : batch'[t][k] = batch[t][k] \/ batch'[t][k] = NoRow
    BY <1>3, <1>t, EmptyHasNoRow DEF Commit, Leave, TypeOK
  <2>4. \A t \in Slot, k \in Key : NotBeyondSource(batch'[t][k], k)
    BY <1>t, <2>3, NoRowIsNotBeyond DEF SourceInv
  <2>. QED
    BY <2>1, <2>2, <2>4 DEF SourceInv, NotBeyondSource
<1>4. ASSUME NEW s \in Slot, NEW q \in Request, FetchOk(s, q) PROVE SourceInv'
  <2>1. \A t \in Slot, k \in Key :
          batch'[t][k] = batch[t][k] \/ batch'[t][k] = Merge(batch[t][k], Answer(q)[k])
    BY <1>4, <1>t DEF FetchOk, Upsert, TypeOK
  <2>. QED
    BY <1>2, <1>4, <2>1 DEF FetchOk
<1>5. ASSUME NEW s \in Slot, NEW o, Leave(s, o), source' = source, table' = table PROVE SourceInv'
  <2>1. \A t \in Slot, k \in Key : batch'[t][k] = batch[t][k] \/ batch'[t][k] = NoRow
    BY <1>5, <1>t, EmptyHasNoRow DEF Leave, TypeOK
  <2>. QED
    BY <1>2, <1>5, <2>1
<1>6. ASSUME source' = source, table' = table, batch' = batch PROVE SourceInv'
  BY <1>2, <1>6
<1>. QED
  BY <1>1, <1>3, <1>4, <1>5, <1>6
  DEF Next, RunStep, Start, FetchRetry, FetchRaise, SkipEmpty, SendRow, UpsertRow,
      StatementFails, DeadlockVictim, Abort, ReportSuccess, ReportFailure, EndRun,
      Kill, vars, runVars

(* The hot store never holds more than the sources have published.         *)
THEOREM HotNeverInvents == Spec => []HotComesFromSource
<1>1. SourceInv => HotComesFromSource
  BY DEF SourceInv, NotBeyondSource, CanCarryActual, HotComesFromSource
<1>. QED
  BY <1>1, InitSourceInv, NextSourceInv, LockInvariant, PTL DEF Spec

-----------------------------------------------------------------------------
(* Refinement: the runs implement the atomic store.                        *)

LEMMA PhaseEdges ==
  ASSUME TypeOK, NEW s \in Slot, NEW p \in PC, pc' = [pc EXCEPT ![s] = p]
  PROVE  [t \in Slot |-> PhaseOf(pc'[t])] =
         [[t \in Slot |-> PhaseOf(pc[t])] EXCEPT ![s] = PhaseOf(p)]
BY DEF TypeOK

LEMMA InitRefines == Init => HS!Init
BY DEF Init, HS!Init, PhaseOf, EmptyTable, HS!EmptyTable, NoRow, HS!NoRow

LEMMA NextRefines == LockInv /\ [Next]_vars => [HS!Next]_HS!vars
<1>. SUFFICES ASSUME LockInv, [Next]_vars
              PROVE  [HS!Next]_HS!vars
  OBVIOUS
<1>. DEFINE phase == [s \in Slot |-> PhaseOf(pc[s])]
<1>t. TypeOK /\ TypeOK'
  BY NextType DEF LockInv
<1>e. HS!EmptyTable = EmptyTable
  BY DEF EmptyTable, HS!EmptyTable, NoRow, HS!NoRow
<1>u. \A t, b : HS!Upsert(t, b) = Upsert(t, b)
  BY DEF Upsert, HS!Upsert, Merge, HS!Merge, Present, HS!Present
<1>y. HS!Table = Table
  BY DEF Table, HS!Table, Row, HS!Row
<1>p. \A s \in Slot : phase[s] = PhaseOf(pc[s])
  OBVIOUS
<1>s. ASSUME table' = table, hc' = hc, job' = job, batch' = batch,
             \A s \in Slot : PhaseOf(pc'[s]) = PhaseOf(pc[s])
      PROVE  UNCHANGED HS!vars
  BY <1>s DEF HS!vars
<1>1. ASSUME NEW k \in Key, Revise(k) \/ Realise(k) PROVE UNCHANGED HS!vars
  BY <1>1, <1>s DEF Revise, Realise, runVars
<1>2. ASSUME NEW s \in Slot, NEW a \in Asset, Start(s, a) PROVE HS!Begin(s, a)
  <2>1. phase' = [phase EXCEPT ![s] = "working"]
    BY <1>2, <1>t, PhaseEdges DEF Start, PhaseOf, PC
  <2>. QED
    BY <1>2, <2>1 DEF Start, Ping, HS!Begin, HS!Report, PhaseOf
<1>3. ASSUME NEW s \in Slot, NEW q \in Request, FetchOk(s, q) PROVE HS!Collect(s)
  <2>1. \E p \in {"working", "holding"} : phase' = [phase EXCEPT ![s] = p]
    <3>1. PICK p \in {"fetch", "upsert"} : pc' = [pc EXCEPT ![s] = p]
      BY <1>3 DEF FetchOk
    <3>2. phase' = [phase EXCEPT ![s] = PhaseOf(p)]
      BY <3>1, <1>t, PhaseEdges DEF PC, PhaseOf
    <3>3. PhaseOf(p) \in {"working", "holding"}
      BY DEF PhaseOf
    <3>. QED
      BY <3>2, <3>3
  <2>2. batch' = [batch EXCEPT ![s] = batch'[s]] /\ batch'[s] \in Table
    BY <1>3, <1>t DEF FetchOk, TypeOK
  <2>3. phase[s] = "working"
    BY <1>3 DEF FetchOk, PhaseOf
  <2>. QED
    BY <1>3, <1>y, <2>1, <2>2, <2>3 DEF FetchOk, HS!Collect
<1>4. ASSUME NEW s \in Slot, FetchRetry(s) PROVE UNCHANGED HS!vars
  BY <1>4, <1>s DEF FetchRetry
<1>5. ASSUME NEW s \in Slot, FetchRaise(s) \/ Abort(s),
             pc[s] \in {"fetch", "upsert", "wait"}
      PROVE  HS!Drop(s)
  <2>1. phase' = [phase EXCEPT ![s] = "lost"]
    BY <1>5, <1>t, PhaseEdges DEF FetchRaise, Abort, Leave, PhaseOf, PC
  <2>2. phase[s] \in {"working", "holding"}
    BY <1>5 DEF PhaseOf
  <2>. QED
    BY <1>5, <1>e, <2>1, <2>2 DEF FetchRaise, Abort, Leave, HS!Drop
<1>6. ASSUME NEW s \in Slot, SkipEmpty(s) PROVE HS!Store(s)
  <2>1. phase' = [phase EXCEPT ![s] = "stored"]
    BY <1>6, <1>t, PhaseEdges DEF SkipEmpty, Leave, PhaseOf, PC
  <2>2. phase[s] = "holding"
    BY <1>6 DEF SkipEmpty, PhaseOf
  <2>3. table' = Upsert(table, batch[s])
    BY <1>6, <1>t DEF SkipEmpty, KeysIn, Upsert, Merge, TypeOK, Table
  <2>. QED
    BY <1>6, <1>e, <1>u, <2>1, <2>2, <2>3 DEF SkipEmpty, Leave, HS!Store
<1>7. ASSUME NEW s \in Slot, NEW k \in Key, SendRow(s, k) PROVE UNCHANGED HS!vars
  BY <1>7, <1>s, <1>t DEF SendRow, PhaseOf, TypeOK
<1>8. ASSUME NEW s \in Slot, UpsertRow(s) PROVE UNCHANGED HS!vars
  BY <1>8, <1>s, <1>t DEF UpsertRow, PhaseOf, TypeOK
<1>9. ASSUME NEW s \in Slot, Commit(s) PROVE HS!Store(s)
  <2>1. PICK o \in {"stored", "raised"} : Leave(s, o)
    BY <1>9 DEF Commit
  <2>2. phase' = [phase EXCEPT ![s] = PhaseOf(o)]
    BY <2>1, <1>t, PhaseEdges DEF Leave, PC, PhaseOf
  <2>3. PhaseOf(o) \in {"stored", "lost"}
    BY DEF PhaseOf
  <2>4. phase[s] = "holding"
    BY <1>9 DEF Commit, PhaseOf
  <2>5. table' = Upsert(table, batch[s])
    BY <1>9, CommitIsUpsert
  <2>6. batch' = [batch EXCEPT ![s] = EmptyTable] /\ hc' = hc /\ job' = job
    BY <1>9, <2>1 DEF Commit, Leave
  <2>. QED
    BY <1>e, <1>u, <2>2, <2>3, <2>4, <2>5, <2>6 DEF HS!Store
<1>10. ASSUME NEW s \in Slot, ReportSuccess(s) \/ ReportFailure(s) \/ Kill(s)
       PROVE  HS!End(s)
  <2>1. phase' = [phase EXCEPT ![s] = "idle"]
    BY <1>10, <1>t, PhaseEdges
    DEF ReportSuccess, ReportFailure, Kill, EndRun, Leave, PhaseOf, PC
  <2>2. phase[s] # "idle"
    BY <1>10, <1>t DEF ReportSuccess, ReportFailure, Kill, PhaseOf
  <2>3. \/ phase[s] = "stored" /\ HS!Report(job[s], "up")
        \/ phase[s] = "lost" /\ HS!Report(job[s], "down")
        \/ UNCHANGED hc
    BY <1>10 DEF ReportSuccess, ReportFailure, Kill, Ping, HS!Report, PhaseOf
  <2>. QED
    BY <1>10, <1>e, <2>1, <2>2, <2>3
    DEF ReportSuccess, ReportFailure, Kill, EndRun, Leave, HS!End
<1>11. CASE UNCHANGED vars
  BY <1>11, <1>s DEF vars, runVars
<1>12. ASSUME NEW s \in Slot, DeadlockVictim(s) PROVE pc[s] = "wait"
  BY <1>12 DEF DeadlockVictim, Deadlocked, WaitsFor
<1>. QED
  BY <1>1, <1>2, <1>3, <1>4, <1>5, <1>6, <1>7, <1>8, <1>9, <1>10, <1>11, <1>12
  DEF Next, RunStep, StatementFails, DeadlockVictim, FetchRaise, HS!Next

(* Overlapping runs, with row locks, retries, deadlocks, lost              *)
(* acknowledgements and kills, implement the store that applies whole      *)
(* batches and reports "up" only after it has.                             *)
THEOREM ImplementsHotStore == Spec => StoresWholeBatches
<1>. QED
  BY InitRefines, NextRefines, LockInvariant, PTL DEF Spec, StoresWholeBatches, HS!Spec

-----------------------------------------------------------------------------
(* Running a batch again.                                                  *)

LEMMA MergeAgain ==
  ASSUME NEW old \in Row, NEW new \in Row, NEW other \in Row
  PROVE  Merge(Merge(Merge(old, new), other), new) = Merge(Merge(old, other), new)
<1>. DEFINE once == Merge(old, new)
            between == Merge(once, other)
            skipped == Merge(old, other)
<1>1. CASE ~Present(new)
  BY <1>1 DEF Merge
<1>2. CASE Present(new)
  <2>1. once \in Row /\ between \in Row /\ skipped \in Row
    BY MergeType
  <2>2. once.actual <=> new.actual \/ old.actual
    BY <1>2, MergePresent
  <2>3. new.actual \/ between.actual <=> new.actual \/ skipped.actual
    <3>1. CASE Present(other)
      <4>1. between.actual <=> other.actual \/ once.actual
        BY <2>1, <3>1, MergePresent
      <4>2. skipped.actual <=> other.actual \/ old.actual
        BY <3>1, MergePresent
      <4>. QED
        BY <2>2, <4>1, <4>2
    <3>2. CASE ~Present(other)
      <4>1. between = once /\ skipped = old
        BY <3>2 DEF Merge
      <4>. QED
        BY <2>2, <4>1
    <3>. QED
      BY <3>1, <3>2
  <2>. HIDE DEF once, between, skipped
  <2>4. (new.actual \/ between.actual) = (new.actual \/ skipped.actual)
    BY <2>3
  <2>5. Merge(between, new) = Merge(skipped, new)
    BY <1>2, <2>4 DEF Merge
  <2>. QED
    BY <2>5 DEF between, skipped, once
<1>. QED
  BY <1>1, <1>2

(* A run that stored its batch, failed all the same (the acknowledgement   *)
(* was lost, or it was killed before its ping) and is run again leaves     *)
(* what it would have left the second time alone, whatever another run     *)
(* committed in between: "re-running the same half-hour just upserts the   *)
(* same natural key" (assets.py).  With an empty c: it is idempotent.      *)
THEOREM RerunChangesNothing ==
  ASSUME NEW t \in Table, NEW b \in Table, NEW c \in Table
  PROVE  Upsert(Upsert(Upsert(t, b), c), b) = Upsert(Upsert(t, c), b)
<1>1. ASSUME NEW k \in Key
      PROVE  Merge(Merge(Merge(t[k], b[k]), c[k]), b[k]) = Merge(Merge(t[k], c[k]), b[k])
  BY MergeAgain DEF Table
<1>. QED
  BY <1>1 DEF Upsert

-----------------------------------------------------------------------------
(* The safety half of "every run ends".  A row is upserted once: a slot    *)
(* never waits for a lock it has.                                          *)

WaitsForNewRow ==
  \A s \in Slot : pc[s] = "wait" => ~HoldsLock(s, want[s])

WalkInv == LockInv /\ WaitsForNewRow

(* What a step of slot s leaves alone.                                     *)
OthersStay(s) ==
  \A t \in Slot \ {s} :
    UNCHANGED <<pc[t], todo[t], attempt[t], pend[t], want[t]>>

LEMMA LeaveOthers ==
  ASSUME TypeOK, NEW s \in Slot, NEW outcome, Leave(s, outcome), Rollback(s) \/ pend' = pend
  PROVE  OthersStay(s) /\ pc'[s] = outcome
BY DEF TypeOK, Leave, Rollback, OthersStay

(* Every step belongs to one slot, or to none, and a slot whose run it is  *)
(* not stays as it is.                                                     *)
LEMMA StepOfOneSlot ==
  ASSUME TypeOK, [Next]_vars
  PROVE  \/ UNCHANGED <<pc, todo, attempt, pend, want>>
         \/ \E s \in Slot : OthersStay(s) /\ (RunStep(s) \/ Kill(s) \/ \E a \in Asset : Start(s, a))
<1>1. ASSUME NEW k \in Key, Revise(k) \/ Realise(k)
      PROVE  UNCHANGED <<pc, todo, attempt, pend, want>>
  BY <1>1 DEF Revise, Realise, runVars
<1>2. CASE UNCHANGED vars
  BY <1>2 DEF vars, runVars
<1>3. ASSUME NEW s \in Slot, RunStep(s) \/ Kill(s) \/ \E a \in Asset : Start(s, a)
      PROVE  OthersStay(s)
  <2>1. CASE \/ FetchRaise(s) \/ SkipEmpty(s) \/ Commit(s) \/ StatementFails(s)
             \/ DeadlockVictim(s) \/ ReportSuccess(s) \/ ReportFailure(s) \/ Kill(s)
    BY <2>1, LeaveOthers
    DEF FetchRaise, SkipEmpty, Commit, StatementFails, DeadlockVictim, Abort,
        ReportSuccess, ReportFailure, Kill, EndRun
  <2>2. CASE \E q \in Request : FetchOk(s, q)
    BY <2>2 DEF FetchOk, TypeOK, OthersStay
  <2>3. CASE FetchRetry(s)
    BY <2>3 DEF FetchRetry, TypeOK, OthersStay
  <2>4. CASE \E k \in Key : SendRow(s, k)
    BY <2>4 DEF SendRow, TypeOK, OthersStay
  <2>5. CASE UpsertRow(s)
    BY <2>5 DEF UpsertRow, TypeOK, OthersStay
  <2>6. CASE \E a \in Asset : Start(s, a)
    BY <2>6 DEF Start, TypeOK, OthersStay
  <2>. QED
    BY <1>3, <2>1, <2>2, <2>3, <2>4, <2>5, <2>6 DEF RunStep
<1>. QED
  BY <1>1, <1>2, <1>3 DEF Next

LEMMA InitWalkInv == Init => WalkInv
BY InitLockInv DEF Init, WalkInv, WaitsForNewRow

LEMMA NextWalkInv == WalkInv /\ [Next]_vars => WalkInv'
<1>. SUFFICES ASSUME WalkInv, [Next]_vars PROVE WaitsForNewRow'
  BY NextLockInv DEF WalkInv
<1>t. LockInv /\ TypeOK /\ WaitsForNewRow
  BY DEF WalkInv, LockInv
<1>1. CASE UNCHANGED <<pc, todo, attempt, pend, want>>
  BY <1>1, <1>t DEF WaitsForNewRow, HoldsLock
<1>2. ASSUME NEW s \in Slot, OthersStay(s),
             RunStep(s) \/ Kill(s) \/ \E a \in Asset : Start(s, a)
      PROVE  WaitsForNewRow'
  <2>1. pc'[s] = "wait" => ~HoldsLock(s, want[s])'
    <3>1. CASE \E k \in Key : SendRow(s, k)
      BY <3>1, <1>t DEF SendRow, KeysIn, HoldsLock, TypeOK
    <3>2. CASE ~\E k \in Key : SendRow(s, k)
      BY <1>2, <1>t, <3>2
      DEF RunStep, FetchOk, FetchRetry, FetchRaise, SkipEmpty, UpsertRow, Commit,
          StatementFails, DeadlockVictim, Abort, ReportSuccess, ReportFailure, Kill,
          EndRun, Leave, Start, TypeOK
    <3>. QED
      BY <3>1, <3>2
  <2>. QED
    BY <1>2, <1>t, <2>1 DEF OthersStay, WaitsForNewRow, HoldsLock
<1>. QED
  BY <1>1, <1>2, <1>t, StepOfOneSlot

LEMMA WalkInvariant == Spec => []WalkInv
<1>. QED
  BY InitWalkInv, NextWalkInv, PTL DEF Spec

LEMMA StepAdvances ==
  ASSUME WalkInv, NEW s \in Slot, pc[s] # "idle", RunStep(s) \/ Kill(s)
  PROVE  RunAdvances(s)
<1>t. TypeOK /\ LockInv
  BY DEF WalkInv, LockInv
<1>1. ASSUME NEW q \in Request, FetchOk(s, q) PROVE RunAdvances(s)
  <2>1. todo'[s] = todo[s] \ {q} /\ q \in todo[s] /\ attempt'[s] = 1
    BY <1>1, <1>t DEF FetchOk, TypeOK
  <2>2. pc[s] = "fetch" /\ pc'[s] \in {"upsert", "fetch"}
    BY <1>1, <1>t DEF FetchOk, TypeOK
  <2>. QED
    BY <2>1, <2>2 DEF RunAdvances, FetchAdvances, StagesLeft
<1>2. CASE FetchRetry(s)
  <2>1. attempt'[s] = attempt[s] + 1 /\ attempt[s] \in Nat
    BY <1>2, <1>t, IngestAssumption DEF FetchRetry, TypeOK
  <2>. QED
    BY <1>2, <2>1 DEF FetchRetry, RunAdvances, FetchAdvances
<1>3. ASSUME NEW k \in Key, SendRow(s, k) PROVE RunAdvances(s)
  BY <1>3, <1>t DEF SendRow, TypeOK, RunAdvances, UpsertAdvances, KeysIn
<1>4. CASE UpsertRow(s)
  <2>. DEFINE k == want[s]
              new == Merge(table[k], batch[s][k])
  <2>1. pc[s] = "wait" /\ pc'[s] = "upsert"
    BY <1>4, <1>t DEF UpsertRow, TypeOK
  <2>2. k \in Key /\ Present(batch[s][k]) /\ ~HoldsLock(s, k)
    BY <2>1, <1>t DEF LockInv, WaitsForBatchRow, WalkInv, WaitsForNewRow
  <2>3. pend'[s] = [pend[s] EXCEPT ![k] = new]
    BY <1>4, <1>t DEF UpsertRow, TypeOK
  <2>4. pend[s] \in [Key -> Row] /\ Present(new)
    BY <1>t, <2>2, MergePresent DEF TypeOK, Table
  <2>. HIDE DEF k, new
  <2>5. KeysIn(pend'[s]) = KeysIn(pend[s]) \cup {k} /\ k \notin KeysIn(pend[s])
    BY <2>2, <2>3, <2>4 DEF KeysIn, HoldsLock
  <2>6. KeysIn(pend[s])' = KeysIn(pend'[s])
    BY DEF KeysIn, Present
  <2>. QED
    BY <2>1, <2>5, <2>6 DEF RunAdvances, UpsertAdvances
<1>5. CASE \/ FetchRaise(s) \/ SkipEmpty(s) \/ Commit(s) \/ StatementFails(s)
           \/ DeadlockVictim(s) \/ ReportSuccess(s) \/ ReportFailure(s) \/ Kill(s)
  BY <1>5, <1>t
  DEF FetchRaise, SkipEmpty, Commit, StatementFails, DeadlockVictim, Deadlocked, WaitsFor,
      Abort, ReportSuccess, ReportFailure, Kill, EndRun, Leave, TypeOK, PC, RunAdvances,
      StagesLeft
<1>. QED
  BY <1>1, <1>2, <1>3, <1>4, <1>5 DEF RunStep

(* A run only gets nearer to its end, whatever the others do: attempts are *)
(* not begun again, answers not asked for twice, rows not sent twice, and  *)
(* an aborted transaction is not repeated (http_retry, executemany).       *)
THEOREM RunsCountDown == Spec => RunsAdvance
<1>1. WalkInv /\ [Next]_vars =>
        [\A s \in Slot :
           pc[s] = "idle" \/ RunAdvances(s) \/ UNCHANGED <<pc[s], todo[s], attempt[s], pend[s]>>]_vars
  <2>. SUFFICES ASSUME WalkInv, [Next]_vars, NEW s \in Slot, pc[s] # "idle"
                PROVE  RunAdvances(s) \/ UNCHANGED <<pc[s], todo[s], attempt[s], pend[s]>>
    OBVIOUS
  <2>1. CASE UNCHANGED <<pc, todo, attempt, pend, want>>
    BY <2>1
  <2>2. ASSUME NEW t \in Slot, OthersStay(t),
               RunStep(t) \/ Kill(t) \/ \E a \in Asset : Start(t, a)
        PROVE  RunAdvances(s) \/ UNCHANGED <<pc[s], todo[s], attempt[s], pend[s]>>
    <3>1. CASE t # s
      BY <2>2, <3>1 DEF OthersStay
    <3>2. CASE t = s
      BY <2>2, <3>2, StepAdvances DEF Start
    <3>. QED
      BY <3>1, <3>2
  <2>. QED
    BY <2>1, <2>2, StepOfOneSlot DEF WalkInv, LockInv
<1>. QED
  BY <1>1, WalkInvariant, PTL DEF Spec, RunsAdvance

-----------------------------------------------------------------------------
(* The other half: somebody can always go on.                              *)

(* Of slots that all wait for each other one is in a cycle: a least group  *)
(* of them consists of those that its members wait for.                    *)
LEMMA CycleOfWaiters ==
  ASSUME IsFiniteSet(Slot), NEW S \in SUBSET Slot, S # {},
         \A s \in S : \E t \in S : WaitsFor(s, t)
  PROVE  \E s \in S : Deadlocked(s)
<1>. DEFINE Groups == {T \in SUBSET S : T # {} /\ \A s \in T : \E t \in T : WaitsFor(s, t)}
<1>1. Groups \subseteq FiniteSubsetsOf(Slot) /\ S \in Groups
  BY FS_Subset DEF FiniteSubsetsOf
<1>2. PICK T \in Groups : \A U \in Groups : ~(<<U, T>> \in StrictSubsetOrdering(Slot))
  <2>. HIDE DEF Groups
  <2>. QED
    BY <1>1, FS_StrictSubsetOrderingWellFounded, WFMin
<1>3. T \in SUBSET S /\ T # {} /\ \A s \in T : \E t \in T : WaitsFor(s, t)
  BY <1>2
<1>. DEFINE U == {t \in T : \E s \in T : WaitsFor(s, t)}
<1>4. U \in Groups
  BY <1>3
<1>5. U = T
  <2>1. ~(<<U, T>> \in StrictSubsetOrdering(Slot))
    BY <1>2, <1>4
  <2>2. U \subseteq T /\ U \in SUBSET Slot /\ T \in SUBSET Slot
    BY <1>3
  <2>. QED
    BY <2>1, <2>2 DEF StrictSubsetOrdering
<1>6. \A s \in T : \E t \in T : WaitsFor(t, s)
  BY <1>5
<1>. QED
  BY <1>3, <1>6 DEF Deadlocked

LEMMA LockInvMovesOn == IsFiniteSet(Slot) /\ LockInv => NobodyWaitsInVain
<1>. SUFFICES ASSUME IsFiniteSet(Slot), LockInv, NEW S \in SUBSET Slot,
                     WaitsWithin(S), NEW w \in S, pc[w] = "wait",
                     \A t \in S : pc[t] \in {"upsert", "wait"} => Stuck(t)
              PROVE  FALSE
  BY DEF NobodyWaitsInVain
<1>. DEFINE W == {s \in S : pc[s] = "wait"}
<1>1. ASSUME NEW s \in W PROVE \E t \in W : WaitsFor(s, t)
  <2>1. PICK t \in Slot : WaitsFor(s, t)
    BY DEF Stuck
  <2>2. t \in S
    BY <2>1 DEF WaitsWithin
  <2>3. want[s] \in Key /\ HoldsLock(t, want[s])
    BY <2>1 DEF WaitsFor, LockInv, WaitsForBatchRow
  <2>4. pc[t] \in {"upsert", "wait"}
    BY <2>3 DEF LockInv, LocksOnlyInTransaction
  <2>5. pc[t] = "wait"
    BY <2>2, <2>4 DEF Stuck, WaitsFor
  <2>. QED
    BY <2>1, <2>2, <2>5
<1>2. PICK s \in W : Deadlocked(s)
  BY <1>1, CycleOfWaiters, W \in SUBSET Slot, W # {}
<1>. QED
  BY <1>2 DEF Stuck

(* However many transactions wait for rows of each other, one of those     *)
(* they wait for can go on: it can take its lock, send or commit, or it is *)
(* in a cycle that Postgres breaks.  No lock is left with a run that has   *)
(* gone (upsert_carbon_intensity_rows: the pool's with block ends it).     *)
THEOREM NoStandstill ==
  ASSUME IsFiniteSet(Slot)
  PROVE  Spec => []NobodyWaitsInVain
<1>1. LockInv => NobodyWaitsInVain
  BY LockInvMovesOn
<1>. QED
  BY <1>1, LockInvariant, PTL
=============================================================================
