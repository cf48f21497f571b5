--------------------------- MODULE BackfillProofs ---------------------------
(***************************************************************************)
(* Backfill, for any history, gaps, months, chunk size and number of runs, *)
(* at whatever day the operator starts them and up to whatever --to.       *)
(*                                                                         *)
(* The argument: behind its cursor a running backfill has left nothing out *)
(* that the archive could still take away (BehindInv), and before it no    *)
(* day has a copy from this run (BeforeInv).                               *)
(***************************************************************************)
EXTENDS Backfill, TLAPS

(* A chunk is fetched of days that are left. *)
ChunkInv == pc = "append" => cursor < end

BehindInv ==
  Running => \A d \in Known : d < cursor /\ OutOfArchivesReach(d) => lake[d] > 0

BeforeInv ==
  Running => \A d \in Day :
    cursor <= d /\ d < end =>
      covers[d] >= 1 /\ lake[d] + 1 <= covers[d] + (IF InHot(d) THEN 1 ELSE 0)

IInv == TypeOK /\ ChunkInv /\ BehindInv /\ BeforeInv /\ DoneMeansComplete /\ OneCopyPerRun

LEMMA Numbers ==
  ASSUME TypeOK
  PROVE  /\ today \in Nat /\ cursor \in Nat /\ end \in Nat /\ began \in Nat /\ runs \in Nat
         /\ began <= today /\ Launch \in Nat /\ Lookback \in Nat /\ ChunkDays \in Nat \ {0}
         /\ MaxDay \in Nat /\ Known \subseteq Day
         /\ \A d \in Day : d \in Nat /\ lake[d] \in Nat /\ covers[d] \in Nat
BY BackfillAssumption DEF TypeOK, Day

LEMMA ChunkGoesOn ==
  ASSUME TypeOK, cursor < end
  PROVE  ChunkEnd \in Day /\ cursor < ChunkEnd /\ ChunkEnd <= end
BY Numbers DEF TypeOK, ChunkEnd, Day

LEMMA InitInv == Init => IInv
<1>. SUFFICES ASSUME Init PROVE IInv
  OBVIOUS
<1>. USE BackfillAssumption DEF Init
<1>1. TypeOK
  <2>1. 1 \in Day /\ Launch \in Launch..MaxDay /\ Launch \in Launch..today /\ 0 \in 0..MaxRuns
    BY DEF Day
  <2>2. lake \in [Day -> Nat] /\ covers \in [Day -> Nat]
    OBVIOUS
  <2>. QED
    BY <2>1, <2>2 DEF TypeOK
<1>2. ChunkInv /\ BehindInv /\ BeforeInv /\ DoneMeansComplete
  BY DEF ChunkInv, BehindInv, BeforeInv, DoneMeansComplete, Running
<1>3. OneCopyPerRun
  BY DEF OneCopyPerRun
<1>. QED
  BY <1>1, <1>2, <1>3 DEF IInv

(* The archive's window gives a day of the hot store one copy, and takes   *)
(* away only days that a run which has begun does not count on.            *)
LEMMA ArchiveInv ==
  ASSUME IInv, NEW d \in Day, ArchiveDay(d)
  PROVE  IInv'
<1>1. UNCHANGED <<today, pc, cursor, end, runs, began, covers>> /\ current' = FALSE
  BY DEF ArchiveDay
<1>2. lake' = [lake EXCEPT ![d] = IF InHot(d) THEN 1 ELSE 0] /\ today - Lookback <= d
  BY DEF ArchiveDay
<1>3. TypeOK /\ TypeOK'
  BY <1>1, <1>2 DEF IInv, TypeOK
<1>4. OutOfArchivesReach(d) => InHot(d)
  BY <1>2, <1>3, Numbers DEF OutOfArchivesReach
<1>5. \A e \in Day : OutOfArchivesReach(e) /\ lake[e] > 0 => lake'[e] > 0
  BY <1>2, <1>3, <1>4 DEF TypeOK
<1>6. ChunkInv' /\ BehindInv' /\ DoneMeansComplete'
  BY <1>1, <1>3, <1>5, Numbers
  DEF IInv, ChunkInv, BehindInv, DoneMeansComplete, Running, OutOfArchivesReach, InHot
<1>7. Running => \A e \in Day : cursor <= e /\ e < end => covers[e] >= 1
  BY <1>3, Numbers DEF IInv, BeforeInv
<1>8. BeforeInv' /\ OneCopyPerRun'
  BY <1>1, <1>2, <1>3, <1>7, Numbers
  DEF IInv, BeforeInv, OneCopyPerRun, Running, InHot, TypeOK
<1>. QED
  BY <1>3, <1>6, <1>8 DEF IInv

LEMMA StartInv ==
  ASSUME IInv, Start
  PROVE  IInv'
<1>1. TypeOK /\ OneCopyPerRun
  BY DEF IInv
<1>2. /\ lake' = lake /\ pc' = "fetch" /\ today' = today /\ began' = today
      /\ cursor' \in Day /\ FullyBackfilled(cursor')
      /\ covers' = [d \in Day |-> IF cursor' <= d /\ d < end' THEN covers[d] + 1 ELSE covers[d]]
  BY BackfillAssumption DEF Start
<1>3. TypeOK'
  <2>1. end' \in Day /\ runs' \in 0..MaxRuns
    BY <1>1, Numbers, BackfillAssumption DEF Start, TypeOK, Day
  <2>2. covers' \in [Day -> Nat]
    BY <1>1, <1>2, Numbers
  <2>. QED
    BY <1>1, <1>2, <2>1, <2>2, Numbers DEF Start, LoadTable, TypeOK
<1>4. ChunkInv' /\ DoneMeansComplete'
  BY <1>2 DEF ChunkInv, DoneMeansComplete
<1>5. BehindInv'
  BY <1>2 DEF FullyBackfilled, BehindInv
<1>6. BeforeInv' /\ OneCopyPerRun'
  BY <1>1, <1>2, Numbers DEF BeforeInv, OneCopyPerRun, InHot
<1>. QED
  BY <1>3, <1>4, <1>5, <1>6 DEF IInv

(* A commit adds one copy of each day of its chunk, which the run's bounds *)
(* cover, and leaves none of them out.                                     *)
LEMMA ChunkAdds ==
  ASSUME IInv, pc = "append", lake' = Appended
  PROVE  /\ lake' \in [Day -> Nat]
         /\ ChunkEnd \in Day
         /\ \A d \in Known : d < ChunkEnd /\ OutOfArchivesReach(d) => lake'[d] > 0
         /\ \A d \in Day : d >= ChunkEnd => lake'[d] = lake[d]
         /\ \A d \in Day : lake'[d] <= covers[d] + (IF InHot(d) THEN 1 ELSE 0)
<1>1. TypeOK /\ cursor < end
  BY DEF IInv, ChunkInv
<1>2. ChunkEnd \in Day /\ ChunkEnd \in Nat /\ cursor < ChunkEnd /\ ChunkEnd <= end
  BY <1>1, ChunkGoesOn, BackfillAssumption DEF Day
<1>3. /\ lake' \in [Day -> Nat]
      /\ \A d \in Day : lake'[d] = IF InChunk(d) THEN lake[d] + 1 ELSE lake[d]
  BY <1>1, Numbers DEF Appended
<1>4. \A d \in Known : d < ChunkEnd /\ OutOfArchivesReach(d) => lake'[d] > 0
  <2>1. \A d \in Known : d < cursor /\ OutOfArchivesReach(d) => lake[d] > 0
    BY DEF IInv, BehindInv, Running
  <2>2. \A d \in Known : d >= cursor /\ d < ChunkEnd => lake'[d] > 0
    BY <1>1, <1>3, Numbers DEF InChunk
  <2>3. \A d \in Known : lake[d] > 0 => lake'[d] > 0
    BY <1>1, <1>3, Numbers
  <2>. QED
    BY <1>1, <2>1, <2>2, <2>3, Numbers
<1>5. \A d \in Day : d >= ChunkEnd => lake'[d] = lake[d]
  BY <1>1, <1>2, <1>3, Numbers DEF InChunk
<1>6. \A d \in Day : lake'[d] <= covers[d] + (IF InHot(d) THEN 1 ELSE 0)
  BY <1>1, <1>2, <1>3, Numbers DEF IInv, BeforeInv, OneCopyPerRun, Running, InChunk, InHot
<1>. QED
  BY <1>2, <1>3, <1>4, <1>5, <1>6

LEMMA NextInv ==
  ASSUME IInv, [Next]_vars
  PROVE  IInv'
<1>0. TypeOK /\ ChunkInv /\ BehindInv /\ BeforeInv /\ DoneMeansComplete /\ OneCopyPerRun
  BY DEF IInv
<1>. USE DEF ChunkInv, BehindInv, BeforeInv, DoneMeansComplete, OneCopyPerRun, Running,
             OutOfArchivesReach, InHot
<1>1. CASE Midnight
  <2>1. TypeOK'
    BY <1>0, <1>1, Numbers DEF Midnight, TypeOK
  <2>. QED
    BY <1>0, <1>1, <2>1 DEF Midnight, IInv
<1>2. ASSUME NEW d \in Day, ArchiveDay(d) PROVE IInv'
  BY <1>2, ArchiveInv
<1>3. CASE Start
  BY <1>3, StartInv
<1>4. CASE FetchEmpty
  <2>1. ChunkEnd \in Day /\ cursor < ChunkEnd /\ ChunkEnd <= end
    BY <1>0, <1>4, ChunkGoesOn DEF FetchEmpty
  <2>2. TypeOK'
    BY <1>0, <1>4, <2>1 DEF FetchEmpty, TypeOK
  <2>3. \A d \in Known : d < ChunkEnd => d < cursor
    BY <1>0, <1>4, <2>1, Numbers, BackfillAssumption DEF FetchEmpty, InChunk, Day
  <2>4. ChunkInv' /\ BehindInv' /\ DoneMeansComplete' /\ OneCopyPerRun'
    BY <1>0, <1>4, <2>3 DEF FetchEmpty
  <2>5. BeforeInv'
    BY <1>0, <1>4, <2>1, Numbers, BackfillAssumption DEF FetchEmpty, Day
  <2>. QED
    BY <2>2, <2>4, <2>5 DEF IInv
<1>5. CASE FetchRange
  BY <1>0, <1>5 DEF FetchRange, IInv, TypeOK
<1>6. CASE Append
  <2>1. pc = "append" /\ lake' = Appended /\ cursor' = ChunkEnd /\ pc' = "fetch"
        /\ UNCHANGED <<today, end, current, runs, began, covers>>
    BY <1>6 DEF Append
  <2>2. TypeOK'
    BY <1>0, <2>1, ChunkAdds DEF TypeOK
  <2>3. ChunkInv' /\ BehindInv' /\ DoneMeansComplete' /\ OneCopyPerRun'
    BY <2>1, ChunkAdds
  <2>4. cursor < ChunkEnd /\ ChunkEnd \in Nat
    BY <1>0, <2>1, ChunkGoesOn, BackfillAssumption DEF Day
  <2>5. BeforeInv'
    BY <1>0, <2>1, <2>4, ChunkAdds, Numbers
  <2>. QED
    BY <2>2, <2>3, <2>5 DEF IInv
<1>7. CASE CommitFails
  BY <1>0, <1>7 DEF CommitFails, IInv, TypeOK
<1>8. CASE Fail
  BY <1>0, <1>8 DEF Fail, IInv, TypeOK
<1>9. CASE AppendThenFail
  <2>1. pc = "append" /\ lake' = Appended /\ pc' = "failed"
        /\ UNCHANGED <<today, cursor, end, current, runs, began, covers>>
    BY <1>9 DEF AppendThenFail
  <2>2. TypeOK'
    BY <1>0, <2>1, ChunkAdds DEF TypeOK
  <2>3. ChunkInv' /\ BehindInv' /\ BeforeInv' /\ DoneMeansComplete' /\ OneCopyPerRun'
    BY <2>1, ChunkAdds
  <2>. QED
    BY <2>2, <2>3 DEF IInv
<1>10. CASE Finish
  <2>1. TypeOK' /\ ChunkInv' /\ BehindInv' /\ BeforeInv' /\ OneCopyPerRun'
    BY <1>0, <1>10 DEF Finish, TypeOK
  <2>2. DoneMeansComplete'
    BY <1>0, <1>10, Numbers, BackfillAssumption DEF Finish, Day
  <2>. QED
    BY <2>1, <2>2 DEF IInv
<1>11. CASE UNCHANGED vars
  BY <1>0, <1>11 DEF vars, IInv, TypeOK
<1>. QED
  BY <1>1, <1>2, <1>3, <1>4, <1>5, <1>6, <1>7, <1>8, <1>9, <1>10, <1>11 DEF Next

LEMMA Inductive == Spec => []IInv
<1>1. IInv /\ [Next]_vars => IInv'
  BY NextInv
<1>. QED
  BY <1>1, InitInv, PTL DEF Spec

(* Every variable of the backfill (backfill()) keeps its type. *)
THEOREM TypeCorrect == Spec => []TypeOK
<1>1. IInv => TypeOK
  BY DEF IInv
<1>. QED
  BY <1>1, Inductive, PTL

(* Exit code 0 of main: every day before --to that the API has is in the   *)
(* lake and stays there, whatever failed before, except what the archive's *)
(* window still reached when the run started.                              *)
THEOREM DoneIsComplete == Spec => []DoneMeansComplete
<1>1. IInv => DoneMeansComplete
  BY DEF IInv
<1>. QED
  BY <1>1, Inductive, PTL

(* However runs fail, also right after a commit, and wherever they are     *)
(* restarted, a day has at most one copy for each run that covers it, and  *)
(* one of the archive (table.append, _overwrite_day).                      *)
THEOREM CopiesAreCounted == Spec => []OneCopyPerRun
<1>1. IInv => OneCopyPerRun
  BY DEF IInv
<1>. QED
  BY <1>1, Inductive, PTL
=============================================================================
