--------------------------- MODULE ArchiveProofs ---------------------------
(***************************************************************************)
(* Proofs about Archive for every number of runs and tables, every window, *)
(* retention and lateness, and every bound on days and versions.           *)
(***************************************************************************)
EXTENDS Archive, TLAPS

LEMMA DayOfType ==
  ASSUME TypeOK, NEW r \in Slot
  PROVE  DayOf(r) \in Day /\ DayOf(r) < day0[r] /\ DayOf(r) >= day0[r] - Lookback
<1>1. day0[r] \in FirstDay..MaxDay /\ back[r] \in 1..Lookback
  BY DEF TypeOK
<1>. QED
  BY <1>1, ArchiveAssumption DEF DayOf, Day, FirstDay

-----------------------------------------------------------------------------
(* Type correctness. *)

LEMMA InitType == Init => TypeOK
BY ArchiveAssumption DEF Init, TypeOK, Tables, Day, FirstDay

LEMMA ForgetType ==
  ASSUME TypeOK, NEW r \in Slot, Forget(r)
  PROVE  /\ pc' \in [Slot -> {"idle", "load", "clock", "fetch", "write"}]
         /\ tab' \in [Slot -> Tables]
         /\ day0' \in [Slot -> FirstDay..MaxDay]
         /\ back' \in [Slot -> 1..Lookback]
         /\ rows' \in [Slot -> 0..MaxVer]
<1>1. FirstDay \in FirstDay..MaxDay
  BY ArchiveAssumption DEF FirstDay
<1>2. 1 \in Tables /\ 1 \in 1..Lookback /\ 0 \in 0..MaxVer
  BY ArchiveAssumption DEF Tables
<1>. QED
  BY <1>1, <1>2 DEF TypeOK, Forget

LEMMA AdvanceType ==
  ASSUME TypeOK, NEW r \in Slot, NextDay(r) \/ NextTable(r)
  PROVE  /\ pc' \in [Slot -> {"idle", "load", "clock", "fetch", "write"}]
         /\ tab' \in [Slot -> Tables]
         /\ day0' \in [Slot -> FirstDay..MaxDay]
         /\ back' \in [Slot -> 1..Lookback]
         /\ rows' \in [Slot -> 0..MaxVer]
         /\ lastDone' \in [Tables -> Retain..MaxDay]
<1>1. CASE NextDay(r)
  <2>1. back' \in [Slot -> 1..Lookback]
    BY <1>1, ArchiveAssumption DEF NextDay, TypeOK
  <2>. QED
    BY <1>1, <2>1 DEF NextDay, TypeOK
<1>2. CASE NextTable(r)
  <2>1. lastDone' \in [Tables -> Retain..MaxDay]
    BY <1>2, ArchiveAssumption DEF NextTable, TypeOK, FirstDay
  <2>2. CASE Forget(r)
    BY <2>1, <2>2, ForgetType
  <2>3. CASE /\ tab[r] < NTables
             /\ pc' = [pc EXCEPT ![r] = "load"]
             /\ tab' = [tab EXCEPT ![r] = @ + 1]
             /\ UNCHANGED <<day0, back, rows>>
    <3>0. tab[r] \in 1..NTables /\ NTables \in Nat
      BY ArchiveAssumption DEF TypeOK, Tables
    <3>1. tab[r] + 1 \in Tables
      BY <2>3, <3>0 DEF Tables
    <3>2. tab' \in [Slot -> Tables]
      BY <2>3, <3>1 DEF TypeOK
    <3>. QED
      BY <2>1, <2>3, <3>2 DEF TypeOK
  <2>. QED
    BY <1>2, <2>2, <2>3 DEF NextTable
<1>. QED
  BY <1>1, <1>2

LEMMA NextType == TypeOK /\ [Next]_vars => TypeOK'
<1>. SUFFICES ASSUME TypeOK, [Next]_vars
              PROVE  TypeOK'
  OBVIOUS
<1>1. ASSUME NEW t \in Tables, NEW d \in Day, Ingest(t, d) PROVE TypeOK'
  <2>1. hot[t] \in [Day -> 0..MaxVer]
    BY DEF TypeOK
  <2>2. [hot[t] EXCEPT ![d] = @ + 1] \in [Day -> 0..MaxVer]
    BY <1>1, <2>1, ArchiveAssumption DEF Ingest
  <2>. QED
    BY <1>1, <2>2 DEF Ingest, TypeOK, runVars
<1>2. ASSUME NEW t \in Tables, NEW d \in Day, Expire(t, d) PROVE TypeOK'
  <2>1. [hot[t] EXCEPT ![d] = 0] \in [Day -> 0..MaxVer]
    BY ArchiveAssumption DEF TypeOK
  <2>. QED
    BY <1>2, <2>1 DEF Expire, TypeOK, runVars
<1>3. ASSUME Midnight PROVE TypeOK'
  BY <1>3, ArchiveAssumption DEF Midnight, TypeOK, runVars, FirstDay
<1>4. ASSUME NEW r \in Slot, Begin(r) PROVE TypeOK'
  BY <1>4 DEF Begin, TypeOK
<1>5. ASSUME NEW r \in Slot, LoadTable(r) PROVE TypeOK'
  BY <1>5 DEF LoadTable, TypeOK
<1>6. ASSUME NEW r \in Slot, ReadClock(r) PROVE TypeOK'
  BY <1>6, ArchiveAssumption DEF ReadClock, TypeOK
<1>7. ASSUME NEW r \in Slot, FetchPartition(r) PROVE TypeOK'
  BY <1>7, DayOfType DEF FetchPartition, TypeOK
<1>8. ASSUME NEW r \in Slot, OverwriteDay(r) PROVE TypeOK'
  <2>1. tab[r] \in Tables /\ DayOf(r) \in Day /\ rows[r] \in 0..MaxVer
    BY DayOfType DEF TypeOK
  <2>2. [lake[tab[r]] EXCEPT ![DayOf(r)] = rows[r]] \in [Day -> 0..MaxVer]
    BY <2>1 DEF TypeOK
  <2>3. lake' \in [Tables -> [Day -> 0..MaxVer]]
    BY <1>8, <2>1, <2>2 DEF OverwriteDay, TypeOK
  <2>4. current' \in [Slot -> BOOLEAN]
    BY <1>8 DEF OverwriteDay, TypeOK
  <2>5. seen' \in [Slot -> SUBSET Day]
    BY <1>8, <2>1 DEF OverwriteDay, TypeOK
  <2>6. NextDay(r) \/ NextTable(r)
    BY <1>8 DEF OverwriteDay
  <2>. QED
    BY <1>8, <2>3, <2>4, <2>5, <2>6, AdvanceType DEF OverwriteDay, TypeOK
<1>9. ASSUME NEW r \in Slot, SkipDay(r) PROVE TypeOK'
  <2>1. NextDay(r) \/ NextTable(r)
    BY <1>9 DEF SkipDay
  <2>. QED
    BY <1>9, <2>1, AdvanceType DEF SkipDay, TypeOK
<1>10. ASSUME NEW r \in Slot, CommitFails(r) PROVE TypeOK'
  BY <1>10, ForgetType DEF CommitFails, TypeOK
<1>11. ASSUME NEW r \in Slot, Die(r) PROVE TypeOK'
  BY <1>11, ForgetType DEF Die, TypeOK
<1>12. CASE UNCHANGED vars
  BY <1>12 DEF vars, runVars, TypeOK
<1>. QED
  BY <1>1, <1>2, <1>3, <1>4, <1>5, <1>6, <1>7, <1>8, <1>9, <1>10, <1>11, <1>12 DEF Next

(* Every variable of the archive keeps its type, whatever overlaps, dies   *)
(* or is refused (archive_to_iceberg).                                     *)
THEOREM TypeCorrect == Spec => []TypeOK
<1>. QED
  BY InitType, NextType, PTL DEF Spec

-----------------------------------------------------------------------------
(* The lake never goes back.  A run that still knows the head of its table *)
(* carries rows at least as new as the lake's, because it fetched after    *)
(* every commit it knows of; and retention cannot have emptied a day that  *)
(* a run may still be at.                                                  *)

RunsAreYoung ==
  \A r \in Slot : pc[r] \in {"fetch", "write"} =>
    day0[r] <= today /\ today <= day0[r] + 1

FetchedFromHot ==
  \A r \in Slot : pc[r] = "write" => rows[r] <= hot[tab[r]][DayOf(r)]

CurrentRunsAreNewer ==
  \A r \in Slot :
    pc[r] = "write" /\ current[r] => lake[tab[r]][DayOf(r)] <= rows[r]

OrderInv == TypeOK /\ RunsAreYoung /\ LakeFromHot /\ FetchedFromHot /\ CurrentRunsAreNewer

LEMMA InitOrder == Init => OrderInv
<1>. SUFFICES ASSUME Init PROVE OrderInv
  OBVIOUS
<1>1. LakeFromHot
  <2>. SUFFICES ASSUME NEW t \in Tables, NEW d \in Day
                PROVE  lake[t][d] <= hot[t][d]
    BY DEF LakeFromHot
  <2>1. d \in Int /\ Retain \in Nat /\ Lag[t] \in Nat /\ Lookback \in Nat
    BY ArchiveAssumption DEF Day
  <2>2. d + Lag[t] < Retain \/ d + Lookback < FirstDay => d < FirstDay
    BY <2>1 DEF FirstDay
  <2>. QED
    BY <2>2 DEF Init
<1>2. \A r \in Slot : pc[r] = "idle"
  BY DEF Init
<1>. QED
  BY <1>1, <1>2, InitType DEF OrderInv, RunsAreYoung, FetchedFromHot, CurrentRunsAreNewer

(* The days a run may be at are still in the hot store. *)
LEMMA RunsInRetention ==
  ASSUME OrderInv, NEW r \in Slot, pc[r] \in {"fetch", "write"}
  PROVE  today <= DayOf(r) + Retain
<1>1. today <= day0[r] + 1
  BY DEF OrderInv, RunsAreYoung
<1>2. DayOf(r) >= day0[r] - Lookback /\ DayOf(r) \in Int /\ day0[r] \in Int /\ today \in Int
  BY DayOfType DEF OrderInv, TypeOK, Day
<1>. QED
  BY <1>1, <1>2, ArchiveAssumption

(* What a run keeps when it goes on to another day, another table or ends. *)
LEMMA AdvanceYoung ==
  ASSUME OrderInv, NEW r \in Slot, pc[r] = "write", NextDay(r) \/ NextTable(r),
         UNCHANGED today
  PROVE  /\ RunsAreYoung'
         /\ pc'[r] # "write"
         /\ \A s \in Slot \ {r} :
              /\ pc'[s] = pc[s] /\ tab'[s] = tab[s] /\ day0'[s] = day0[s]
              /\ back'[s] = back[s] /\ rows'[s] = rows[s]
<1>1. /\ \A s \in Slot \ {r} :
           /\ pc'[s] = pc[s] /\ tab'[s] = tab[s] /\ day0'[s] = day0[s]
           /\ back'[s] = back[s] /\ rows'[s] = rows[s]
      /\ \/ pc'[r] = "fetch" /\ day0'[r] = day0[r]
         \/ pc'[r] \in {"idle", "load"}
  <2>1. CASE NextDay(r)
    BY <2>1 DEF OrderInv, TypeOK, NextDay
  <2>2. CASE NextTable(r) /\ Forget(r)
    BY <2>2 DEF OrderInv, TypeOK, Forget
  <2>3. CASE NextTable(r) /\ ~Forget(r)
    BY <2>3 DEF OrderInv, TypeOK, NextTable
  <2>. QED
    BY <2>1, <2>2, <2>3
<1>2. \A s \in Slot : pc'[s] \in {"fetch", "write"} =>
        pc[s] \in {"fetch", "write"} /\ day0'[s] = day0[s]
  BY <1>1
<1>3. RunsAreYoung'
  BY <1>2 DEF OrderInv, RunsAreYoung
<1>. QED
  BY <1>1, <1>3

LEMMA ForgetYoung ==
  ASSUME OrderInv, NEW r \in Slot, Forget(r), UNCHANGED today
  PROVE  /\ RunsAreYoung'
         /\ pc'[r] # "write"
         /\ \A s \in Slot \ {r} :
              /\ pc'[s] = pc[s] /\ tab'[s] = tab[s] /\ day0'[s] = day0[s]
              /\ back'[s] = back[s] /\ rows'[s] = rows[s]
BY DEF OrderInv, RunsAreYoung, TypeOK, Forget

LEMMA NextOrder == OrderInv /\ [Next]_vars => OrderInv'
<1>. SUFFICES ASSUME OrderInv, [Next]_vars
              PROVE  RunsAreYoung' /\ LakeFromHot' /\ FetchedFromHot' /\ CurrentRunsAreNewer'
  BY NextType DEF OrderInv
<1>0. TypeOK
  BY DEF OrderInv
<1>. USE <1>0
<1>1. ASSUME NEW t \in Tables, NEW d \in Day, Ingest(t, d)
      PROVE  RunsAreYoung' /\ LakeFromHot' /\ FetchedFromHot' /\ CurrentRunsAreNewer'
  <2>1. \A u \in Tables, e \in Day : hot[u][e] <= hot'[u][e] /\ hot[u][e] \in Int /\ hot'[u][e] \in Int
    BY <1>1 DEF Ingest, TypeOK
  <2>2. LakeFromHot'
    BY <1>1, <2>1 DEF Ingest, OrderInv, LakeFromHot, TypeOK
  <2>3. FetchedFromHot'
    BY <1>1, <2>1, DayOfType DEF Ingest, OrderInv, FetchedFromHot, DayOf, TypeOK, runVars
  <2>. QED
    BY <1>1, <2>2, <2>3
    DEF Ingest, OrderInv, RunsAreYoung, CurrentRunsAreNewer, DayOf, runVars
<1>2. ASSUME NEW t \in Tables, NEW d \in Day, Expire(t, d)
      PROVE  RunsAreYoung' /\ LakeFromHot' /\ FetchedFromHot' /\ CurrentRunsAreNewer'
  <2>1. \A u \in Tables, e \in Day : today <= e + Retain => hot'[u][e] = hot[u][e]
    <3>1. \A u \in Tables, e \in Day : hot'[u][e] = IF u = t /\ e = d THEN 0 ELSE hot[u][e]
      BY <1>2 DEF Expire, TypeOK
    <3>2. ~(today <= d + Retain)
      BY <1>2, ArchiveAssumption DEF Expire, TypeOK, Day
    <3>. QED
      BY <3>1, <3>2
  <2>2. LakeFromHot'
    BY <1>2, <2>1 DEF Expire, OrderInv, LakeFromHot
  <2>3. FetchedFromHot'
    <3>. SUFFICES ASSUME NEW r \in Slot, pc[r] = "write"
                  PROVE  rows[r] <= hot'[tab[r]][DayOf(r)]
      BY <1>2 DEF Expire, FetchedFromHot, DayOf, runVars
    <3>1. tab[r] \in Tables /\ DayOf(r) \in Day /\ today <= DayOf(r) + Retain
      BY DayOfType, RunsInRetention DEF TypeOK
    <3>2. rows[r] <= hot[tab[r]][DayOf(r)]
      BY DEF OrderInv, FetchedFromHot
    <3>. QED
      BY <3>1, <3>2, <2>1
  <2>. QED
    BY <1>2, <2>2, <2>3
    DEF Expire, OrderInv, RunsAreYoung, CurrentRunsAreNewer, DayOf, runVars
<1>3. ASSUME Midnight
      PROVE  RunsAreYoung' /\ LakeFromHot' /\ FetchedFromHot' /\ CurrentRunsAreNewer'
  <2>1. RunsAreYoung'
    BY <1>3 DEF Midnight, OrderInv, RunsAreYoung, TypeOK, runVars
  <2>2. LakeFromHot'
    BY <1>3, ArchiveAssumption DEF Midnight, OrderInv, LakeFromHot, TypeOK, Day
  <2>. QED
    BY <1>3, <2>1, <2>2
    DEF Midnight, OrderInv, FetchedFromHot, CurrentRunsAreNewer, DayOf, runVars
<1>4. ASSUME NEW r \in Slot, Begin(r)
      PROVE  RunsAreYoung' /\ LakeFromHot' /\ FetchedFromHot' /\ CurrentRunsAreNewer'
  BY <1>4 DEF Begin, OrderInv, RunsAreYoung, LakeFromHot, FetchedFromHot, CurrentRunsAreNewer,
              DayOf, TypeOK
<1>5. ASSUME NEW r \in Slot, LoadTable(r)
      PROVE  RunsAreYoung' /\ LakeFromHot' /\ FetchedFromHot' /\ CurrentRunsAreNewer'
  BY <1>5 DEF LoadTable, OrderInv, RunsAreYoung, LakeFromHot, FetchedFromHot,
              CurrentRunsAreNewer, DayOf, TypeOK
<1>6. ASSUME NEW r \in Slot, ReadClock(r)
      PROVE  RunsAreYoung' /\ LakeFromHot' /\ FetchedFromHot' /\ CurrentRunsAreNewer'
  <2>1. RunsAreYoung'
    BY <1>6 DEF ReadClock, OrderInv, RunsAreYoung, TypeOK
  <2>. QED
    BY <1>6, <2>1 DEF ReadClock, OrderInv, LakeFromHot, FetchedFromHot,
                      CurrentRunsAreNewer, DayOf, TypeOK
<1>7. ASSUME NEW r \in Slot, FetchPartition(r)
      PROVE  RunsAreYoung' /\ LakeFromHot' /\ FetchedFromHot' /\ CurrentRunsAreNewer'
  <2>1. tab[r] \in Tables /\ DayOf(r) \in Day /\ today <= DayOf(r) + Retain
    BY <1>7, DayOfType, RunsInRetention DEF FetchPartition, TypeOK
  <2>2. lake[tab[r]][DayOf(r)] <= hot[tab[r]][DayOf(r)]
    BY <2>1 DEF OrderInv, LakeFromHot
  <2>3. rows'[r] = hot[tab[r]][DayOf(r)] /\ rows[r] \in Int /\ hot[tab[r]][DayOf(r)] \in Int
    BY <1>7, <2>1 DEF FetchPartition, TypeOK
  <2>4. \A s \in Slot : DayOf(s)' = DayOf(s)
    BY <1>7 DEF FetchPartition, DayOf
  <2>5. \A s \in Slot \ {r} : pc'[s] = pc[s] /\ rows'[s] = rows[s]
    BY <1>7 DEF FetchPartition, TypeOK
  <2>6. FetchedFromHot' /\ CurrentRunsAreNewer'
    <3>. SUFFICES ASSUME NEW s \in Slot, pc'[s] = "write"
                  PROVE  /\ rows'[s] <= hot[tab[s]][DayOf(s)]
                         /\ current[s] => lake[tab[s]][DayOf(s)] <= rows'[s]
      BY <1>7, <2>4 DEF FetchPartition, FetchedFromHot, CurrentRunsAreNewer
    <3>1. CASE s = r
      BY <3>1, <2>2, <2>3
    <3>2. CASE s # r
      BY <3>2, <2>5 DEF OrderInv, FetchedFromHot, CurrentRunsAreNewer
    <3>. QED
      BY <3>1, <3>2
  <2>7. RunsAreYoung'
    BY <1>7 DEF FetchPartition, OrderInv, RunsAreYoung, TypeOK
  <2>. QED
    BY <1>7, <2>6, <2>7 DEF FetchPartition, OrderInv, LakeFromHot
<1>8. ASSUME NEW r \in Slot, OverwriteDay(r)
      PROVE  RunsAreYoung' /\ LakeFromHot' /\ FetchedFromHot' /\ CurrentRunsAreNewer'
  <2>1. pc[r] = "write" /\ (NextDay(r) \/ NextTable(r)) /\ UNCHANGED <<today, hot>>
    BY <1>8 DEF OverwriteDay
  <2>2. /\ RunsAreYoung'
        /\ pc'[r] # "write"
        /\ \A s \in Slot \ {r} :
             /\ pc'[s] = pc[s] /\ tab'[s] = tab[s] /\ DayOf(s)' = DayOf(s)
             /\ rows'[s] = rows[s]
    BY <2>1, AdvanceYoung DEF DayOf
  <2>3. tab[r] \in Tables /\ DayOf(r) \in Day
    BY DayOfType DEF TypeOK
  <2>4. \A u \in Tables, e \in Day :
          lake'[u][e] = IF u = tab[r] /\ e = DayOf(r) THEN rows[r] ELSE lake[u][e]
    BY <1>8, <2>3 DEF OverwriteDay, TypeOK
  <2>5. rows[r] <= hot[tab[r]][DayOf(r)]
    BY <2>1 DEF OrderInv, FetchedFromHot
  <2>6. LakeFromHot'
    BY <2>1, <2>4, <2>5 DEF OrderInv, LakeFromHot
  <2>7. FetchedFromHot'
    BY <2>1, <2>2 DEF OrderInv, FetchedFromHot
  <2>8. CurrentRunsAreNewer'
    <3>. SUFFICES ASSUME NEW s \in Slot, pc'[s] = "write", current'[s]
                  PROVE  lake'[tab'[s]][DayOf(s)'] <= rows'[s]
      BY DEF CurrentRunsAreNewer
    <3>1. s # r /\ tab[s] # tab[r] /\ current[s]
      BY <1>8, <2>2 DEF OverwriteDay
    <3>2. tab[s] \in Tables /\ DayOf(s) \in Day
      BY DayOfType DEF TypeOK
    <3>. QED
      BY <2>2, <2>4, <3>1, <3>2 DEF OrderInv, CurrentRunsAreNewer
  <2>. QED
    BY <2>2, <2>6, <2>7, <2>8
<1>9. ASSUME NEW r \in Slot, SkipDay(r)
      PROVE  RunsAreYoung' /\ LakeFromHot' /\ FetchedFromHot' /\ CurrentRunsAreNewer'
  <2>1. pc[r] = "write" /\ (NextDay(r) \/ NextTable(r)) /\ UNCHANGED <<today, hot, lake, current>>
    BY <1>9 DEF SkipDay
  <2>2. /\ RunsAreYoung'
        /\ pc'[r] # "write"
        /\ \A s \in Slot \ {r} :
             /\ pc'[s] = pc[s] /\ tab'[s] = tab[s] /\ DayOf(s)' = DayOf(s)
             /\ rows'[s] = rows[s]
    BY <2>1, AdvanceYoung DEF DayOf
  <2>. QED
    BY <2>1, <2>2 DEF OrderInv, LakeFromHot, FetchedFromHot, CurrentRunsAreNewer
<1>10. ASSUME NEW r \in Slot, Forget(r), UNCHANGED <<today, hot, lake, current>>
       PROVE  RunsAreYoung' /\ LakeFromHot' /\ FetchedFromHot' /\ CurrentRunsAreNewer'
  <2>1. /\ RunsAreYoung'
        /\ pc'[r] # "write"
        /\ \A s \in Slot \ {r} :
             /\ pc'[s] = pc[s] /\ tab'[s] = tab[s] /\ DayOf(s)' = DayOf(s)
             /\ rows'[s] = rows[s]
    BY <1>10, ForgetYoung DEF DayOf
  <2>. QED
    BY <1>10, <2>1 DEF OrderInv, LakeFromHot, FetchedFromHot, CurrentRunsAreNewer
<1>11. CASE UNCHANGED vars
  BY <1>11 DEF vars, runVars, OrderInv, RunsAreYoung, LakeFromHot, FetchedFromHot,
               CurrentRunsAreNewer, DayOf
<1>. QED
  BY <1>1, <1>2, <1>3, <1>4, <1>5, <1>6, <1>7, <1>8, <1>9, <1>10, <1>11
  DEF Next, CommitFails, Die

(* No content reaches the lake that the hot store did not have             *)
(* (_fetch_partition, _overwrite_day).                                     *)
THEOREM LakeIsFromHot == Spec => []LakeFromHot
<1>1. OrderInv => LakeFromHot
  BY DEF OrderInv
<1>. QED
  BY <1>1, InitOrder, NextOrder, PTL DEF Spec

LEMMA NextNeverRegresses ==
  OrderInv /\ [Next]_vars => \A t \in Tables, d \in Day : lake'[t][d] >= lake[t][d]
<1>. SUFFICES ASSUME OrderInv, [Next]_vars, NEW t \in Tables, NEW d \in Day
              PROVE  lake'[t][d] >= lake[t][d]
  OBVIOUS
<1>0. TypeOK /\ lake[t][d] \in Int
  BY DEF OrderInv, TypeOK
<1>1. ASSUME NEW r \in Slot, OverwriteDay(r) PROVE lake'[t][d] >= lake[t][d]
  <2>1. tab[r] \in Tables /\ DayOf(r) \in Day /\ rows[r] \in Int
    BY <1>0, DayOfType DEF TypeOK
  <2>2. lake'[t][d] = IF t = tab[r] /\ d = DayOf(r) THEN rows[r] ELSE lake[t][d]
    BY <1>0, <1>1, <2>1 DEF OverwriteDay, TypeOK
  <2>3. lake[tab[r]][DayOf(r)] <= rows[r]
    BY <1>1 DEF OverwriteDay, OrderInv, CurrentRunsAreNewer
  <2>. QED
    BY <1>0, <2>1, <2>2, <2>3
<1>2. CASE UNCHANGED lake
  BY <1>0, <1>2
<1>. QED
  BY <1>1, <1>2 DEF Next, Ingest, Expire, Midnight, Begin, LoadTable, ReadClock,
                    FetchPartition, SkipDay, CommitFails, Die, vars

(* Overlapping, dying and restarted runs of archive_to_iceberg never put   *)
(* older content of a day over newer content and never clear a day.        *)
THEOREM LakeIsMonotonic == Spec => LakeNeverRegresses
<1>1. OrderInv /\ [Next]_vars =>
        [\A t \in Tables, d \in Day : lake'[t][d] >= lake[t][d]]_vars
  BY NextNeverRegresses
<1>. QED
  BY <1>1, InitOrder, NextOrder, PTL DEF Spec, LakeNeverRegresses

-----------------------------------------------------------------------------
(* A day that has left the window is final in the lake, provided that late *)
(* rows and missed nights fit into it.  Every completed archive of a table *)
(* has stored the days that could no longer change when it began, and the  *)
(* windows of two successive completed archives leave no day out.          *)

(* What a run has fetched of a day that no longer changes is final ...     *)
FetchedFinal(r) ==
  pc[r] = "write" /\ DayOf(r) + Lag[tab[r]] < day0[r]
    => hot[tab[r]][DayOf(r)] <= rows[r]

(* ... and so are the days of its window it is through with.               *)
WindowSoFar(r) ==
  \A d \in Day :
    /\ pc[r] \in {"fetch", "write"}
    /\ DayOf(r) < d /\ d + Lag[tab[r]] < day0[r]
    => hot[tab[r]][d] <= lake[tab[r]][d]

Archived ==
  \A t \in Tables, d \in Day : d + Lag[t] < lastDone[t] => hot[t][d] <= lake[t][d]

NightsMissed ==
  \A t \in Tables : lastDone[t] <= today /\ today <= lastDone[t] + MaxMissed + 1

FinalInv ==
  /\ OrderInv
  /\ \A r \in Slot : FetchedFinal(r) /\ WindowSoFar(r)
  /\ Archived
  /\ NightsMissed

LEMMA InitFinal == Init => FinalInv
<1>. SUFFICES ASSUME Init PROVE FinalInv
  OBVIOUS
<1>1. OrderInv
  BY InitOrder
<1>2. \A r \in Slot : FetchedFinal(r) /\ WindowSoFar(r)
  BY DEF Init, FetchedFinal, WindowSoFar
<1>3. Archived
  <2>1. ASSUME NEW t \in Tables, NEW d \in Day, d + Lag[t] < Retain
        PROVE  d < FirstDay
    BY <2>1, ArchiveAssumption DEF Day, FirstDay
  <2>. QED
    BY <2>1 DEF Init, Archived
<1>4. NightsMissed
  BY ArchiveAssumption DEF Init, NightsMissed, FirstDay
<1>. QED
  BY <1>1, <1>2, <1>3, <1>4 DEF FinalInv

(* A day that no longer changes can only lose its rows, to retention ...   *)
LEMMA HotFalls ==
  ASSUME OrderInv, [Next]_vars, NEW t \in Tables, NEW d \in Day, d + Lag[t] < today
  PROVE  hot'[t][d] <= hot[t][d]
<1>1. /\ hot[t][d] \in Int /\ hot[t][d] >= 0
      /\ today \in Int /\ d \in Int /\ Lag[t] \in Int
  BY ArchiveAssumption DEF OrderInv, TypeOK, Day
<1>2. ASSUME NEW u \in Tables, NEW e \in Day, Ingest(u, e)
      PROVE  hot'[t][d] = hot[t][d]
  <2>1. ~(u = t /\ e = d)
    BY <1>1, <1>2 DEF Ingest
  <2>. QED
    BY <1>2, <2>1 DEF Ingest, OrderInv, TypeOK
<1>3. ASSUME NEW u \in Tables, NEW e \in Day, Expire(u, e)
      PROVE  hot'[t][d] = 0 \/ hot'[t][d] = hot[t][d]
  <2>1. hot'[t][d] = IF t = u /\ d = e THEN 0 ELSE hot[t][d]
    BY <1>3 DEF Expire, OrderInv, TypeOK
  <2>. QED
    BY <2>1
<1>4. \/ \E u \in Tables, e \in Day : Ingest(u, e) \/ Expire(u, e)
      \/ UNCHANGED hot
  BY DEF Next, Midnight, Begin, LoadTable, ReadClock, FetchPartition, OverwriteDay,
         SkipDay, CommitFails, Die, vars
<1>5. CASE UNCHANGED hot
  BY <1>1, <1>5
<1>6. CASE \E u \in Tables, e \in Day : Ingest(u, e) \/ Expire(u, e)
  <2>1. hot'[t][d] = 0 \/ hot'[t][d] = hot[t][d]
    BY <1>2, <1>3, <1>6
  <2>. QED
    BY <1>1, <2>1
<1>. QED
  BY <1>4, <1>5, <1>6

(* ... and the lake only gains, so what was final stays final.             *)
LEMMA FinalStaysFinal ==
  ASSUME OrderInv, [Next]_vars, NEW t \in Tables, NEW d \in Day,
         d + Lag[t] < today, hot[t][d] <= lake[t][d]
  PROVE  hot'[t][d] <= lake'[t][d]
<1>1. hot'[t][d] <= hot[t][d] /\ lake[t][d] <= lake'[t][d]
  BY HotFalls, NextNeverRegresses
<1>2. TypeOK'
  BY NextType DEF OrderInv
<1>. QED
  BY <1>1, <1>2 DEF OrderInv, TypeOK

SameRun(r) ==
  /\ pc'[r] = pc[r] /\ tab'[r] = tab[r] /\ day0'[r] = day0[r]
  /\ back'[r] = back[r] /\ rows'[r] = rows[r]

(* Whatever else happens, a run that does not move keeps its books.        *)
LEMMA SameRunKeeps ==
  ASSUME FinalInv, [Next]_vars, NEW r \in Slot, SameRun(r)
  PROVE  FetchedFinal(r)' /\ WindowSoFar(r)'
<1>. DEFINE t == tab[r]
<1>1. OrderInv /\ TypeOK /\ TypeOK' /\ FetchedFinal(r) /\ WindowSoFar(r)
  BY NextType DEF FinalInv, OrderInv
<1>2. t \in Tables /\ DayOf(r) \in Day /\ DayOf(r)' = DayOf(r)
  BY <1>1, DayOfType DEF TypeOK, DayOf, SameRun
<1>3. pc[r] \in {"fetch", "write"} => day0[r] <= today
  BY <1>1 DEF OrderInv, RunsAreYoung
<1>4. /\ Lag[t] \in Int /\ day0[r] \in Int /\ today \in Int /\ rows[r] \in Int
      /\ \A d \in Day : d \in Int /\ hot[t][d] \in Int /\ hot'[t][d] \in Int
  <2>1. Lag[t] \in Int
    BY <1>2, ArchiveAssumption
  <2>2. day0[r] \in Int /\ today \in Int /\ rows[r] \in Int
    BY <1>1 DEF TypeOK
  <2>3. \A d \in Day : d \in Int
    BY DEF Day
  <2>4. hot[t] \in [Day -> 0..MaxVer] /\ hot'[t] \in [Day -> 0..MaxVer]
    BY <1>1, <1>2 DEF TypeOK
  <2>5. \A d \in Day : hot[t][d] \in Int /\ hot'[t][d] \in Int
    BY <2>4
  <2>. QED
    BY <2>1, <2>2, <2>3, <2>5
<1>5. \A d \in Day : pc[r] \in {"fetch", "write"} /\ d + Lag[t] < day0[r] => d + Lag[t] < today
  BY <1>3, <1>4
<1>6. FetchedFinal(r)'
  <2>. SUFFICES ASSUME pc[r] = "write", DayOf(r) + Lag[t] < day0[r]
                PROVE  hot'[t][DayOf(r)] <= rows[r]
    BY <1>2 DEF FetchedFinal, SameRun
  <2>1. hot'[t][DayOf(r)] <= hot[t][DayOf(r)]
    BY <1>1, <1>2, <1>5, HotFalls
  <2>2. hot[t][DayOf(r)] <= rows[r]
    BY <1>1 DEF FetchedFinal
  <2>. QED
    BY <1>2, <1>4, <2>1, <2>2
<1>7. WindowSoFar(r)'
  <2>. SUFFICES ASSUME NEW d \in Day, pc[r] \in {"fetch", "write"},
                       DayOf(r) < d, d + Lag[t] < day0[r]
                PROVE  hot'[t][d] <= lake'[t][d]
    BY <1>2 DEF WindowSoFar, SameRun
  <2>. QED
    BY <1>1, <1>2, <1>5, FinalStaysFinal DEF WindowSoFar
<1>. QED
  BY <1>6, <1>7

(* The content of the day a run is through with is in the lake now.        *)
LEMMA WrittenIsFinal ==
  ASSUME FinalInv, [Next]_vars, NEW r \in Slot, OverwriteDay(r) \/ SkipDay(r),
         DayOf(r) + Lag[tab[r]] < day0[r]
  PROVE  hot'[tab[r]][DayOf(r)] <= lake'[tab[r]][DayOf(r)]
<1>1. TypeOK /\ pc[r] = "write" /\ hot[tab[r]][DayOf(r)] <= rows[r]
  BY DEF FinalInv, OrderInv, FetchedFinal, OverwriteDay, SkipDay
<1>2. tab[r] \in Tables /\ DayOf(r) \in Day
  BY <1>1, DayOfType DEF TypeOK
<1>3. UNCHANGED hot
  BY DEF OverwriteDay, SkipDay
<1>4. CASE OverwriteDay(r)
  <2>1. lake'[tab[r]][DayOf(r)] = rows[r]
    BY <1>1, <1>2, <1>4 DEF OverwriteDay, TypeOK
  <2>. QED
    BY <1>1, <1>3, <2>1
<1>5. CASE SkipDay(r)
  <2>1. rows[r] = 0 /\ UNCHANGED lake
    BY <1>5 DEF SkipDay, NothingToDelete
  <2>2. lake[tab[r]][DayOf(r)] \in 0..MaxVer /\ hot[tab[r]][DayOf(r)] \in 0..MaxVer
    BY <1>1, <1>2 DEF TypeOK
  <2>. QED
    BY <1>1, <1>3, <2>1, <2>2
<1>. QED
  BY <1>4, <1>5

(* What a step does to one run.                                            *)
LEMMA RunMoves ==
  ASSUME TypeOK, [Next]_vars, NEW r \in Slot
  PROVE  \/ SameRun(r)
         \/ pc'[r] \notin {"fetch", "write"}
         \/ ReadClock(r)
         \/ FetchPartition(r)
         \/ (OverwriteDay(r) \/ SkipDay(r)) /\ NextDay(r)
<1>1. ASSUME NEW s \in Slot, s # r,
             \/ Begin(s) \/ LoadTable(s) \/ ReadClock(s) \/ FetchPartition(s)
             \/ OverwriteDay(s) \/ SkipDay(s) \/ CommitFails(s) \/ Die(s)
      PROVE  SameRun(r)
  <2>1. CASE Forget(s)
    BY <1>1, <2>1 DEF SameRun, TypeOK, Forget
  <2>2. CASE NextDay(s)
    BY <1>1, <2>2 DEF SameRun, TypeOK, NextDay
  <2>3. CASE NextTable(s) /\ ~Forget(s)
    BY <1>1, <2>3 DEF SameRun, TypeOK, NextTable
  <2>4. CASE Begin(s) \/ LoadTable(s) \/ ReadClock(s) \/ FetchPartition(s)
    BY <1>1, <2>4 DEF SameRun, TypeOK, Begin, LoadTable, ReadClock, FetchPartition
  <2>. QED
    BY <1>1, <2>1, <2>2, <2>3, <2>4 DEF OverwriteDay, SkipDay, CommitFails, Die
<1>2. ASSUME \/ Begin(r) \/ LoadTable(r) \/ CommitFails(r) \/ Die(r)
             \/ (OverwriteDay(r) \/ SkipDay(r)) /\ NextTable(r)
      PROVE  pc'[r] \notin {"fetch", "write"}
  BY <1>2 DEF TypeOK, Begin, LoadTable, CommitFails, Die, NextTable, Forget
<1>3. (OverwriteDay(r) \/ SkipDay(r)) => NextDay(r) \/ NextTable(r)
  BY DEF OverwriteDay, SkipDay
<1>4. ASSUME \/ \E t \in Tables, d \in Day : Ingest(t, d) \/ Expire(t, d)
             \/ Midnight \/ UNCHANGED vars
      PROVE  SameRun(r)
  BY <1>4 DEF Ingest, Expire, Midnight, vars, runVars, SameRun
<1>. QED
  BY <1>1, <1>2, <1>3, <1>4 DEF Next

LEMMA NextWindow ==
  ASSUME FinalInv, [Next]_vars, NEW r \in Slot
  PROVE  FetchedFinal(r)' /\ WindowSoFar(r)'
<1>. DEFINE t == tab[r]
<1>1. OrderInv /\ TypeOK /\ TypeOK' /\ FetchedFinal(r) /\ WindowSoFar(r)
  BY NextType DEF FinalInv, OrderInv
<1>2. t \in Tables /\ DayOf(r) \in Day /\ Lag[t] \in Nat
  BY <1>1, DayOfType, ArchiveAssumption DEF TypeOK
<1>3. CASE SameRun(r)
  BY <1>3, SameRunKeeps
<1>4. CASE pc'[r] \notin {"fetch", "write"}
  BY <1>4 DEF FetchedFinal, WindowSoFar
<1>5. CASE ReadClock(r)
  <2>1. pc'[r] = "fetch" /\ t' = t /\ DayOf(r)' = day0'[r] - 1 /\ day0'[r] \in Int
    BY <1>1, <1>5 DEF ReadClock, TypeOK, DayOf
  <2>2. \A d \in Day : d \in Int /\ ~(DayOf(r)' < d /\ d + Lag[t] < day0'[r])
    BY <1>2, <2>1 DEF Day
  <2>. QED
    BY <2>1, <2>2 DEF FetchedFinal, WindowSoFar
<1>6. CASE FetchPartition(r)
  <2>1. /\ pc[r] = "fetch" /\ pc'[r] = "write" /\ t' = t /\ DayOf(r)' = DayOf(r)
        /\ UNCHANGED <<hot, lake, day0>>
        /\ rows'[r] = hot[t][DayOf(r)]
    BY <1>1, <1>6 DEF FetchPartition, TypeOK, DayOf
  <2>2. hot[t][DayOf(r)] \in Int
    BY <1>1, <1>2 DEF TypeOK
  <2>. QED
    BY <1>1, <2>1, <2>2 DEF FetchedFinal, WindowSoFar
<1>7. CASE (OverwriteDay(r) \/ SkipDay(r)) /\ NextDay(r)
  <2>1. /\ pc[r] = "write" /\ pc'[r] = "fetch" /\ t' = t /\ UNCHANGED <<day0, hot, today>>
        /\ DayOf(r)' = DayOf(r) - 1
    BY <1>1, <1>7 DEF OverwriteDay, SkipDay, NextDay, TypeOK, DayOf
  <2>2. ASSUME NEW d \in Day, DayOf(r)' < d, d + Lag[t] < day0[r]
        PROVE  hot'[t][d] <= lake'[t][d]
    <3>1. CASE d = DayOf(r)
      BY <1>7, <2>2, <3>1, WrittenIsFinal
    <3>2. CASE d # DayOf(r)
      <4>1. DayOf(r) < d
        BY <1>2, <2>1, <2>2, <3>2 DEF Day
      <4>2. hot[t][d] <= lake[t][d]
        BY <1>1, <2>1, <2>2, <4>1 DEF WindowSoFar
      <4>3. day0[r] <= today /\ day0[r] \in Int /\ today \in Int
        BY <1>1, <2>1 DEF OrderInv, RunsAreYoung, TypeOK
      <4>4. d \in Int /\ Lag[t] \in Int
        BY <1>2 DEF Day
      <4>5. d + Lag[t] < today
        BY <2>2, <4>3, <4>4
      <4>. QED
        BY <1>1, <1>2, <4>2, <4>5, FinalStaysFinal
    <3>. QED
      BY <3>1, <3>2
  <2>. QED
    BY <2>1, <2>2 DEF FetchedFinal, WindowSoFar
<1>. QED
  BY <1>1, <1>3, <1>4, <1>5, <1>6, <1>7, RunMoves

(* A table's archive is completed only by a run that is through with its   *)
(* window.                                                                 *)
LEMMA LastDoneMoves ==
  ASSUME TypeOK, [Next]_vars, NEW t \in Tables
  PROVE  \/ lastDone'[t] = lastDone[t]
         \/ \E r \in Slot :
              /\ OverwriteDay(r) \/ SkipDay(r)
              /\ tab[r] = t /\ back[r] = Lookback
              /\ lastDone[t] < day0[r] /\ lastDone'[t] = day0[r]
<1>1. ASSUME NEW r \in Slot, OverwriteDay(r) \/ SkipDay(r), NextTable(r)
      PROVE  \/ lastDone'[t] = lastDone[t]
             \/ /\ tab[r] = t /\ back[r] = Lookback
                /\ lastDone[t] < day0[r] /\ lastDone'[t] = day0[r]
  BY <1>1 DEF NextTable, TypeOK
<1>2. ASSUME NEW r \in Slot, NextDay(r) PROVE lastDone'[t] = lastDone[t]
  BY <1>2 DEF NextDay
<1>3. \/ UNCHANGED lastDone
      \/ \E r \in Slot : (OverwriteDay(r) \/ SkipDay(r)) /\ (NextDay(r) \/ NextTable(r))
  BY DEF Next, Ingest, Expire, Midnight, Begin, LoadTable, ReadClock, FetchPartition,
         OverwriteDay, SkipDay, CommitFails, Die, vars
<1>. QED
  BY <1>1, <1>2, <1>3

LEMMA NextArchived ==
  ASSUME WindowLongEnough, FinalInv, [Next]_vars
  PROVE  Archived'
<1>0. OrderInv /\ TypeOK /\ Archived /\ NightsMissed
  BY DEF FinalInv, OrderInv
<1>. SUFFICES ASSUME NEW t \in Tables, NEW d \in Day, d + Lag[t] < lastDone'[t]
              PROVE  hot'[t][d] <= lake'[t][d]
  BY DEF Archived
<1>1. /\ d \in Int /\ Lag[t] \in Int /\ lastDone[t] \in Int /\ today \in Int /\ Lookback \in Int
      /\ MaxMissed \in Int
  BY <1>0, ArchiveAssumption DEF TypeOK, Day
<1>2. ASSUME d + Lag[t] < lastDone[t] PROVE hot'[t][d] <= lake'[t][d]
  <2>1. d + Lag[t] < today
    BY <1>0, <1>1, <1>2 DEF NightsMissed
  <2>. QED
    BY <1>0, <1>2, <2>1, FinalStaysFinal DEF Archived
<1>3. ASSUME NEW r \in Slot, OverwriteDay(r) \/ SkipDay(r), tab[r] = t, back[r] = Lookback,
             lastDone[t] < day0[r], lastDone'[t] = day0[r]
      PROVE  hot'[t][d] <= lake'[t][d]
  <2>1. pc[r] = "write" /\ day0[r] \in Int /\ day0[r] <= today /\ DayOf(r) = day0[r] - Lookback
    BY <1>0, <1>3 DEF OverwriteDay, SkipDay, OrderInv, RunsAreYoung, TypeOK, DayOf
  <2>2. CASE d = DayOf(r)
    BY <1>3, <2>2, WrittenIsFinal
  <2>3. CASE d > DayOf(r)
    <3>1. DayOf(r) < d /\ d + Lag[t] < today
      BY <1>1, <1>3, <2>1, <2>3
    <3>2. hot[t][d] <= lake[t][d]
      BY <1>3, <2>1, <3>1 DEF FinalInv, WindowSoFar
    <3>. QED
      BY <1>0, <3>1, <3>2, FinalStaysFinal
  <2>4. CASE d < DayOf(r)
    <3>1. Lag[t] + MaxMissed < Lookback /\ today <= lastDone[t] + MaxMissed + 1
      BY <1>0 DEF WindowLongEnough, NightsMissed
    <3>2. d + Lag[t] < lastDone[t]
      BY <1>1, <2>1, <2>4, <3>1
    <3>. QED
      BY <1>2, <3>2
  <2>. QED
    BY <1>1, <2>1, <2>2, <2>3, <2>4
<1>. QED
  BY <1>0, <1>2, <1>3, LastDoneMoves

LEMMA NextNights ==
  ASSUME FinalInv, [Next]_vars
  PROVE  NightsMissed'
<1>0. OrderInv /\ TypeOK /\ NightsMissed
  BY DEF FinalInv, OrderInv
<1>. SUFFICES ASSUME NEW t \in Tables
              PROVE  lastDone'[t] <= today' /\ today' <= lastDone'[t] + MaxMissed + 1
  BY DEF NightsMissed
<1>1. lastDone[t] \in Int /\ today \in Int /\ MaxMissed \in Int
  BY <1>0, ArchiveAssumption DEF TypeOK
<1>2. CASE Midnight
  BY <1>0, <1>1, <1>2 DEF Midnight, NightsMissed
<1>3. CASE UNCHANGED today
  <2>1. lastDone'[t] = lastDone[t]
        \/ \E r \in Slot : /\ pc[r] = "write" /\ lastDone[t] < day0[r]
                           /\ lastDone'[t] = day0[r]
    BY <1>0, LastDoneMoves DEF OverwriteDay, SkipDay
  <2>2. \A r \in Slot : day0[r] \in Int /\ (pc[r] = "write" => day0[r] <= today)
    BY <1>0 DEF OrderInv, RunsAreYoung, TypeOK
  <2>. QED
    BY <1>0, <1>1, <1>3, <2>1, <2>2 DEF NightsMissed
<1>4. Midnight \/ UNCHANGED today
  BY DEF Next, Ingest, Expire, Begin, LoadTable, ReadClock, FetchPartition,
         OverwriteDay, SkipDay, CommitFails, Die, vars
<1>. QED
  BY <1>2, <1>3, <1>4

LEMMA NextFinal ==
  ASSUME WindowLongEnough
  PROVE  FinalInv /\ [Next]_vars => FinalInv'
BY NextOrder, NextWindow, NextArchived, NextNights DEF FinalInv

LEMMA FinalInvSuffices ==
  ASSUME WindowLongEnough
  PROVE  FinalInv => FinalHotInLake
<1>. SUFFICES ASSUME FinalInv, NEW t \in Tables, NEW d \in Day, d + Lookback < today
              PROVE  hot[t][d] <= lake[t][d] /\ hot[t][d] \in Int /\ lake[t][d] \in Int
  BY DEF FinalHotInLake
<1>1. /\ d \in Int /\ Lag[t] \in Int /\ lastDone[t] \in Int /\ today \in Int
      /\ Lookback \in Int /\ MaxMissed \in Int
  BY ArchiveAssumption DEF FinalInv, OrderInv, TypeOK, Day
<1>2. Lag[t] + MaxMissed < Lookback /\ today <= lastDone[t] + MaxMissed + 1
  BY DEF WindowLongEnough, FinalInv, NightsMissed
<1>3. d + Lag[t] < lastDone[t]
  BY <1>1, <1>2
<1>. QED
  BY <1>3 DEF FinalInv, Archived, OrderInv, TypeOK

(* When late rows and missed nights fit into ARCHIVE_LOOKBACK_DAYS, every  *)
(* day older than the window has its final content in the lake, whatever   *)
(* runs of archive_to_iceberg overlap, die or are refused.                 *)
THEOREM NothingIsMissed ==
  ASSUME WindowLongEnough
  PROVE  Spec => []FinalHotInLake
<1>. QED
  BY InitFinal, NextFinal, FinalInvSuffices, PTL DEF Spec

-----------------------------------------------------------------------------
(* The two tiers.                                                          *)

LEMMA InitTiers == Init => Tiers!Init
<1>. SUFFICES ASSUME Init PROVE Tiers!Init
  OBVIOUS
<1>1. TypeOK /\ LakeFromHot
  BY InitOrder DEF OrderInv
<1>2. /\ hot \in [Tables -> [Day -> Nat]]
      /\ lake \in [Tables -> [Day -> Nat]]
  BY DEF Init
<1>3. \A t \in Tables, d \in Day : lake[t][d] <= hot[t][d]
  <2>. SUFFICES ASSUME NEW t \in Tables, NEW d \in Day PROVE lake[t][d] <= hot[t][d]
    OBVIOUS
  <2>1. CASE d < FirstDay
    BY <2>1 DEF Init
  <2>2. CASE ~(d < FirstDay)
    <3>1. today <= d + Retain
      BY <2>2, ArchiveAssumption DEF Init, FirstDay, Day
    <3>. QED
      BY <1>1, <3>1 DEF LakeFromHot
  <2>. QED
    BY <2>1, <2>2
<1>. QED
  BY <1>2, <1>3 DEF Tiers!Init

(* A late row comes while its day is in the hot store.                     *)
LEMMA IngestWrites ==
  ASSUME WindowLongEnough, OrderInv, NEW t \in Tables, NEW d \in Day, Ingest(t, d)
  PROVE  Tiers!Write(t, d)
<1>0. today <= d + Lag[t]
  BY DEF Ingest
<1>1. d \in Int /\ today \in Int /\ Lag[t] \in Nat
  BY ArchiveAssumption DEF OrderInv, TypeOK, Day
<1>2. Lag[t] + MaxMissed < Lookback /\ Lookback < Retain
  BY ArchiveAssumption DEF WindowLongEnough
<1>3. today <= d + Retain
  BY <1>0, <1>1, <1>2, ArchiveAssumption
<1>4. lake[t][d] <= hot[t][d]
  BY <1>3 DEF OrderInv, LakeFromHot
<1>. QED
  BY <1>4 DEF Ingest, Tiers!Write

(* A day that retention drops has left the window, with its final content. *)
LEMMA ExpireDrops ==
  ASSUME WindowLongEnough, FinalInv, NEW t \in Tables, NEW d \in Day, Expire(t, d)
  PROVE  Tiers!Drop(t, d)
<1>1. d + Lookback < today
  BY ArchiveAssumption DEF Expire, FinalInv, OrderInv, TypeOK, Day
<1>2. lake[t][d] >= hot[t][d]
  BY <1>1, FinalInvSuffices DEF FinalHotInLake
<1>3. hot[t][d] \in Int /\ lake[t][d] \in Int
  BY DEF FinalInv, OrderInv, TypeOK
<1>. QED
  BY <1>2, <1>3 DEF Expire, Tiers!Drop

LEMMA OverwriteCopies ==
  ASSUME OrderInv, NEW r \in Slot, OverwriteDay(r)
  PROVE  tab[r] \in Tables /\ DayOf(r) \in Day /\ Tiers!Copy(tab[r], DayOf(r))
<1>1. tab[r] \in Tables /\ DayOf(r) \in Day
  BY DayOfType DEF OrderInv, TypeOK
<1>2. lake[tab[r]][DayOf(r)] <= rows[r] /\ rows[r] <= hot[tab[r]][DayOf(r)]
  BY DEF OverwriteDay, OrderInv, CurrentRunsAreNewer, FetchedFromHot
<1>3. rows[r] \in lake[tab[r]][DayOf(r)]..hot[tab[r]][DayOf(r)]
  BY <1>1, <1>2 DEF OrderInv, TypeOK
<1>. QED
  BY <1>1, <1>3 DEF OverwriteDay, Tiers!Copy

LEMMA NextTiers ==
  ASSUME WindowLongEnough, FinalInv, [Next]_vars
  PROVE  [Tiers!Next]_<<hot, lake>>
<1>1. ASSUME NEW t \in Tables, NEW d \in Day, Ingest(t, d) \/ Expire(t, d)
      PROVE  Tiers!Next
  BY <1>1, IngestWrites, ExpireDrops DEF FinalInv, Tiers!Next
<1>2. ASSUME NEW r \in Slot, OverwriteDay(r)
      PROVE  Tiers!Next
  BY <1>2, OverwriteCopies DEF FinalInv, Tiers!Next
<1>3. \/ \E t \in Tables, d \in Day : Ingest(t, d) \/ Expire(t, d)
      \/ \E r \in Slot : OverwriteDay(r)
      \/ UNCHANGED <<hot, lake>>
  BY DEF Next, Midnight, Begin, LoadTable, ReadClock, FetchPartition, SkipDay,
         CommitFails, Die, vars
<1>. QED
  BY <1>1, <1>2, <1>3

(* When late rows and missed nights fit into the window, the hot store and *)
(* the lake are one store of two tiers: whatever runs overlap or die,      *)
(* retention never drops what the lake has not got (archive_to_iceberg,    *)
(* add_retention_policy).                                                  *)
THEOREM ImplementsTieredStore ==
  ASSUME WindowLongEnough
  PROVE  Spec => KeepsBothTiers
<1>. QED
  BY InitFinal, InitTiers, NextFinal, NextTiers, PTL DEF Spec, KeepsBothTiers, Tiers!Spec
=============================================================================
