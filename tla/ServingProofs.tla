--------------------------- MODULE ServingProofs ---------------------------
(***************************************************************************)
(* Proofs about Serving for any number of threads, workers, connections    *)
(* and outages.                                                            *)
(***************************************************************************)
EXTENDS Serving, ResponseCacheProofs, FiniteSetTheorems

Dead(w) == {s \in Slot : pool[w][s] = "dead"}

(* Who is in the cache is at a cached read, and who has a connection is at *)
(* a read that needs it: a request that ends holds nothing.                *)
PlanInv ==
  \A t \in Thread :
    /\ pc[t] # "idle" => plan[t] # <<>> /\ Head(plan[t]) = "cached"
    /\ holds[t] # {} => plan[t] # <<>> /\ (Head(plan[t]) = "cached" => pc[t] = "miss")

(* Only a connection from before the outage fails a request, and it is not *)
(* lent again.                                                             *)
BurnInv ==
  \A w \in Worker :
    /\ burned[w] <= Cardinality(Slot)
    /\ postgres = "up" => burned[w] + Cardinality(Dead(w)) <= Cardinality(Slot)

PoolInv == TypeOK /\ ServingTypeOK /\ PlanInv /\ BurnInv

-----------------------------------------------------------------------------
(* The steps of Serving are steps of the cache or leave it alone.          *)
LEMMA StepIsCacheStep == [ServingNext]_allVars => [Next]_vars
<1>. SUFFICES ASSUME [ServingNext]_allVars PROVE [Next]_vars
  OBVIOUS
<1>1. ASSUME NEW t \in Thread, Raises(t) PROVE [Next]_vars
  BY <1>1 DEF Raises, Next
<1>2. ASSUME NEW t \in Thread, Progress(t) PROVE [Next]_vars
  BY <1>1, <1>2
  DEF Progress, Take, Read, QueryCached, Breaks, TimesOut, CacheStep, AnswerCached, Next
<1>3. CASE UNCHANGED allVars
  BY <1>3 DEF allVars
<1>. QED
  BY <1>2, <1>3 DEF ServingNext, GoDown, ComeUp, Connect, Arrive, Next

LEMMA SlotsAreCounted == Cardinality(Slot) \in Nat
BY ServingAssumption, FS_CardinalityType

LEMMA DeadAreFew ==
  \A w \in Worker : /\ IsFiniteSet(Dead(w))
                    /\ Cardinality(Dead(w)) \in Nat
                    /\ Cardinality(Dead(w)) <= Cardinality(Slot)
<1>. SUFFICES ASSUME NEW w \in Worker
              PROVE  /\ IsFiniteSet(Dead(w)) /\ Cardinality(Dead(w)) \in Nat
                     /\ Cardinality(Dead(w)) <= Cardinality(Slot)
  OBVIOUS
<1>1. Dead(w) \subseteq Slot
  BY DEF Dead
<1>. QED
  BY <1>1, ServingAssumption, FS_Subset, FS_CardinalityType

LEMMA RouteType == \A r \in DOMAIN Route : Route[r] \in Seq(Kind)
<1>1. "region" \in Kind /\ "cached" \in Kind /\ "probe" \in Kind /\ "read" \in Kind
  BY DEF Kind
<1>2. /\ <<"cached">> \in Seq(Kind) /\ <<"read">> \in Seq(Kind)
      /\ <<"region", "cached">> \in Seq(Kind) /\ <<"region", "read">> \in Seq(Kind)
      /\ <<"probe", "probe">> \in Seq(Kind)
  BY <1>1
<1>3. /\ <<"read", "read", "read">> \in Seq(Kind)
      /\ <<"region", "read", "read">> \in Seq(Kind)
      /\ <<"read", "probe", "read">> \in Seq(Kind)
  BY <1>1
<1>4. DOMAIN Route = {"regions", "current", "landing", "region", "partial", "donut",
                      "status", "healthz"}
  BY DEF Route
<1>5. /\ Route["regions"] \in Seq(Kind) /\ Route["current"] \in Seq(Kind)
      /\ Route["donut"] \in Seq(Kind) /\ Route["partial"] \in Seq(Kind)
      /\ Route["healthz"] \in Seq(Kind)
  BY <1>2 DEF Route
<1>6. /\ Route["landing"] \in Seq(Kind) /\ Route["region"] \in Seq(Kind)
      /\ Route["status"] \in Seq(Kind)
  BY <1>3 DEF Route
<1>. QED
  BY <1>4, <1>5, <1>6

LEMMA TailType ==
  ASSUME NEW t \in Thread, plan[t] \in Seq(Kind), plan[t] # <<>>
  PROVE  Tail(plan[t]) \in Seq(Kind) /\ Head(plan[t]) \in Kind
OBVIOUS

LEMMA TailLength ==
  ASSUME NEW reads \in Seq(Kind), reads # <<>>
  PROVE  Len(Tail(reads)) = Len(reads) - 1
OBVIOUS

-----------------------------------------------------------------------------
LEMMA ServingInitInv == ServingInit => PoolInv
<1>. SUFFICES ASSUME ServingInit PROVE PoolInv
  OBVIOUS
<1>1. TypeOK
  BY InitInv DEF ServingInit, Inv
<1>2. ServingTypeOK
  BY ServingAssumption DEF ServingInit, ServingTypeOK
<1>3. PlanInv
  BY DEF ServingInit, Init, PlanInv
<1>4. BurnInv
  BY SlotsAreCounted, DeadAreFew DEF ServingInit, BurnInv
<1>. QED
  BY <1>1, <1>2, <1>3, <1>4 DEF PoolInv

LEMMA StepType ==
  ASSUME PoolInv, [ServingNext]_allVars
  PROVE  ServingTypeOK'
<1>. USE ServingAssumption
<1>0. ServingTypeOK /\ PlanInv
  BY DEF PoolInv
<1>1. CASE GoDown
  BY <1>0, <1>1 DEF GoDown, Severed, ServingTypeOK
<1>2. CASE ComeUp
  BY <1>0, <1>2 DEF ComeUp, ServingTypeOK
<1>3. CASE Tick /\ UNCHANGED servingVars
  BY <1>0, <1>3 DEF servingVars, ServingTypeOK
<1>4. ASSUME NEW w \in Worker, NEW s \in Slot, Connect(w, s) PROVE ServingTypeOK'
  BY <1>0, <1>4 DEF Connect, ServingTypeOK
<1>5. ASSUME NEW t \in Thread, NEW route \in Served, Arrive(t, route) PROVE ServingTypeOK'
  BY <1>0, <1>5, RouteType DEF Arrive, ServingTypeOK
<1>6. ASSUME NEW t \in Thread, Progress(t) PROVE ServingTypeOK'
  <2>1. WorkerOf[t] \in Worker /\ <<>> \in Seq(Kind)
    BY CacheAssumption
  <2>2. ASSUME NEW s \in Slot, Take(t, s) PROVE ServingTypeOK'
    BY <1>0, <2>2 DEF Take, ServingTypeOK
  <2>3. ASSUME NEW s \in Slot, Read(t, s) PROVE ServingTypeOK'
    <3>1. plan[t] \in Seq(Kind) /\ plan[t] # <<>>
      BY <1>0, <2>3 DEF Read, Holding, PlanInv, ServingTypeOK
    <3>2. plan' \in [Thread -> Seq(Kind)]
      BY <1>0, <2>1, <2>3, <3>1, TailType DEF Read, ServingTypeOK
    <3>. QED
      BY <1>0, <2>3, <3>2 DEF Read, Release, ServingTypeOK
  <2>4. ASSUME NEW s \in Slot, QueryCached(t, s) PROVE ServingTypeOK'
    BY <1>0, <2>4 DEF QueryCached, Release, ServingTypeOK
  <2>5. ASSUME Raises(t), plan[t] # <<>> PROVE plan' \in [Thread -> Seq(Kind)]
    BY <1>0, <2>1, <2>5, TailType DEF Raises, ServingTypeOK
  <2>6. ASSUME NEW s \in Slot, Breaks(t, s) PROVE ServingTypeOK'
    <3>1. plan' \in [Thread -> Seq(Kind)]
      BY <1>0, <2>5, <2>6 DEF Breaks, Holding, PlanInv
    <3>2. burned' \in [Worker -> Nat]
      BY <1>0, <2>1, <2>6 DEF Breaks, ServingTypeOK
    <3>3. pool' \in [Worker -> [Slot -> {"none", "live", "dead"}]]
      BY <1>0, <2>1, <2>6 DEF Breaks, ServingTypeOK
    <3>. QED
      BY <1>0, <2>6, <3>1, <3>2, <3>3 DEF Breaks, Release, ServingTypeOK
  <2>7. CASE TimesOut(t)
    BY <1>0, <2>5, <2>7 DEF TimesOut, Waits, ServingTypeOK
  <2>8. CASE CacheStep(t)
    BY <1>0, <2>8 DEF CacheStep, servingVars, ServingTypeOK
  <2>9. CASE AnswerCached(t)
    BY <1>0, <2>1, <2>9 DEF AnswerCached, ServingTypeOK
  <2>. QED
    BY <1>6, <2>2, <2>3, <2>4, <2>6, <2>7, <2>8, <2>9 DEF Progress
<1>7. CASE UNCHANGED allVars
  BY <1>0, <1>7 DEF allVars, servingVars, ServingTypeOK
<1>. QED
  BY <1>1, <1>2, <1>3, <1>4, <1>5, <1>6, <1>7 DEF ServingNext

(* A thread's own steps move nobody else. *)
LEMMA OthersStay ==
  ASSUME TypeOK, ServingTypeOK, NEW t \in Thread, Progress(t)
  PROVE  \A u \in Thread \ {t} : pc'[u] = pc[u] /\ holds'[u] = holds[u] /\ plan'[u] = plan[u]
<1>1. ASSUME Raises(t)
      PROVE  \A u \in Thread \ {t} : pc'[u] = pc[u] /\ plan'[u] = plan[u]
  BY <1>1 DEF Raises, QueryFails, Goto, TypeOK, ServingTypeOK, vars
<1>2. ASSUME NEW s \in Slot, Breaks(t, s)
      PROVE  \A u \in Thread \ {t} : pc'[u] = pc[u] /\ holds'[u] = holds[u] /\ plan'[u] = plan[u]
  BY <1>1, <1>2 DEF Breaks, Release, ServingTypeOK
<1>3. ASSUME NEW s \in Slot, Take(t, s) \/ Read(t, s)
      PROVE  \A u \in Thread \ {t} : pc'[u] = pc[u] /\ holds'[u] = holds[u] /\ plan'[u] = plan[u]
  BY <1>3 DEF Take, Read, Release, ServingTypeOK, vars
<1>4. ASSUME NEW s \in Slot, QueryCached(t, s)
      PROVE  \A u \in Thread \ {t} : pc'[u] = pc[u] /\ holds'[u] = holds[u] /\ plan'[u] = plan[u]
  BY <1>4 DEF QueryCached, Query, Goto, Release, TypeOK, ServingTypeOK
<1>5. ASSUME CacheStep(t)
      PROVE  \A u \in Thread \ {t} : pc'[u] = pc[u] /\ holds'[u] = holds[u] /\ plan'[u] = plan[u]
  BY <1>5 DEF CacheStep, Request, Lookup, Hit, HitLost, Store, Goto, servingVars, TypeOK
<1>6. ASSUME AnswerCached(t)
      PROVE  \A u \in Thread \ {t} : pc'[u] = pc[u] /\ holds'[u] = holds[u] /\ plan'[u] = plan[u]
  BY <1>6 DEF AnswerCached, Answer, AnswerError, Goto, TypeOK, ServingTypeOK
<1>7. ASSUME TimesOut(t)
      PROVE  \A u \in Thread \ {t} : pc'[u] = pc[u] /\ holds'[u] = holds[u] /\ plan'[u] = plan[u]
  BY <1>1, <1>7 DEF TimesOut
<1>. QED
  BY <1>2, <1>3, <1>4, <1>5, <1>6, <1>7 DEF Progress

LEMMA StepPlan ==
  ASSUME PoolInv, [ServingNext]_allVars
  PROVE  PlanInv'
<1>0. TypeOK /\ ServingTypeOK /\ PlanInv
  BY DEF PoolInv
<1>1. CASE UNCHANGED <<pc, holds, plan>>
  BY <1>0, <1>1 DEF PlanInv
<1>2. ASSUME NEW t \in Thread, NEW route \in Served, Arrive(t, route) PROVE PlanInv'
  <2>1. pc[t] = "idle" /\ holds[t] = {} /\ UNCHANGED <<pc, holds>>
    BY <1>0, <1>2 DEF Arrive, PlanInv, vars
  <2>2. \A u \in Thread \ {t} : plan'[u] = plan[u]
    BY <1>0, <1>2 DEF Arrive, ServingTypeOK
  <2>. QED
    BY <1>0, <2>1, <2>2 DEF PlanInv
<1>3. ASSUME NEW t \in Thread, Progress(t) PROVE PlanInv'
  <2>1. \A u \in Thread \ {t} : pc'[u] = pc[u] /\ holds'[u] = holds[u] /\ plan'[u] = plan[u]
    BY <1>0, <1>3, OthersStay
  <2>2. /\ pc'[t] # "idle" => plan'[t] # <<>> /\ Head(plan'[t]) = "cached"
        /\ holds'[t] # {} => plan'[t] # <<>> /\ (Head(plan'[t]) = "cached" => pc'[t] = "miss")
    <3>0. /\ pc[t] # "idle" => plan[t] # <<>> /\ Head(plan[t]) = "cached"
          /\ holds[t] # {} => plan[t] # <<>> /\ (Head(plan[t]) = "cached" => pc[t] = "miss")
          /\ pc[t] \in Label
      BY <1>0 DEF PlanInv, TypeOK
    <3>1. ASSUME NEW s \in Slot, Take(t, s) PROVE <2>2!1 /\ <2>2!2
      BY <1>0, <3>0, <3>1 DEF Take, Waits, vars
    <3>2. ASSUME NEW s \in Slot, Read(t, s) PROVE <2>2!1 /\ <2>2!2
      BY <1>0, <3>0, <3>2 DEF Read, Holding, Release, ServingTypeOK, vars
    <3>3. ASSUME NEW s \in Slot, QueryCached(t, s) PROVE <2>2!1 /\ <2>2!2
      BY <1>0, <3>0, <3>3 DEF QueryCached, Query, Goto, Holding, Release, TypeOK, ServingTypeOK
    <3>4. ASSUME Raises(t), holds'[t] = {} PROVE <2>2!1 /\ <2>2!2
      BY <1>0, <3>0, <3>4 DEF Raises, QueryFails, Goto, TypeOK, ServingTypeOK, vars
    <3>5. ASSUME NEW s \in Slot, Breaks(t, s) PROVE <2>2!1 /\ <2>2!2
      BY <1>0, <3>4, <3>5 DEF Breaks, Release, ServingTypeOK
    <3>6. CASE TimesOut(t)
      BY <3>4, <3>6 DEF TimesOut, Waits
    <3>7. CASE CacheStep(t)
      <4>1. UNCHANGED <<plan, holds>> /\ plan[t] # <<>> /\ Head(plan[t]) = "cached" /\ pc[t] # "miss"
        BY <3>7 DEF CacheStep, Request, Lookup, Hit, HitLost, Store, servingVars
      <4>. QED
        BY <3>0, <4>1
    <3>8. CASE AnswerCached(t)
      BY <1>0, <3>0, <3>8 DEF AnswerCached, Answer, AnswerError, Goto, TypeOK, ServingTypeOK
    <3>. QED
      BY <1>3, <3>1, <3>2, <3>3, <3>5, <3>6, <3>7, <3>8 DEF Progress
  <2>. QED
    BY <1>0, <2>1, <2>2 DEF PlanInv
<1>. QED
  BY <1>1, <1>2, <1>3
  DEF ServingNext, GoDown, ComeUp, Tick, Connect, servingVars, allVars, vars

(* A step that makes no connection dead and fails nothing.                 *)
LEMMA QuietBurn ==
  ASSUME PoolInv, UNCHANGED <<burned, postgres>>,
         \A w \in Worker : Dead(w)' = Dead(w)
  PROVE  BurnInv'
BY DEF PoolInv, BurnInv

LEMMA StepBurn ==
  ASSUME PoolInv, [ServingNext]_allVars
  PROVE  BurnInv'
<1>0. ServingTypeOK /\ BurnInv
  BY DEF PoolInv
<1>1. CASE GoDown
  BY <1>0, <1>1 DEF GoDown, BurnInv
<1>2. CASE ComeUp
  <2>1. \A w \in Worker : burned'[w] = 0 /\ Dead(w)' = Dead(w)
    BY <1>2 DEF ComeUp, Dead
  <2>. QED
    BY <2>1, SlotsAreCounted, DeadAreFew DEF BurnInv
<1>3. ASSUME NEW v \in Worker, NEW s \in Slot, Connect(v, s) PROVE BurnInv'
  <2>1. \A w \in Worker : Dead(w)' = Dead(w)
    BY <1>0, <1>3 DEF Connect, Dead, ServingTypeOK
  <2>. QED
    BY <1>3, <2>1, QuietBurn DEF Connect
<1>4. ASSUME NEW t \in Thread, NEW s \in Slot, Breaks(t, s) PROVE BurnInv'
  <2>. DEFINE v == WorkerOf[t]
  <2>1. v \in Worker /\ s \in Dead(v)
    BY <1>4, CacheAssumption DEF Breaks, Dead
  <2>2. Dead(v)' = Dead(v) \ {s} /\ \A w \in Worker \ {v} : Dead(w)' = Dead(w)
    BY <1>0, <1>4, <2>1 DEF Breaks, Dead, ServingTypeOK
  <2>3. Cardinality(Dead(v)') = Cardinality(Dead(v)) - 1
    BY <2>1, <2>2, DeadAreFew, FS_RemoveElement
  <2>4. postgres' = postgres
    BY <1>4 DEF Breaks
  <2>5. /\ \A w \in Worker \ {v} : burned'[w] = burned[w]
        /\ burned'[v] \in {burned[v], burned[v] + 1}
        /\ postgres # "up" => burned'[v] = burned[v]
    BY <1>0, <1>4, <2>1 DEF Breaks, ServingTypeOK
  <2>6. burned[v] \in Nat /\ Cardinality(Slot) \in Nat /\ Cardinality(Dead(v)) \in Nat
    BY <1>0, <2>1, SlotsAreCounted, DeadAreFew DEF ServingTypeOK
  <2>7. Cardinality(Dead(v)) - 1 \in Nat
    BY <2>1, <2>2, <2>3, DeadAreFew, FS_RemoveElement, FS_CardinalityType
  <2>8. /\ burned'[v] <= Cardinality(Slot)
        /\ postgres' = "up" => burned'[v] + Cardinality(Dead(v)') <= Cardinality(Slot)
    <3>1. /\ burned[v] <= Cardinality(Slot)
          /\ postgres = "up" => burned[v] + Cardinality(Dead(v)) <= Cardinality(Slot)
      BY <1>0, <2>1 DEF BurnInv
    <3>. HIDE DEF v
    <3>. QED
      BY <2>3, <2>4, <2>5, <2>6, <2>7, <3>1
  <2>. QED
    BY <1>0, <2>2, <2>4, <2>5, <2>8 DEF BurnInv
<1>5. CASE UNCHANGED <<pool, burned, postgres>>
  BY <1>5, QuietBurn DEF Dead
<1>6. ASSUME NEW t \in Thread, Progress(t) PROVE BurnInv'
  BY <1>4, <1>5, <1>6
  DEF Progress, Take, Read, QueryCached, TimesOut, CacheStep, AnswerCached, servingVars
<1>. QED
  BY <1>1, <1>2, <1>3, <1>5, <1>6 DEF ServingNext, Arrive, servingVars, allVars

-----------------------------------------------------------------------------
(* Whatever the routes, the pool and Postgres do, each worker's cache sees *)
(* a behaviour of ResponseCache: what is proved of it holds in the API.    *)
THEOREM ImplementsCache == ServingSpec => Spec
<1>1. ServingInit => Init
  BY DEF ServingInit
<1>. QED
  BY <1>1, StepIsCacheStep, PTL DEF ServingSpec, Spec

(* No answer of a cached route is older than the TTL and one query, also   *)
(* after failed queries and outages (cache_current, json_api.py).          *)
THEOREM AnswersStayFresh == ServingSpec => []BoundedStaleness
BY ImplementsCache, AnswersAreFresh, PTL

LEMMA ServingInductive == ServingSpec => []PoolInv
<1>1. PoolInv /\ TypeOK' /\ [ServingNext]_allVars => PoolInv'
  BY StepType, StepPlan, StepBurn DEF PoolInv
<1>. QED
  BY <1>1, ServingInitInv, ImplementsCache, TypeCorrect, PTL DEF ServingSpec

(* Every variable of the requests and of the pool keeps its type, and so   *)
(* do those of the cache (get_pool, the routes).                           *)
THEOREM ServingTypeCorrect == ServingSpec => []ServingTypeOK
<1>1. PoolInv => ServingTypeOK
  BY DEF PoolInv
<1>. QED
  BY <1>1, ServingInductive, PTL

(* After an outage the connections of before fail at most one request per  *)
(* place of a worker's pool (ConnectionPool, max_size), for any number of  *)
(* threads and outages.                                                    *)
THEOREM SelfRecovery == ServingSpec => []RecoversByItself
<1>1. PoolInv => RecoversByItself
  BY DEF PoolInv, BurnInv, RecoversByItself
<1>. QED
  BY <1>1, ServingInductive, PTL

-----------------------------------------------------------------------------
(* Connections.                                                            *)

(* A connection that goes back is nobody else's, so what becomes of its    *)
(* place in the pool disturbs nobody.                                      *)
LEMMA ReleaseIsSafe ==
  ASSUME ServingTypeOK, ConnectionsAreSafe, NEW t \in Thread, NEW s \in Slot,
         Holding(t, s), Release(t),
         \/ pool' = pool
         \/ pool' = [pool EXCEPT ![WorkerOf[t]][s] = "none"]
  PROVE  \A u \in Thread : \A x \in holds'[u] :
           /\ pool'[WorkerOf[u]][x] # "none"
           /\ \A v \in Thread \ {u} : WorkerOf[v] = WorkerOf[u] => x \notin holds'[v]
<1>. SUFFICES ASSUME NEW u \in Thread, NEW x \in holds'[u]
              PROVE  /\ pool'[WorkerOf[u]][x] # "none"
                     /\ \A v \in Thread \ {u} : WorkerOf[v] = WorkerOf[u] => x \notin holds'[v]
  OBVIOUS
<1>1. \A v \in Thread : holds'[v] = IF v = t THEN {} ELSE holds[v]
  BY DEF Release, ServingTypeOK
<1>2. u # t /\ x \in holds[u] /\ x \in Slot
  BY <1>1 DEF ServingTypeOK
<1>3. /\ pool[WorkerOf[u]][x] # "none"
      /\ \A v \in Thread \ {u} : WorkerOf[v] = WorkerOf[u] => x \notin holds[v]
  BY <1>2 DEF ConnectionsAreSafe
<1>4. ~(WorkerOf[u] = WorkerOf[t] /\ x = s)
  BY <1>2, <1>3 DEF Holding
<1>5. pool'[WorkerOf[u]][x] = pool[WorkerOf[u]][x]
  BY <1>2, <1>4, CacheAssumption DEF ServingTypeOK
<1>. QED
  BY <1>1, <1>3, <1>5

LEMMA StepSafe ==
  ASSUME PoolInv, PlanInv', ConnectionsAreSafe, [ServingNext]_allVars
  PROVE  ConnectionsAreSafe'
<1>0. ServingTypeOK
  BY DEF PoolInv
<1>. SUFFICES \A t \in Thread : \A s \in holds'[t] :
                /\ pool'[WorkerOf[t]][s] # "none"
                /\ \A u \in Thread \ {t} : WorkerOf[u] = WorkerOf[t] => s \notin holds'[u]
  BY DEF PlanInv, ConnectionsAreSafe
<1>1. CASE UNCHANGED holds /\ \A w \in Worker, s \in Slot : pool[w][s] # "none" => pool'[w][s] # "none"
  BY <1>0, <1>1, CacheAssumption DEF ConnectionsAreSafe, ServingTypeOK
<1>2. CASE GoDown
  <2>1. \A w \in Worker, s \in Slot : pool[w][s] # "none" => pool'[w][s] # "none"
    BY <1>0, <1>2 DEF GoDown, Severed, ServingTypeOK
  <2>. QED
    BY <1>1, <1>2, <2>1 DEF GoDown
<1>3. ASSUME NEW w \in Worker, NEW s \in Slot, Connect(w, s)
      PROVE  UNCHANGED holds /\ \A v \in Worker, x \in Slot : pool[v][x] # "none" => pool'[v][x] # "none"
  BY <1>0, <1>3 DEF Connect, ServingTypeOK
<1>4. ASSUME NEW t \in Thread, NEW s \in Slot, Take(t, s)
      PROVE  \A u \in Thread : \A x \in holds'[u] :
               /\ pool'[WorkerOf[u]][x] # "none"
               /\ \A v \in Thread \ {u} : WorkerOf[v] = WorkerOf[u] => x \notin holds'[v]
  <2>1. \A u \in Thread : holds'[u] = IF u = t THEN {s} ELSE holds[u]
    BY <1>0, <1>4 DEF Take, ServingTypeOK
  <2>2. pool' = pool /\ pool[WorkerOf[t]][s] # "none"
    BY <1>4 DEF Take
  <2>3. \A u \in Thread : WorkerOf[u] = WorkerOf[t] => s \notin holds[u]
    BY <1>4 DEF Take, Lent
  <2>. QED
    BY <2>1, <2>2, <2>3 DEF ConnectionsAreSafe
<1>5. ASSUME NEW t \in Thread, NEW s \in Slot, Read(t, s) \/ QueryCached(t, s) \/ Breaks(t, s)
      PROVE  \A u \in Thread : \A x \in holds'[u] :
               /\ pool'[WorkerOf[u]][x] # "none"
               /\ \A v \in Thread \ {u} : WorkerOf[v] = WorkerOf[u] => x \notin holds'[v]
  <2>1. /\ Holding(t, s) /\ Release(t)
        /\ \/ pool' = pool
           \/ pool' = [pool EXCEPT ![WorkerOf[t]][s] = "none"]
    BY <1>5 DEF Read, QueryCached, Breaks
  <2>. QED
    BY <1>0, <2>1, ReleaseIsSafe
<1>6. \/ UNCHANGED <<holds, pool>>
      \/ GoDown
      \/ \E w \in Worker, s \in Slot : Connect(w, s)
      \/ \E t \in Thread, s \in Slot :
           Take(t, s) \/ Read(t, s) \/ QueryCached(t, s) \/ Breaks(t, s)
  BY DEF ServingNext, ComeUp, Arrive, Progress, TimesOut, CacheStep, AnswerCached,
         servingVars, allVars
<1>. QED
  BY <1>1, <1>2, <1>3, <1>4, <1>5, <1>6

SafeInv == PoolInv /\ ConnectionsAreSafe

LEMMA ServingSafe == ServingSpec => []SafeInv
<1>1. ServingInit => SafeInv
  BY ServingInitInv DEF ServingInit, SafeInv, ConnectionsAreSafe
<1>2. SafeInv /\ PoolInv' /\ [ServingNext]_allVars => SafeInv'
  BY StepSafe DEF SafeInv, PoolInv
<1>. QED
  BY <1>1, <1>2, ServingInductive, PTL DEF ServingSpec

(* No connection of the pool is shared, lost or drained by requests that   *)
(* fail, for any number of threads, connections and outages (the with      *)
(* blocks around get_pool().connection() in queries.py).                   *)
THEOREM PoolIsSafe == ServingSpec => []ConnectionsAreSafe
<1>1. SafeInv => ConnectionsAreSafe
  BY DEF SafeInv
<1>. QED
  BY <1>1, ServingSafe, PTL

-----------------------------------------------------------------------------
(* A request counts down.                                                  *)

LEMMA StageBounds ==
  ASSUME NEW read, NEW label \in Label, NEW held
  PROVE  Stage(read, label, held) \in 1..6
BY DEF Stage, Label

(* Going on to the next read, or to the end, is progress from any stage.   *)
LEMMA TailIsShorter ==
  ASSUME PoolInv, TypeOK', NEW t \in Thread, plan[t] # <<>>,
         plan'[t] = Tail(plan[t]) \/ plan'[t] = <<>>
  PROVE  StepsLeft(t)' < StepsLeft(t)
<1>1. plan[t] \in Seq(Kind) /\ pc[t] \in Label /\ pc'[t] \in Label
  BY DEF PoolInv, TypeOK, ServingTypeOK
<1>2. /\ Stage(Head(plan[t]), pc[t], holds[t]) \in 1..6
      /\ Stage(Head(plan'[t]), pc'[t], holds'[t]) \in 1..6
  BY <1>1, StageBounds
<1>3. Len(plan[t]) \in Nat /\ Len(plan[t]) > 0
  BY <1>1
<1>4. CASE plan'[t] = <<>>
  BY <1>2, <1>3, <1>4 DEF StepsLeft
<1>5. CASE plan'[t] # <<>>
  <2>1. Len(plan'[t]) = Len(plan[t]) - 1
    BY <1>1, <1>5, TailLength
  <2>. QED
    BY <1>2, <1>3, <1>5, <2>1 DEF StepsLeft
<1>. QED
  BY <1>4, <1>5

(* So is a later stage of the same read.                                   *)
LEMMA StageIsLater ==
  ASSUME PoolInv, TypeOK', NEW t \in Thread, plan[t] # <<>>, plan'[t] = plan[t],
         Stage(Head(plan[t]), pc'[t], holds'[t]) < Stage(Head(plan[t]), pc[t], holds[t])
  PROVE  StepsLeft(t)' < StepsLeft(t)
<1>1. plan[t] \in Seq(Kind) /\ pc[t] \in Label /\ pc'[t] \in Label
  BY DEF PoolInv, TypeOK, ServingTypeOK
<1>2. /\ Stage(Head(plan[t]), pc[t], holds[t]) \in 1..6
      /\ Stage(Head(plan[t]), pc'[t], holds'[t]) \in 1..6
      /\ Len(plan[t]) \in Nat
  BY <1>1, StageBounds
<1>. QED
  BY <1>2 DEF StepsLeft

LEMMA RaisingAdvances ==
  ASSUME PoolInv, TypeOK', NEW t \in Thread, plan[t] # <<>>, Raises(t)
  PROVE  StepsLeft(t)' < StepsLeft(t)
<1>0. plan[t] \in Seq(Kind) /\ plan \in [Thread -> Seq(Kind)] /\ pc \in [Thread -> Label]
  BY DEF PoolInv, TypeOK, ServingTypeOK
<1>1. CASE Head(plan[t]) \in {"region", "read"} /\ plan' = [plan EXCEPT ![t] = <<>>]
  BY <1>0, <1>1, TailIsShorter
<1>2. CASE Head(plan[t]) = "probe" /\ plan' = [plan EXCEPT ![t] = Tail(@)]
  BY <1>0, <1>2, TailIsShorter
<1>3. CASE Head(plan[t]) = "cached" /\ plan' = plan /\ QueryFails(t)
  <2>1. pc[t] = "miss" /\ pc'[t] = "failed"
    BY <1>0, <1>3 DEF QueryFails, Goto
  <2>2. Stage("cached", "failed", holds'[t]) < Stage("cached", "miss", holds[t])
    BY DEF Stage
  <2>. QED
    BY <1>3, <2>1, <2>2, StageIsLater
<1>. QED
  BY <1>1, <1>2, <1>3 DEF Raises

(* Every step of a request's own.                                          *)
LEMMA ProgressAdvances ==
  ASSUME PoolInv, TypeOK', NEW t \in Thread, Progress(t)
  PROVE  StepsLeft(t)' < StepsLeft(t)
<1>0. /\ TypeOK /\ ServingTypeOK /\ PlanInv
      /\ plan[t] \in Seq(Kind) /\ plan \in [Thread -> Seq(Kind)]
      /\ pc \in [Thread -> Label] /\ holds \in [Thread -> SUBSET Slot]
  BY DEF PoolInv, TypeOK, ServingTypeOK
<1>1. ASSUME NEW s \in Slot, Take(t, s) PROVE StepsLeft(t)' < StepsLeft(t)
  <2>1. /\ plan[t] # <<>> /\ plan'[t] = plan[t] /\ pc'[t] = pc[t]
        /\ holds[t] = {} /\ holds'[t] = {s}
        /\ Head(plan[t]) = "cached" => pc[t] = "miss"
    BY <1>0, <1>1 DEF Take, Waits, vars
  <2>2. {s} # {}
    OBVIOUS
  <2>3. Stage(Head(plan[t]), pc[t], {s}) < Stage(Head(plan[t]), pc[t], {})
    BY <2>1, <2>2 DEF Stage
  <2>. QED
    BY <2>1, <2>3, StageIsLater
<1>2. ASSUME NEW s \in Slot, Read(t, s) PROVE StepsLeft(t)' < StepsLeft(t)
  <2>1. plan[t] # <<>>
    BY <1>0, <1>2 DEF Read, Holding, PlanInv
  <2>2. plan'[t] = Tail(plan[t]) \/ plan'[t] = <<>>
    BY <1>0, <1>2 DEF Read
  <2>. QED
    BY <2>1, <2>2, TailIsShorter
<1>3. ASSUME NEW s \in Slot, QueryCached(t, s) PROVE StepsLeft(t)' < StepsLeft(t)
  <2>1. /\ plan[t] # <<>> /\ plan'[t] = plan[t] /\ Head(plan[t]) = "cached"
        /\ pc[t] = "miss" /\ pc'[t] = "store"
    BY <1>0, <1>3 DEF QueryCached, Query, Goto, Holding, PlanInv
  <2>2. Stage("cached", "store", holds'[t]) < Stage("cached", "miss", holds[t])
    BY DEF Stage
  <2>. QED
    BY <2>1, <2>2, StageIsLater
<1>4. ASSUME NEW s \in Slot, Breaks(t, s) PROVE StepsLeft(t)' < StepsLeft(t)
  <2>1. plan[t] # <<>> /\ Raises(t)
    BY <1>0, <1>4 DEF Breaks, Holding, PlanInv
  <2>. QED
    BY <2>1, RaisingAdvances
<1>5. CASE TimesOut(t)
  BY <1>5, RaisingAdvances DEF TimesOut, Waits
<1>6. CASE CacheStep(t)
  <2>1. plan[t] # <<>> /\ Head(plan[t]) = "cached" /\ plan'[t] = plan[t]
    BY <1>6 DEF CacheStep, servingVars
  <2>2. \/ pc[t] = "idle" /\ pc'[t] = "lookup"
        \/ pc[t] = "lookup" /\ pc'[t] \in {"hit", "miss"}
        \/ pc[t] = "hit" /\ pc'[t] \in {"answer", "error"}
        \/ pc[t] = "store" /\ pc'[t] = "answer"
    BY <1>0, <1>6 DEF CacheStep, Request, Lookup, Hit, HitLost, Store, Goto
  <2>3. Stage("cached", pc'[t], holds'[t]) < Stage("cached", pc[t], holds[t])
    BY <2>2 DEF Stage
  <2>. QED
    BY <2>1, <2>3, StageIsLater
<1>7. CASE AnswerCached(t)
  <2>1. pc[t] # "idle" /\ plan'[t] = <<>>
    BY <1>0, <1>7 DEF AnswerCached, Answer, AnswerError
  <2>2. plan[t] # <<>>
    BY <1>0, <2>1 DEF PlanInv
  <2>. QED
    BY <2>1, <2>2, TailIsShorter
<1>. QED
  BY <1>1, <1>2, <1>3, <1>4, <1>5, <1>6, <1>7 DEF Progress

LEMMA StepAdvances ==
  ASSUME PoolInv, TypeOK', [ServingNext]_allVars, NEW t \in Thread, plan[t] # <<>>
  PROVE  \/ StepsLeft(t)' < StepsLeft(t)
         \/ plan'[t] = plan[t] /\ pc'[t] = pc[t] /\ holds'[t] = holds[t]
<1>0. TypeOK /\ ServingTypeOK
  BY DEF PoolInv
<1>1. ASSUME NEW u \in Thread, Progress(u), u # t
      PROVE  plan'[t] = plan[t] /\ pc'[t] = pc[t] /\ holds'[t] = holds[t]
  BY <1>0, <1>1, OthersStay
<1>2. ASSUME NEW u \in Thread, NEW route \in Served, Arrive(u, route)
      PROVE  plan'[t] = plan[t] /\ pc'[t] = pc[t] /\ holds'[t] = holds[t]
  BY <1>0, <1>2 DEF Arrive, ServingTypeOK, vars
<1>3. \/ \E u \in Thread : Progress(u) \/ \E route \in Served : Arrive(u, route)
      \/ UNCHANGED <<plan, pc, holds>>
  BY DEF ServingNext, GoDown, ComeUp, Tick, Connect, servingVars, allVars, vars
<1>. QED
  BY <1>1, <1>2, <1>3, ProgressAdvances

(* Whatever fails and whoever else is served, each step of a request is    *)
(* one less to its end: no route of json_api.py, html.py or main.py takes  *)
(* more than 24 (three reads), or tries anything again.                    *)
THEOREM RequestsCountDown == ServingSpec => RequestsAdvance
<1>1. PoolInv /\ TypeOK' /\ [ServingNext]_allVars
        => \A t \in Thread : plan[t] # <<>> =>
             \/ StepsLeft(t)' < StepsLeft(t)
             \/ plan'[t] = plan[t] /\ pc'[t] = pc[t] /\ holds'[t] = holds[t]
  BY StepAdvances
<1>. QED
  BY <1>1, ServingInductive, ImplementsCache, TypeCorrect, PTL DEF ServingSpec, RequestsAdvance

-----------------------------------------------------------------------------
(* ... and can always go on.  Who holds no connection takes one that is    *)
(* free, or is ended by the pool's timeout, or looks into the cache; who   *)
(* holds one has a read to make, which answers or breaks.                  *)

CanRead(t, s) ==
  /\ Holding(t, s)
  /\ pool[WorkerOf[t]][s] \in {"live", "dead"}
  /\ Head(plan[t]) = "cached" => pc[t] = "miss"

InCache(t) == Head(plan[t]) = "cached" /\ pc[t] # "miss" /\ Key # {}

NoRequestIsStuck ==
  \A t \in Thread : plan[t] # <<>> =>
    \/ Waits(t)
    \/ \E s \in Slot : CanRead(t, s)
    \/ holds[t] = {} /\ InCache(t)

(* A request never depends on another one to go on: no thread holds a      *)
(* connection while it waits for a second one, and none is left with one   *)
(* that is gone, so forty threads cannot starve each other of five         *)
(* connections (get_pool, one with block per read in queries.py).          *)
THEOREM RequestsGoOn == ServingSpec => []NoRequestIsStuck
<1>1. SafeInv => NoRequestIsStuck
  <2>. SUFFICES ASSUME SafeInv, NEW t \in Thread, plan[t] # <<>>
                PROVE  \/ Waits(t)
                       \/ \E s \in Slot : CanRead(t, s)
                       \/ holds[t] = {} /\ InCache(t)
    BY DEF NoRequestIsStuck
  <2>1. CASE holds[t] = {}
    BY <2>1 DEF Waits, InCache, SafeInv, PoolInv, TypeOK
  <2>2. CASE holds[t] # {}
    <3>1. PICK s \in holds[t] : TRUE
      BY <2>2
    <3>2. s \in Slot /\ pool[WorkerOf[t]][s] \in {"none", "live", "dead"}
      BY <3>1, CacheAssumption DEF SafeInv, PoolInv, ServingTypeOK
    <3>3. pool[WorkerOf[t]][s] # "none"
      BY <3>1 DEF SafeInv, ConnectionsAreSafe
    <3>4. Head(plan[t]) = "cached" => pc[t] = "miss"
      BY <2>2 DEF SafeInv, PoolInv, PlanInv
    <3>. QED
      BY <3>1, <3>2, <3>3, <3>4 DEF CanRead, Holding
  <2>. QED
    BY <2>1, <2>2
<1>. QED
  BY <1>1, ServingSafe, PTL
=============================================================================
