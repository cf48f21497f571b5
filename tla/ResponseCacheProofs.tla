------------------------ MODULE ResponseCacheProofs ------------------------
(***************************************************************************)
(* Proofs about ResponseCache for every number of threads, processes and   *)
(* keys, every size and TTL, and every bound on queries and time.          *)
(***************************************************************************)
EXTENDS ResponseCache, TLAPS

USE DEF Label

(* A computed result is stored before it is too old.                       *)
FreshStore == \A t \in Thread : pc[t] = "store" => now <= got[t] + MaxQuery

(* An entry dies TTL after it was stored, however often it is read.        *)
EntriesExpire ==
  \A w \in Worker : \A k \in keys[w] : expires[w][k] <= value[w][k] + MaxQuery + TTL

Inv == TypeOK /\ FreshStore /\ EntriesExpire /\ BoundedStaleness

LEMMA NoResultType == NoResult \in Time
BY CacheAssumption DEF NoResult, Time

LEMMA InitInv == Init => Inv
BY CacheAssumption, NoResultType
   DEF Init, Inv, TypeOK, FreshStore, EntriesExpire, BoundedStaleness, Time

LEMMA GotoType ==
  ASSUME TypeOK, NEW t \in Thread,
         NEW label \in Label,
         Goto(t, label)
  PROVE  /\ pc' \in [Thread -> Label]
         /\ pc'[t] = label
         /\ \A u \in Thread \ {t} : pc'[u] = pc[u]
BY DEF TypeOK, Goto

LEMMA GotType ==
  ASSUME TypeOK, NEW t \in Thread, NEW r \in Time, got' = [got EXCEPT ![t] = r]
  PROVE  /\ got' \in [Thread -> Time]
         /\ got'[t] = r
         /\ \A u \in Thread \ {t} : got'[u] = got[u]
BY DEF TypeOK

(* What Store does to the cache of the thread's own process.               *)
LEMMA StoreEffect ==
  ASSUME TypeOK, NEW t \in Thread, Store(t)
  PROVE  /\ keys' \in [Worker -> SUBSET Key]
         /\ value' \in [Worker -> [Key -> Time]]
         /\ expires' \in [Worker -> [Key -> 0..(MaxTime + TTL)]]
         /\ value'[WorkerOf[t]][ask[t]] = got[t]
         /\ expires'[WorkerOf[t]][ask[t]] = now + TTL
         /\ \A w \in Worker : \A k \in keys'[w] :
              (w = WorkerOf[t] /\ k = ask[t]) \/ (k \in keys[w]
                /\ value'[w][k] = value[w][k] /\ expires'[w][k] = expires[w][k])
<1>. DEFINE w == WorkerOf[t]
            k == ask[t]
<1>1. w \in Worker /\ k \in Key /\ got[t] \in Time /\ now + TTL \in 0..(MaxTime + TTL)
  BY CacheAssumption DEF TypeOK, Time
<1>2. PICK room \in SUBSET keys[w] : keys' = [keys EXCEPT ![w] = room \cup {k}]
  BY DEF Store
<1>3. value' = [value EXCEPT ![w][k] = got[t]] /\ expires' = [expires EXCEPT ![w][k] = now + TTL]
  BY DEF Store
<1>. HIDE DEF w, k
<1>4. keys' \in [Worker -> SUBSET Key] /\ keys'[w] = room \cup {k}
      /\ \A v \in Worker \ {w} : keys'[v] = keys[v]
  BY <1>1, <1>2 DEF TypeOK
<1>5. [value[w] EXCEPT ![k] = got[t]] \in [Key -> Time]
  BY <1>1 DEF TypeOK
<1>6. value' \in [Worker -> [Key -> Time]]
  BY <1>1, <1>3, <1>5 DEF TypeOK
<1>7. [expires[w] EXCEPT ![k] = now + TTL] \in [Key -> 0..(MaxTime + TTL)]
  BY <1>1 DEF TypeOK
<1>8. expires' \in [Worker -> [Key -> 0..(MaxTime + TTL)]]
  BY <1>1, <1>3, <1>7 DEF TypeOK
<1>9. value'[w][k] = got[t] /\ expires'[w][k] = now + TTL
  BY <1>1, <1>3 DEF TypeOK
<1>10. \A v \in Worker, j \in Key : (v # w \/ j # k) =>
         value'[v][j] = value[v][j] /\ expires'[v][j] = expires[v][j]
  BY <1>1, <1>3 DEF TypeOK
<1>11. \A v \in Worker : \A j \in keys'[v] :
         (v = w /\ j = k) \/ (j \in keys[v] /\ j \in Key)
  BY <1>2, <1>4 DEF TypeOK
<1>. QED
  BY <1>4, <1>6, <1>8, <1>9, <1>10, <1>11 DEF w, k

LEMMA NextInv == Inv /\ [Next]_vars => Inv'
<1>. SUFFICES ASSUME Inv, [Next]_vars PROVE Inv'
  OBVIOUS
<1>0. TypeOK /\ FreshStore /\ EntriesExpire /\ BoundedStaleness
  BY DEF Inv
<1>1. /\ now \in Nat /\ MaxQuery \in Nat /\ TTL \in Nat
      /\ \A t \in Thread : got[t] \in Time /\ got[t] \in Nat
  BY <1>0, CacheAssumption DEF TypeOK, Time
<1>2. CASE Tick
  <2>1. TypeOK'
    BY <1>0, <1>2, CacheAssumption DEF Tick, TypeOK, Time, cacheVars
  <2>2. FreshStore'
    BY <1>0, <1>1, <1>2 DEF Tick, FreshStore
  <2>3. EntriesExpire' /\ BoundedStaleness'
    BY <1>0, <1>2 DEF Tick, EntriesExpire, BoundedStaleness, cacheVars
  <2>. QED
    BY <2>1, <2>2, <2>3 DEF Inv
<1>3. ASSUME NEW t \in Thread,
             NEW label \in {"idle", "lookup", "hit", "miss", "error", "failed"}, Goto(t, label),
             UNCHANGED <<now, cacheVars>>, ask' \in [Thread -> Key],
             got' = got \/ got' = [got EXCEPT ![t] = NoResult]
      PROVE  Inv'
  <2>1. got' \in [Thread -> Time] /\ \A u \in Thread \ {t} : got'[u] = got[u]
    BY <1>0, <1>3, GotType, NoResultType DEF TypeOK
  <2>2. /\ pc' \in [Thread -> Label]
        /\ pc'[t] = label
        /\ \A u \in Thread \ {t} : pc'[u] = pc[u]
    BY <1>0, <1>3, GotoType
  <2>3. TypeOK'
    BY <1>0, <1>3, <2>1, <2>2 DEF TypeOK, cacheVars
  <2>4. FreshStore' /\ BoundedStaleness'
    BY <1>0, <1>3, <2>1, <2>2 DEF FreshStore, BoundedStaleness
  <2>5. EntriesExpire'
    BY <1>0, <1>3 DEF EntriesExpire, cacheVars
  <2>. QED
    BY <2>3, <2>4, <2>5 DEF Inv
<1>4. ASSUME NEW t \in Thread, NEW k \in Key, Request(t, k) PROVE Inv'
  BY <1>0, <1>3, <1>4 DEF Request, TypeOK
<1>5. ASSUME NEW t \in Thread, Lookup(t) PROVE Inv'
  BY <1>0, <1>3, <1>5 DEF Lookup, TypeOK
<1>6. ASSUME NEW t \in Thread, Hit(t) PROVE Inv'
  <2>. DEFINE r == value[WorkerOf[t]][ask[t]]
  <2>1. /\ WorkerOf[t] \in Worker /\ ask[t] \in keys[WorkerOf[t]] /\ ask[t] \in Key
        /\ now < expires[WorkerOf[t]][ask[t]]
    BY <1>0, <1>6, CacheAssumption DEF Hit, Live, TypeOK
  <2>2. r \in Time /\ expires[WorkerOf[t]][ask[t]] \in Nat
    BY <1>0, <2>1, CacheAssumption DEF TypeOK
  <2>3. expires[WorkerOf[t]][ask[t]] <= r + MaxQuery + TTL
    BY <1>0, <2>1 DEF EntriesExpire
  <2>4. now <= r + MaxQuery + TTL
    <3>1. r \in Nat
      BY <2>2 DEF Time
    <3>. HIDE DEF r
    <3>. QED
      BY <1>1, <2>1, <2>2, <2>3, <3>1
  <2>5. Goto(t, "answer") /\ got' = [got EXCEPT ![t] = r] /\ UNCHANGED <<now, cacheVars, ask>>
    BY <1>6 DEF Hit
  <2>. HIDE DEF r
  <2>6. /\ got' \in [Thread -> Time] /\ got'[t] = r
        /\ \A u \in Thread \ {t} : got'[u] = got[u]
    BY <1>0, <2>2, <2>5, GotType
  <2>7. /\ pc' \in [Thread -> Label]
        /\ pc'[t] = "answer"
        /\ \A u \in Thread \ {t} : pc'[u] = pc[u]
    BY <1>0, <2>5, GotoType
  <2>8. TypeOK'
    BY <1>0, <2>5, <2>6, <2>7 DEF TypeOK, cacheVars
  <2>9. FreshStore' /\ BoundedStaleness'
    BY <1>0, <2>4, <2>5, <2>6, <2>7 DEF FreshStore, BoundedStaleness
  <2>10. EntriesExpire'
    BY <1>0, <2>5 DEF EntriesExpire, cacheVars
  <2>. QED
    BY <2>8, <2>9, <2>10 DEF Inv
<1>7. ASSUME NEW t \in Thread, HitLost(t) PROVE Inv'
  BY <1>0, <1>3, <1>7 DEF HitLost, TypeOK
<1>8. ASSUME NEW t \in Thread, Query(t) PROVE Inv'
  <2>. DEFINE r == now
  <2>1. r \in Time /\ r = now
    BY <1>0 DEF TypeOK
  <2>2. Goto(t, "store") /\ got' = [got EXCEPT ![t] = r] /\ UNCHANGED <<now, cacheVars, ask>>
    BY <1>8 DEF Query
  <2>. HIDE DEF r
  <2>3. /\ got' \in [Thread -> Time] /\ got'[t] = r
        /\ \A u \in Thread \ {t} : got'[u] = got[u]
    BY <1>0, <2>1, <2>2, GotType
  <2>4. /\ pc' \in [Thread -> Label]
        /\ pc'[t] = "store"
        /\ \A u \in Thread \ {t} : pc'[u] = pc[u]
    BY <1>0, <2>2, GotoType
  <2>5. TypeOK'
    BY <1>0, <2>2, <2>3, <2>4 DEF TypeOK, cacheVars
  <2>6. FreshStore' /\ BoundedStaleness'
    BY <1>0, <1>1, <2>1, <2>2, <2>3, <2>4 DEF FreshStore, BoundedStaleness
  <2>7. EntriesExpire'
    BY <1>0, <2>2 DEF EntriesExpire, cacheVars
  <2>. QED
    BY <2>5, <2>6, <2>7 DEF Inv
<1>9. ASSUME NEW t \in Thread, Store(t) PROVE Inv'
  <2>1. /\ pc[t] = "store" /\ Goto(t, "answer") /\ UNCHANGED <<now, ask, got>>
    BY <1>9 DEF Store
  <2>2. /\ pc' \in [Thread -> Label]
        /\ pc'[t] = "answer"
        /\ \A u \in Thread \ {t} : pc'[u] = pc[u]
    BY <1>0, <2>1, GotoType
  <2>3. now <= got[t] + MaxQuery /\ now + TTL <= got[t] + MaxQuery + TTL
        /\ now <= got[t] + MaxQuery + TTL
    <3>1. now <= got[t] + MaxQuery
      BY <1>0, <2>1 DEF FreshStore
    <3>. QED
      BY <1>1, <3>1
  <2>4. TypeOK'
    BY <1>0, <1>9, <2>1, <2>2, StoreEffect DEF TypeOK
  <2>5. FreshStore' /\ BoundedStaleness'
    BY <1>0, <2>1, <2>2, <2>3 DEF FreshStore, BoundedStaleness
  <2>6. EntriesExpire'
    <3>. SUFFICES ASSUME NEW w \in Worker, NEW k \in keys'[w]
                  PROVE  expires'[w][k] <= value'[w][k] + MaxQuery + TTL
      BY DEF EntriesExpire
    <3>1. CASE w = WorkerOf[t] /\ k = ask[t]
      BY <1>0, <1>9, <2>3, <3>1, StoreEffect
    <3>2. CASE ~(w = WorkerOf[t] /\ k = ask[t])
      <4>1. k \in keys[w] /\ value'[w][k] = value[w][k] /\ expires'[w][k] = expires[w][k]
        BY <1>0, <1>9, <3>2, StoreEffect
      <4>. QED
        BY <1>0, <4>1 DEF EntriesExpire
    <3>. QED
      BY <3>1, <3>2
  <2>. QED
    BY <2>4, <2>5, <2>6 DEF Inv
<1>10. ASSUME NEW t \in Thread, Answer(t) PROVE Inv'
  BY <1>0, <1>3, <1>10 DEF Answer, TypeOK
<1>11. ASSUME NEW t \in Thread, AnswerError(t) PROVE Inv'
  BY <1>0, <1>3, <1>11 DEF AnswerError, TypeOK
<1>12. ASSUME NEW t \in Thread, QueryFails(t) PROVE Inv'
  BY <1>0, <1>3, <1>12 DEF QueryFails, TypeOK
<1>13. CASE UNCHANGED vars
  BY <1>0, <1>13
  DEF vars, cacheVars, Inv, TypeOK, FreshStore, EntriesExpire, BoundedStaleness
<1>. QED
  BY <1>2, <1>4, <1>5, <1>6, <1>7, <1>8, <1>9, <1>10, <1>11, <1>12, <1>13 DEF Next

(* Every variable of the cache keeps its type under any interleaving of    *)
(* threads (cache_current, cache_range).                                   *)
THEOREM TypeCorrect == Spec => []TypeOK
<1>1. Inv => TypeOK
  BY DEF Inv
<1>. QED
  BY <1>1, InitInv, NextInv, PTL DEF Spec

(* The wrapper takes no lock and yet no answer is older than the TTL and   *)
(* one query: races can lose an entry or store an older one, but never     *)
(* prolong one.                                                            *)
THEOREM AnswersAreFresh == Spec => []BoundedStaleness
<1>1. Inv => BoundedStaleness
  BY DEF Inv
<1>. QED
  BY <1>1, InitInv, NextInv, PTL DEF Spec
=============================================================================
