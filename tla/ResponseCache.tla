--------------------------- MODULE ResponseCache ---------------------------
(***************************************************************************)
(* The in-process TTL cache of the JSON API (gridpulse/api/cache.py):      *)
(* cache_current and cache_range, which differ in size and TTL only.       *)
(*                                                                         *)
(* FastAPI runs the synchronous endpoints in a pool of threads, uvicorn    *)
(* starts several worker processes, and each process has a cache of its    *)
(* own.  The wrapper takes no lock: between its check, its read and its    *)
(* store other threads run and time passes.  Each single operation of the  *)
(* cache is taken as atomic.                                               *)
(*                                                                         *)
(* A request is abstracted to the key it is cached under, a result to the  *)
(* time at which its query read the tables.                                *)
(***************************************************************************)
EXTENDS Naturals, FiniteSets

CONSTANTS
  Thread,      \* request threads
  Worker,      \* uvicorn worker processes
  WorkerOf,    \* [Thread -> Worker]
  Key,         \* (function, arguments) pairs that are requested
  MaxSize,     \* entries a cache holds
  TTL,         \* seconds an entry lives
  MaxQuery,    \* bound on the seconds from a query's snapshot to the store
  MaxTime      \* bound on the clock

ASSUME CacheAssumption ==
  /\ WorkerOf \in [Thread -> Worker]
  /\ MaxSize \in Nat \ {0}
  /\ TTL \in Nat \ {0}
  /\ MaxQuery \in Nat
  /\ MaxTime \in Nat

Time == 0..MaxTime

Label == {"idle", "lookup", "hit", "miss", "store", "answer", "error", "failed"}

NoResult == 0

VARIABLES
  now,      \* the monotonic clock
  keys,     \* [worker -> keys in its cache, expired ones included]
  value,    \* [worker -> [key -> result]]
  expires,  \* [worker -> [key -> time at which the entry expires]]
  pc,       \* control state of each thread
  ask,      \* the key of the request it serves
  got       \* the result it has read or computed

cacheVars == <<keys, value, expires>>
vars == <<now, cacheVars, pc, ask, got>>

TypeOK ==
  /\ now \in Time
  /\ keys \in [Worker -> SUBSET Key]
  /\ value \in [Worker -> [Key -> Time]]
  /\ expires \in [Worker -> [Key -> 0..(MaxTime + TTL)]]
  /\ pc \in [Thread -> Label]
  /\ ask \in [Thread -> Key]
  /\ got \in [Thread -> Time]

Init ==
  /\ now = 0
  /\ keys = [w \in Worker |-> {}]
  /\ value = [w \in Worker |-> [k \in Key |-> NoResult]]
  /\ expires = [w \in Worker |-> [k \in Key |-> 0]]
  /\ pc = [t \in Thread |-> "idle"]
  /\ ask \in [Thread -> Key]
  /\ got = [t \in Thread |-> NoResult]

-----------------------------------------------------------------------------
(* Time.  Assumed: Postgres answers and the thread stores the answer       *)
(* within MaxQuery; answers go out at once.                                *)

Tick ==
  /\ now < MaxTime
  /\ \A t \in Thread : pc[t] = "store" => now < got[t] + MaxQuery
  /\ \A t \in Thread : pc[t] # "answer"
  /\ now' = now + 1
  /\ UNCHANGED <<cacheVars, pc, ask, got>>

-----------------------------------------------------------------------------
(* The wrapper.                                                            *)

Live(w, k) == k \in keys[w] /\ now < expires[w][k]

Goto(t, label) == pc' = [pc EXCEPT ![t] = label]

Request(t, k) ==
  /\ pc[t] = "idle"
  /\ Goto(t, "lookup")
  /\ ask' = [ask EXCEPT ![t] = k]
  /\ UNCHANGED <<now, cacheVars, got>>

(* if key in _CURRENT_CACHE ... *)
Lookup(t) ==
  /\ pc[t] = "lookup"
  /\ Goto(t, IF Live(WorkerOf[t], ask[t]) THEN "hit" ELSE "miss")
  /\ UNCHANGED <<now, cacheVars, ask, got>>

(* Mutant of Hit: reading an entry renews it.                              *)
HitRenews(t) ==
  LET w == WorkerOf[t] IN
  /\ pc[t] = "hit"
  /\ Live(w, ask[t])
  /\ Goto(t, "answer")
  /\ got' = [got EXCEPT ![t] = value[w][ask[t]]]
  /\ expires' = [expires EXCEPT ![w][ask[t]] = now + TTL]
  /\ UNCHANGED <<now, keys, value, ask>>

(* ... return _CURRENT_CACHE[key] *)
Hit(t) ==
  LET w == WorkerOf[t] IN
  /\ pc[t] = "hit"
  /\ Live(w, ask[t])
  /\ Goto(t, "answer")
  /\ got' = [got EXCEPT ![t] = value[w][ask[t]]]
  /\ UNCHANGED <<now, cacheVars, ask>>

(* The entry has expired or was evicted since the check: KeyError. *)
HitLost(t) ==
  /\ pc[t] = "hit"
  /\ ~Live(WorkerOf[t], ask[t])
  /\ Goto(t, "error")
  /\ UNCHANGED <<now, cacheVars, ask, got>>

(* result = func(...): the query reads its tables at one moment. *)
Query(t) ==
  /\ pc[t] = "miss"
  /\ Goto(t, "store")
  /\ got' = [got EXCEPT ![t] = now]
  /\ UNCHANGED <<now, cacheVars, ask>>

(* The query raises: the pool or Postgres gives up. *)
QueryFails(t) ==
  /\ pc[t] = "miss"
  /\ Goto(t, "failed")
  /\ UNCHANGED <<now, cacheVars, ask, got>>

(* Mutant of Store: the new entry lives as long as the one it replaces and *)
(* a TTL more.                                                             *)
StoreAddsUp(t) ==
  LET w == WorkerOf[t] IN
  /\ pc[t] = "store"
  /\ keys' = [keys EXCEPT ![w] = {ask[t]}]
  /\ value' = [value EXCEPT ![w][ask[t]] = got[t]]
  /\ expires' = [expires EXCEPT ![w][ask[t]] = now + TTL + @]
  /\ Goto(t, "answer")
  /\ UNCHANGED <<now, ask, got>>

(* _CURRENT_CACHE[key] = result: expired entries go, and when the cache is *)
(* full another entry goes; which one is the library's business.           *)
Store(t) ==
  LET w == WorkerOf[t]
      k == ask[t]
      kept == {j \in keys[w] \ {k} : now < expires[w][j]}
  IN
  /\ pc[t] = "store"
  /\ \E room \in SUBSET kept :
       /\ Cardinality(room) < MaxSize
       /\ Cardinality(kept) < MaxSize => room = kept
       /\ keys' = [keys EXCEPT ![w] = room \cup {k}]
  /\ value' = [value EXCEPT ![w][k] = got[t]]
  /\ expires' = [expires EXCEPT ![w][k] = now + TTL]
  /\ Goto(t, "answer")
  /\ UNCHANGED <<now, ask, got>>

Answer(t) ==
  /\ pc[t] = "answer"
  /\ Goto(t, "idle")
  /\ got' = [got EXCEPT ![t] = NoResult]
  /\ UNCHANGED <<now, cacheVars, ask>>

(* The 500 page. *)
AnswerError(t) ==
  /\ pc[t] \in {"error", "failed"}
  /\ Goto(t, "idle")
  /\ UNCHANGED <<now, cacheVars, ask, got>>

Next ==
  \/ Tick
  \/ \E t \in Thread :
       \/ \E k \in Key : Request(t, k)
       \/ Lookup(t) \/ Hit(t) \/ HitLost(t) \/ Query(t) \/ QueryFails(t)
       \/ Store(t) \/ Answer(t) \/ AnswerError(t)

Spec == Init /\ [][Next]_vars

-----------------------------------------------------------------------------
(* Properties.                                                             *)

(* No answer is older than the TTL and the time one query takes: a hit     *)
(* never extends an entry's life, and no race brings an expired one back.  *)
BoundedStaleness ==
  \A t \in Thread : pc[t] = "answer" => now <= got[t] + MaxQuery + TTL

(* "Hot-cache misses still hit Postgres directly": a request is never lost *)
(* to the cache.                                                           *)
MissesHitPostgres == \A t \in Thread : pc[t] # "error"
=============================================================================
