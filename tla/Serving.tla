------------------------------ MODULE Serving ------------------------------
(***************************************************************************)
(* Serving a request (gridpulse/api/): the routes of json_api.py, html.py  *)
(* and main.py, the reads of queries.py they make one after the other, the *)
(* connection pool of the worker process (storage/postgres.py) that every  *)
(* read borrows a connection of, and the response cache in front of some   *)
(* of them (ResponseCache, whose steps are taken whole).                   *)
(*                                                                         *)
(* Postgres goes down and comes back.  A connection that was open then is  *)
(* dead, and the pool does not look before it lends it: the first request  *)
(* to use it fails, and the pool opens another one in its place.           *)
(***************************************************************************)
EXTENDS ResponseCache, Sequences

CONSTANTS
  Slot,       \* places for connections in a worker's pool (max_size)
  Served,     \* the routes that are requested
  MaxOutages  \* bound on outages of Postgres

(* What a route reads: the region it was asked for, a cached function's    *)
(* result (always the last), db_ok's probe, anything else.                 *)
Kind == {"region", "cached", "probe", "read"}

Route ==
  [regions |-> <<"cached">>,
   current |-> <<"region", "cached">>,
   landing |-> <<"read", "read", "read">>,
   region  |-> <<"region", "read", "read">>,
   partial |-> <<"region", "read">>,
   donut   |-> <<"read">>,
   status  |-> <<"read", "probe", "read">>,
   healthz |-> <<"probe", "probe">>]

ASSUME ServingAssumption ==
  /\ IsFiniteSet(Slot)
  /\ Served \subseteq DOMAIN Route
  /\ MaxOutages \in Nat

VARIABLES
  postgres,  \* "up" or "down"
  outages,   \* outages so far
  pool,      \* [worker -> [slot -> its connection]]
  holds,     \* [thread -> the slots whose connection it has borrowed]
  plan,      \* [thread -> the reads it has yet to make]
  burned     \* [worker -> requests failed by a dead connection since it came up]

servingVars == <<postgres, outages, pool, holds, plan, burned>>

ServingTypeOK ==
  /\ postgres \in {"up", "down"}
  /\ outages \in 0..MaxOutages
  /\ pool \in [Worker -> [Slot -> {"none", "live", "dead"}]]
  /\ holds \in [Thread -> SUBSET Slot]
  /\ plan \in [Thread -> Seq(Kind)]
  /\ burned \in [Worker -> Nat]

ServingInit ==
  /\ Init
  /\ postgres = "up"
  /\ outages = 0
  /\ pool = [w \in Worker |-> [s \in Slot |-> "none"]]
  /\ holds = [t \in Thread |-> {}]
  /\ plan = [t \in Thread |-> <<>>]
  /\ burned = [w \in Worker |-> 0]

-----------------------------------------------------------------------------
(* Postgres.                                                               *)

Severed(w) == [s \in Slot |-> IF pool[w][s] = "live" THEN "dead" ELSE pool[w][s]]

(* Mutant of GoDown: no bound.                                             *)
GoDownForever ==
  /\ postgres = "up"
  /\ postgres' = "down"
  /\ outages' = outages + 1
  /\ pool' = [w \in Worker |-> Severed(w)]
  /\ UNCHANGED <<vars, holds, plan, burned>>

GoDown ==
  /\ postgres = "up"
  /\ outages < MaxOutages
  /\ postgres' = "down"
  /\ outages' = outages + 1
  /\ pool' = [w \in Worker |-> Severed(w)]
  /\ UNCHANGED <<vars, holds, plan, burned>>

ComeUp ==
  /\ postgres = "down"
  /\ postgres' = "up"
  /\ burned' = [w \in Worker |-> 0]
  /\ UNCHANGED <<vars, outages, pool, holds, plan>>

-----------------------------------------------------------------------------
(* The pool.                                                               *)

Lent(w, s) == \E t \in Thread : WorkerOf[t] = w /\ s \in holds[t]

(* The pool's own thread fills an empty place. *)
Connect(w, s) ==
  /\ postgres = "up"
  /\ pool[w][s] = "none"
  /\ pool' = [pool EXCEPT ![w][s] = "live"]
  /\ UNCHANGED <<vars, postgres, outages, holds, plan, burned>>

(* A read, or a cached function that is not in the cache. *)
Waits(t) ==
  /\ plan[t] # <<>>
  /\ Head(plan[t]) = "cached" => pc[t] = "miss"
  /\ holds[t] = {}

(* with get_pool().connection() as conn *)
Take(t, s) ==
  /\ Waits(t)
  /\ pool[WorkerOf[t]][s] # "none"
  /\ ~Lent(WorkerOf[t], s)
  /\ holds' = [holds EXCEPT ![t] = {s}]
  /\ UNCHANGED <<vars, postgres, outages, pool, plan, burned>>

-----------------------------------------------------------------------------
(* The routes.                                                             *)

Arrive(t, route) ==
  /\ plan[t] = <<>>
  /\ plan' = [plan EXCEPT ![t] = Route[route]]
  /\ UNCHANGED <<vars, postgres, outages, pool, holds, burned>>

Holding(t, s) == s \in holds[t]

(* Mutant of Release: getconn without putconn.                             *)
ReleaseForgotten(t) == holds' = holds

Release(t) == holds' = [holds EXCEPT ![t] = {}]

(* A read on a live connection.  If there is no such region, if it has no  *)
(* price or if the window is not valid, the request ends with 400 or 404.  *)
Read(t, s) ==
  /\ Holding(t, s)
  /\ pool[WorkerOf[t]][s] = "live"
  /\ Head(plan[t]) # "cached"
  /\ \/ plan' = [plan EXCEPT ![t] = Tail(@)]
     \/ Head(plan[t]) = "region" /\ plan' = [plan EXCEPT ![t] = <<>>]
  /\ Release(t)
  /\ UNCHANGED <<vars, postgres, outages, pool, burned>>

QueryCached(t, s) ==
  /\ Holding(t, s)
  /\ pool[WorkerOf[t]][s] = "live"
  /\ Head(plan[t]) = "cached"
  /\ Query(t)
  /\ Release(t)
  /\ UNCHANGED <<postgres, outages, pool, plan, burned>>

(* Mutant of Raises: db_ok tries again until Postgres answers.             *)
RaisesRetried(t) ==
  \/ /\ Head(plan[t]) \in {"region", "read"}
     /\ plan' = [plan EXCEPT ![t] = <<>>]
     /\ UNCHANGED vars
  \/ /\ Head(plan[t]) = "cached"
     /\ plan' = plan
     /\ QueryFails(t)
  \/ /\ Head(plan[t]) = "probe"
     /\ UNCHANGED <<vars, plan>>

(* The read raises: the request fails, unless it was db_ok's, which only   *)
(* returns False.                                                          *)
Raises(t) ==
  \/ /\ Head(plan[t]) \in {"region", "read"}
     /\ plan' = [plan EXCEPT ![t] = <<>>]
     /\ UNCHANGED vars
  \/ /\ Head(plan[t]) = "cached"
     /\ plan' = plan
     /\ QueryFails(t)
  \/ /\ Head(plan[t]) = "probe"
     /\ plan' = [plan EXCEPT ![t] = Tail(@)]
     /\ UNCHANGED vars

(* Mutant of Breaks: the connection is kept, as a handle that is opened    *)
(* once per process and shared would be.                                   *)
BreaksReturned(t, s) ==
  LET w == WorkerOf[t] IN
  /\ Holding(t, s)
  /\ pool[w][s] = "dead"
  /\ Raises(t)
  /\ Release(t)
  /\ burned' = IF postgres = "up" /\ Head(plan[t]) # "probe"
               THEN [burned EXCEPT ![w] = @ + 1] ELSE burned
  /\ UNCHANGED <<postgres, outages, pool>>

(* ... on a dead connection, which the pool throws away at the end of the  *)
(* with block,                                                             *)
Breaks(t, s) ==
  LET w == WorkerOf[t] IN
  /\ Holding(t, s)
  /\ pool[w][s] = "dead"
  /\ Raises(t)
  /\ Release(t)
  /\ pool' = [pool EXCEPT ![w][s] = "none"]
  /\ burned' = IF postgres = "up" /\ Head(plan[t]) # "probe"
               THEN [burned EXCEPT ![w] = @ + 1] ELSE burned
  /\ UNCHANGED <<postgres, outages>>

(* ... or for want of one: PoolTimeout, after 30 seconds. *)
TimesOut(t) ==
  /\ Waits(t)
  /\ \A s \in Slot : pool[WorkerOf[t]][s] = "none" \/ Lent(WorkerOf[t], s)
  /\ Raises(t)
  /\ UNCHANGED <<postgres, outages, pool, holds, burned>>

(* The steps of the cache that need no connection. *)
CacheStep(t) ==
  /\ plan[t] # <<>>
  /\ Head(plan[t]) = "cached"
  /\ (\E k \in Key : Request(t, k)) \/ Lookup(t) \/ Hit(t) \/ HitLost(t) \/ Store(t)
  /\ UNCHANGED servingVars

(* The answer of the cached function, 404 without data, or the 500 page. *)
AnswerCached(t) ==
  /\ Answer(t) \/ AnswerError(t)
  /\ plan' = [plan EXCEPT ![t] = <<>>]
  /\ UNCHANGED <<postgres, outages, pool, holds, burned>>

-----------------------------------------------------------------------------
Progress(t) ==
  \/ \E s \in Slot : Take(t, s) \/ Read(t, s) \/ QueryCached(t, s) \/ Breaks(t, s)
  \/ TimesOut(t) \/ CacheStep(t) \/ AnswerCached(t)

ServingNext ==
  \/ GoDown \/ ComeUp
  \/ Tick /\ UNCHANGED servingVars
  \/ \E w \in Worker, s \in Slot : Connect(w, s)
  \/ \E t \in Thread : Progress(t) \/ \E route \in Served : Arrive(t, route)

allVars == <<vars, servingVars>>

ServingSpec == ServingInit /\ [][ServingNext]_allVars

(* Threads go on: the wait for a connection has a timeout, and a read is    *)
(* short, or its connection breaks.                                        *)
FairServing == ServingSpec /\ \A t \in Thread : WF_allVars(Progress(t))

-----------------------------------------------------------------------------
(* Properties.                                                             *)

(* After a restart of Postgres ("Restart" is all that the failure model    *)
(* asks for) connections from before it fail at most one request for each  *)
(* place in the pool of a worker; no worker has to be restarted.           *)
RecoversByItself == \A w \in Worker : burned[w] <= Cardinality(Slot)

(* No two threads use one connection, nobody is left with one that the     *)
(* pool has thrown away, and a request that has ended, also with an error, *)
(* has given its connection back: outages and errors never drain the pool. *)
ConnectionsAreSafe ==
  \A t \in Thread :
    /\ plan[t] = <<>> => holds[t] = {}
    /\ \A s \in holds[t] :
         /\ pool[WorkerOf[t]][s] # "none"
         /\ \A u \in Thread \ {t} : WorkerOf[u] = WorkerOf[t] => s \notin holds[u]

(* At most how many steps a request still takes, whose next read is given, *)
(* the label of its thread and what it holds: six and less for each read.  *)
Stage(read, label, held) ==
  IF read # "cached" THEN IF held = {} THEN 2 ELSE 1
  ELSE [idle |-> 6, lookup |-> 5, hit |-> 4, miss |-> IF held = {} THEN 4 ELSE 3,
        store |-> 2, answer |-> 1, error |-> 1, failed |-> 1][label]

StepsLeft(t) ==
  IF plan[t] = <<>> THEN 0
  ELSE 6 * Len(plan[t]) + Stage(Head(plan[t]), pc[t], holds[t])

(* A request counts down to its end: nothing in it is tried again, and     *)
(* nobody else's step, an outage included, sets it back.                   *)
RequestsAdvance ==
  [][\A t \in Thread : plan[t] # <<>> =>
       \/ StepsLeft(t)' < StepsLeft(t)
       \/ plan'[t] = plan[t] /\ pc'[t] = pc[t] /\ holds'[t] = holds[t]]_allVars

(* Every request ends, through outages and however few connections the     *)
(* threads share: with an answer, an error page or, for db_ok, a False.    *)
RequestsEnd == \A t \in Thread : plan[t] # <<>> ~> plan[t] = <<>>
=============================================================================
