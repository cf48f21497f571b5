------------------------------ MODULE Pipeline ------------------------------
(***************************************************************************)
(* From the public APIs to what the API serves: which half-hours of each   *)
(* feed reach raw.* (dagster_defs/assets.py and the clients in ingestion/) *)
(* and which of these reach the marts (dagster_defs/dbt_assets.py and      *)
(* dbt/models/).                                                           *)
(*                                                                         *)
(* Every run of an ingest asset asks for the newest half-hours only:       *)
(*   carbon  the current half-hour (GET /intensity, GET /regional),        *)
(*   mix     the newest 96 rows NESO has published,                        *)
(*   price   the newest 96 rates Octopus has published, a day at a time    *)
(*           and a day ahead.                                              *)
(* So a half-hour that is missed comes back only while it is in the        *)
(* window.  Runs of a feed overlap, end in any order and fail; a run that  *)
(* ends well stores its whole answer at once (Ingest implements HotStore). *)
(* Retention drops what is old from raw.*, and with the next dbt build     *)
(* from the marts.  Builds overlap too: each reads for a mart when its     *)
(* statement begins and replaces the mart later, by what it has read.      *)
(*                                                                         *)
(* A row is abstracted to its half-hour, its values to nothing.  Regions   *)
(* come in one answer or one transaction and are not told apart.           *)
(***************************************************************************)
EXTENDS Integers, FiniteSets

CONSTANTS
  Window,     \* [feed -> half-hours in one answer]
  Lead,       \* [feed -> half-hours the source may be ahead of the clock]
  Step,       \* [feed -> how many half-hours it may publish at a time]
  Outage,     \* [feed -> most half-hours published that are not stored yet]
  Retain,     \* half-hours that retention keeps in raw.*
  Outlook,    \* half-hours that mart_best_slots_24h looks ahead
  Mart,       \* models that dbt materialises as tables
  Build,      \* dbt builds that may run at the same time
  MaxRuns,    \* [feed -> bound on its answers that are not stored yet]
  MaxPeriod   \* bound on half-hours

Feed == {"carbon", "mix", "price"}
Period == 1..MaxPeriod

ASSUME PipelineAssumption ==
  /\ Window \in [Feed -> Nat \ {0}]
  /\ Lead \in [Feed -> Nat]
  /\ Step \in [Feed -> SUBSET (Nat \ {0})]
  /\ Outage \in [Feed -> Nat]
  /\ Retain \in Nat
  /\ Outlook \in Nat
  /\ Mart \subseteq {"half_hourly", "best_slots_24h", "generation_mix_long"}
  /\ "best_slots_24h" \in Mart => "half_hourly" \in Mart
  /\ MaxRuns \in [Feed -> Nat]
  /\ MaxPeriod \in Nat

VARIABLES
  now,        \* the current half-hour
  published,  \* [feed -> newest half-hour at the source]
  answers,    \* [feed -> newest half-hours of answers not stored yet]
  raw,        \* [feed -> half-hours in its raw.* table]
  horizon,    \* [feed -> newest half-hour that retention has dropped]
  mart,       \* [mart -> half-hours in it]
  todo,       \* [build -> models it has yet to build]
  busy,       \* [build -> those of them whose statement has begun]
  draft,      \* [build -> [mart -> what the statement has read]]
  begun       \* [build -> raw.* as it was when the build began]

feedVars == <<now, published, answers, raw, horizon>>
buildVars == <<mart, todo, busy, draft, begun>>
vars == <<feedVars, buildVars>>

TypeOK ==
  /\ now \in 0..MaxPeriod
  /\ published \in [Feed -> 0..MaxPeriod]
  /\ answers \in [Feed -> SUBSET (0..MaxPeriod)]
  /\ raw \in [Feed -> SUBSET Period]
  /\ horizon \in [Feed -> 0..MaxPeriod]
  /\ mart \in [Mart -> SUBSET Period]
  /\ todo \in [Build -> SUBSET Mart]
  /\ busy \in [Build -> SUBSET Mart]
  /\ draft \in [Build -> [Mart -> SUBSET Period]]
  /\ begun \in [Build -> [Feed -> SUBSET Period]]

NoRows == [f \in Feed |-> {}]

Init ==
  /\ now = 0
  /\ published = [f \in Feed |-> 0]
  /\ answers = [f \in Feed |-> {}]
  /\ raw = NoRows
  /\ horizon = [f \in Feed |-> 0]
  /\ mart = [m \in Mart |-> {}]
  /\ todo = [b \in Build |-> {}]
  /\ busy = [b \in Build |-> {}]
  /\ draft = [b \in Build |-> [m \in Mart |-> {}]]
  /\ begun = [b \in Build |-> NoRows]

-----------------------------------------------------------------------------
(* The sources.  Assumed: operations keeps the outages of a feed within    *)
(* its Outage, so the source is never further ahead of raw.* than that.    *)

WithinOutage(f, p) == \E q \in raw[f] \cup {horizon[f]} : p <= q + Outage[f]

(* The carbon API answers for the half-hour it is. *)
Tick ==
  /\ now < MaxPeriod
  /\ WithinOutage("carbon", now + 1)
  /\ now' = now + 1
  /\ published' = [published EXCEPT !["carbon"] = now + 1]
  /\ UNCHANGED <<answers, raw, horizon, buildVars>>

Publish(f, n) ==
  /\ f # "carbon"
  /\ published[f] + n <= MaxPeriod
  /\ published[f] + n <= now + Lead[f]
  /\ WithinOutage(f, published[f] + n)
  /\ published' = [published EXCEPT ![f] = @ + n]
  /\ UNCHANGED <<now, answers, raw, horizon, buildVars>>

-----------------------------------------------------------------------------
(* The ingest assets.                                                      *)

(* Mutant of Answer: a limit one too small.                                *)
AnswerShort(f, h) == {p \in Period : h - Window[f] + 1 < p /\ p <= h}

(* Mutant of Answer: ascending instead of "sort": "DATETIME desc".         *)
AnswerOldest(f, h) == {p \in Period : p <= Window[f] /\ p <= h}

(* Mutant of Answer: the half-hour before the first one is made up.        *)
AnswerFromZero(f, h) == {p \in 0..MaxPeriod : h - Window[f] < p /\ p <= h}

(* The rows of an answer given when h was the newest half-hour. *)
Answer(f, h) == {p \in Period : h - Window[f] < p /\ p <= h}

(* A run of the asset has its answer, validated and turned into rows ... *)
Fetch(f) ==
  /\ Cardinality(answers[f]) < MaxRuns[f]
  /\ answers' = [answers EXCEPT ![f] = @ \cup {published[f]}]
  /\ UNCHANGED <<now, published, raw, horizon, buildVars>>

(* Mutant of Store: the table is replaced instead of upserted.             *)
StoreReplaces(f, h) ==
  /\ h \in answers[f]
  /\ answers' = [answers EXCEPT ![f] = @ \ {h}]
  /\ raw' = [raw EXCEPT ![f] = Answer(f, h)]
  /\ UNCHANGED <<now, published, horizon, buildVars>>

(* ... and upserts them, after any run that was faster; no rows, no upsert. *)
Store(f, h) ==
  /\ h \in answers[f]
  /\ answers' = [answers EXCEPT ![f] = @ \ {h}]
  /\ raw' = [raw EXCEPT ![f] = @ \cup Answer(f, h)]
  /\ UNCHANGED <<now, published, horizon, buildVars>>

(* The run fails or is killed. *)
Lose(f, h) ==
  /\ h \in answers[f]
  /\ answers' = [answers EXCEPT ![f] = @ \ {h}]
  /\ UNCHANGED <<now, published, raw, horizon, buildVars>>

(* add_retention_policy drops the chunks that are over.  Assumed: it keeps *)
(* more than any run lasts or any source is late by, so what it drops is   *)
(* in no answer that is still to be stored.                                *)
Expire(f, n) ==
  /\ horizon[f] < n
  /\ n + Retain <= now
  /\ \A h \in answers[f] \cup {published[f]} : n + Window[f] <= h
  /\ raw' = [raw EXCEPT ![f] = {p \in @ : n < p}]
  /\ horizon' = [horizon EXCEPT ![f] = n]
  /\ UNCHANGED <<now, published, answers, buildVars>>

-----------------------------------------------------------------------------
(* dbt build: staging models are views, so a mart reads raw.* or another   *)
(* mart.  A model is one transaction of several statements: CREATE TABLE   *)
(* AS reads as of its own beginning and fills a table of a temporary name, *)
(* which then takes the place of the mart.  Up to four models of a build   *)
(* (threads) and any number of builds are at it at a time; two that fill a *)
(* table of one name wait for each other, after they have read.            *)

Needs(m) == IF m = "best_slots_24h" THEN {"half_hourly"} ELSE {}

Upcoming(rows) == {p \in rows : now < p /\ p <= now + Outlook}

(* Mutant of Query: an incremental model that keeps the last window only.  *)
QueryNewest(m) ==
  CASE m = "half_hourly" -> raw["carbon"]
    [] m = "best_slots_24h" -> Upcoming(mart["half_hourly"])
    [] m = "generation_mix_long" -> raw["mix"] \cap Answer("mix", published["mix"])

(* Carbon LEFT JOIN price on the half-hour; the half-hourly rows that      *)
(* start at or after now(), which is within half-hour `now`; the mix.      *)
Query(m) ==
  CASE m = "half_hourly" -> raw["carbon"]
    [] m = "best_slots_24h" -> Upcoming(mart["half_hourly"])
    [] m = "generation_mix_long" -> raw["mix"]

StartBuild(b) ==
  /\ todo[b] = {}
  /\ todo' = [todo EXCEPT ![b] = Mart]
  /\ begun' = [begun EXCEPT ![b] = raw]
  /\ UNCHANGED <<feedVars, mart, busy, draft>>

ReadModel(b, m) ==
  /\ m \in todo[b] \ busy[b]
  /\ Needs(m) \cap todo[b] = {}
  /\ busy' = [busy EXCEPT ![b] = @ \cup {m}]
  /\ draft' = [draft EXCEPT ![b][m] = Query(m)]
  /\ UNCHANGED <<feedVars, mart, todo, begun>>

(* The build is done with these models; the temporary tables are gone.     *)
DoneWith(b, models) ==
  /\ todo' = [todo EXCEPT ![b] = @ \ models]
  /\ busy' = [busy EXCEPT ![b] = @ \ models]
  /\ draft' = [draft EXCEPT ![b] = [m \in Mart |-> IF m \in models THEN {} ELSE @[m]]]
  /\ begun' = [begun EXCEPT ![b] = IF todo[b] \subseteq models THEN NoRows ELSE @]

ReplaceMart(b, m) ==
  /\ m \in busy[b]
  /\ mart' = [mart EXCEPT ![m] = draft[b][m]]
  /\ DoneWith(b, {m})
  /\ UNCHANGED feedVars

(* A model or one of its tests fails: what needs it is skipped. *)
ModelFails(b, m) ==
  /\ m \in todo[b]
  /\ Needs(m) \cap todo[b] = {}
  /\ DoneWith(b, {n \in Mart : n = m \/ m \in Needs(n)})
  /\ UNCHANGED <<feedVars, mart>>

(* dbt is killed, or fails before the first model. *)
BuildDies(b) ==
  /\ todo[b] # {}
  /\ DoneWith(b, Mart)
  /\ UNCHANGED <<feedVars, mart>>

Next ==
  \/ Tick
  \/ \E f \in Feed :
       \/ \E n \in Step[f] : Publish(f, n)
       \/ Fetch(f)
       \/ \E h \in 0..MaxPeriod : Store(f, h) \/ Lose(f, h)
       \/ \E n \in Period : Expire(f, n)
  \/ \E b \in Build :
       \/ StartBuild(b) \/ BuildDies(b)
       \/ \E m \in Mart : ReadModel(b, m) \/ ReplaceMart(b, m) \/ ModelFails(b, m)

Spec == Init /\ [][Next]_vars

(* Fair to the mix alone, so that what the others do cannot matter: its    *)
(* runs end (RunsEnd of Ingest), the schedule starts                       *)
(* new ones whatever became of the last, builds start and end likewise,    *)
(* and neither NESO nor the model of the mix fails for ever.               *)
FairSpec ==
  /\ Spec
  /\ WF_vars(Fetch("mix"))
  /\ WF_vars(\E h \in 0..MaxPeriod : Store("mix", h) \/ Lose("mix", h))
  /\ SF_vars(Store("mix", published["mix"]))
  /\ \A b \in Build :
       /\ WF_vars(\/ StartBuild(b)
                  \/ \E m \in Mart : ReadModel(b, m) \/ ReplaceMart(b, m) \/ ModelFails(b, m))
       /\ SF_vars(ReadModel(b, "generation_mix_long"))
       /\ SF_vars(ReplaceMart(b, "generation_mix_long"))

-----------------------------------------------------------------------------
(* Properties.                                                             *)

(* A feed whose outages fit into its window gets everything back: what is  *)
(* in raw.* has no hole down to where retention has dropped it, however    *)
(* its runs overlap, are late or fail ("a missed run still backfills       *)
(* cleanly via the upsert").                                               *)
Recovers(f) == Outage[f] <= Window[f]

NoGaps ==
  \A f \in Feed : Recovers(f) => \A p \in raw[f] : (horizon[f] + 1)..p \subseteq raw[f]

(* At any moment one run that ends well repairs the table, whatever all    *)
(* the others did: what is missing of such a feed is in the next answer    *)
(* (the limit and period_from that assets.py asks for).                    *)
OneRunCatchesUp ==
  \A f \in Feed : Recovers(f) =>
    (horizon[f] + 1)..published[f] \subseteq raw[f] \cup Answer(f, published[f])

(* The half-hours of f that were in raw.* when each of the builds in       *)
(* progress began, and that retention has not dropped since.               *)
Settled(f) ==
  {p \in raw[f] : \A b \in Build : todo[b] # {} => p \in begun[b][f]}

FeedOf == [half_hourly |-> "carbon", generation_mix_long |-> "mix"]

(* A half-hour that /carbon-intensity or /generation-mix has served stays  *)
(* until retention drops it, however builds overlap, die or fail half way, *)
(* except one stored since a build began that is still in progress: that   *)
(* build may have read before, and replace the mart after a faster one     *)
(* (dbt_build, which nothing keeps from running twice).                    *)
SettledStaysServed ==
  [][\A m \in Mart \cap DOMAIN FeedOf : mart[m] \cap Settled(FeedOf[m]) \subseteq mart'[m]]_vars

(* Through lost answers, overlapping runs and builds, failing models and   *)
(* retention, the mix that is served is NESO's without a hole and goes     *)
(* back no further than SettledStaysServed says (generation_mix,           *)
(* mart_generation_mix_long).                                              *)
MixMart == INSTANCE Follower
  WITH source <- published["mix"], settled <- Settled("mix"),
       copy <- mart["generation_mix_long"]

MixMartFollows == MixMart!Spec

(* Every half-hour of the mix is served in the end, though runs and builds *)
(* in between may fail, unless retention is faster: no manual backfill is  *)
(* ever needed.                                                            *)
EverythingServed ==
  \A p \in Period :
    p <= published["mix"] ~> p \in mart["generation_mix_long"] \/ p <= horizon["mix"]

(* mart_best_slots_24h "ranks the upcoming 24 hours per region by both     *)
(* price and carbon intensity": with carbon up to the current half-hour    *)
(* and prices beyond it, a build finds something to rank.                  *)
RanksUpcoming ==
  [][\A b \in Build :
       (/\ ReadModel(b, "best_slots_24h")
        /\ now \in mart["half_hourly"]
        /\ Upcoming(raw["price"]) # {})
       => draft'[b]["best_slots_24h"] # {}]_vars
=============================================================================
