--------------------------- MODULE PipelineProofs ---------------------------
(***************************************************************************)
(* Proofs about Pipeline for every window, outage, number of half-hours,   *)
(* overlapping run and build.                                              *)
(***************************************************************************)
EXTENDS Pipeline, TLAPS

(* No answer holds a half-hour that its source has not published.          *)
AnswersArePast ==
  /\ published["carbon"] = now
  /\ \A f \in Feed : \A h \in answers[f] : h <= published[f]

(* What retention has dropped is out of the table and of every answer.     *)
DroppedForGood ==
  \A f \in Feed :
    /\ \A p \in raw[f] : horizon[f] < p
    /\ horizon[f] > 0 =>
         \A h \in answers[f] \cup {published[f]} : horizon[f] + Window[f] <= h

(* A feed that recovers has in raw.* every half-hour from where retention  *)
(* has dropped it up to some k, which its source is no further ahead of    *)
(* than an outage.                                                         *)
Holds(f, k) ==
  /\ raw[f] = (horizon[f] + 1)..k
  /\ horizon[f] <= k
  /\ k <= published[f]
  /\ published[f] <= k + Outage[f]

NoHoles == \A f \in Feed : Recovers(f) => \E k \in 0..MaxPeriod : Holds(f, k)

(* What was there when a build began is there or was dropped, and what     *)
(* the build has read of it has all that is there still.                   *)
ReadsAreSettled ==
  \A b \in Build :
    /\ busy[b] \subseteq todo[b]
    /\ \A f \in Feed : \A p \in begun[b][f] : p \in raw[f] \/ p <= horizon[f]
    /\ \A m \in busy[b] \cap DOMAIN FeedOf :
         begun[b][FeedOf[m]] \cap raw[FeedOf[m]] \subseteq draft[b][m]

(* Nobody has ever read a mix with a hole.                                 *)
Whole(S) == S \subseteq 1..published["mix"] /\ \A p, q \in S : p..q \subseteq S

ReadsAreWhole ==
  Recovers("mix") => \A b \in Build :
    /\ Whole(begun[b]["mix"])
    /\ "generation_mix_long" \in Mart => Whole(draft[b]["generation_mix_long"])

Inv ==
  /\ TypeOK /\ AnswersArePast /\ DroppedForGood /\ NoHoles
  /\ ReadsAreSettled /\ ReadsAreWhole

-----------------------------------------------------------------------------
LEMMA InitInv == Init => Inv
<1>. SUFFICES ASSUME Init PROVE Inv
  OBVIOUS
<1>. USE PipelineAssumption DEF Init, NoRows
<1>1. TypeOK
  <2>1. now \in 0..MaxPeriod /\ 0 \in 0..MaxPeriod
    OBVIOUS
  <2>2. raw \in [Feed -> SUBSET Period] /\ begun \in [Build -> [Feed -> SUBSET Period]]
    OBVIOUS
  <2>3. mart \in [Mart -> SUBSET Period] /\ draft \in [Build -> [Mart -> SUBSET Period]]
    OBVIOUS
  <2>. QED
    BY <2>1, <2>2, <2>3 DEF TypeOK
<1>2. AnswersArePast
  BY DEF AnswersArePast, Feed
<1>3. NoHoles
  <2>. SUFFICES ASSUME NEW f \in Feed PROVE Holds(f, 0)
    BY DEF NoHoles
  <2>1. Outage[f] \in Nat /\ 1..0 = {}
    OBVIOUS
  <2>. QED
    BY <2>1 DEF Holds
<1>4. DroppedForGood
  BY DEF DroppedForGood
<1>5. ReadsAreSettled /\ ReadsAreWhole
  BY DEF ReadsAreSettled, ReadsAreWhole, Whole, Feed
<1>. QED
  BY <1>1, <1>2, <1>3, <1>4, <1>5 DEF Inv

(* The step splits as the schedules do: the clock and the sources, the     *)
(* runs, retention, and the builds.                                        *)
SourceStep == Tick \/ \E f \in Feed : \E n \in Step[f] : Publish(f, n)

RunStep ==
  \E f \in Feed : Fetch(f) \/ \E h \in 0..MaxPeriod : Store(f, h) \/ Lose(f, h)

RetentionStep == \E f \in Feed, n \in Period : Expire(f, n)

BuildStep ==
  \E b \in Build :
    \/ StartBuild(b) \/ BuildDies(b)
    \/ \E m \in Mart : ReadModel(b, m) \/ ReplaceMart(b, m) \/ ModelFails(b, m)

LEMMA NextSplits == Next <=> SourceStep \/ RunStep \/ RetentionStep \/ BuildStep
BY DEF Next, SourceStep, RunStep, RetentionStep, BuildStep

LEMMA SourceType == TypeOK /\ SourceStep => TypeOK'
<1>. SUFFICES ASSUME TypeOK, SourceStep PROVE TypeOK'
  OBVIOUS
<1>. USE PipelineAssumption DEF TypeOK, buildVars
<1>1. CASE Tick
  <2>1. now + 1 \in 0..MaxPeriod
    BY <1>1 DEF Tick
  <2>2. published' \in [Feed -> 0..MaxPeriod]
    BY <1>1, <2>1 DEF Tick
  <2>. QED
    BY <1>1, <2>1, <2>2 DEF Tick
<1>2. ASSUME NEW f \in Feed, NEW n \in Step[f], Publish(f, n) PROVE TypeOK'
  <2>1. n \in Nat /\ published[f] \in Nat
    OBVIOUS
  <2>2. published[f] + n \in 0..MaxPeriod
    BY <1>2, <2>1 DEF Publish
  <2>. QED
    BY <1>2, <2>2 DEF Publish
<1>. QED
  BY <1>1, <1>2 DEF SourceStep

LEMMA RunType == TypeOK /\ RunStep => TypeOK'
<1>. SUFFICES ASSUME TypeOK, NEW f \in Feed,
                     Fetch(f) \/ \E h \in 0..MaxPeriod : Store(f, h) \/ Lose(f, h)
              PROVE  TypeOK'
  BY DEF RunStep
<1>. USE PipelineAssumption DEF TypeOK, buildVars
<1>1. CASE Fetch(f)
  BY <1>1 DEF Fetch
<1>2. ASSUME NEW h \in 0..MaxPeriod, Store(f, h) PROVE TypeOK'
  <2>1. raw[f] \cup Answer(f, h) \subseteq Period
    BY DEF Answer
  <2>. QED
    BY <1>2, <2>1 DEF Store
<1>3. ASSUME NEW h \in 0..MaxPeriod, Lose(f, h) PROVE TypeOK'
  BY <1>3 DEF Lose
<1>. QED
  BY <1>1, <1>2, <1>3

LEMMA RetentionType == TypeOK /\ RetentionStep => TypeOK'
<1>. SUFFICES ASSUME TypeOK, NEW f \in Feed, NEW n \in Period, Expire(f, n) PROVE TypeOK'
  BY DEF RetentionStep
<1>1. n \in 0..MaxPeriod
  BY PipelineAssumption DEF Period
<1>2. {p \in raw[f] : n < p} \subseteq Period
  BY DEF TypeOK
<1>. QED
  BY <1>1, <1>2 DEF Expire, buildVars, TypeOK

LEMMA DoneWithType ==
  ASSUME TypeOK, NEW b \in Build, NEW models, DoneWith(b, models)
  PROVE  /\ todo' \in [Build -> SUBSET Mart]
         /\ busy' \in [Build -> SUBSET Mart]
         /\ draft' \in [Build -> [Mart -> SUBSET Period]]
         /\ begun' \in [Build -> [Feed -> SUBSET Period]]
<1>. USE DEF DoneWith, TypeOK
<1>1. todo' \in [Build -> SUBSET Mart] /\ busy' \in [Build -> SUBSET Mart]
  OBVIOUS
<1>2. draft' \in [Build -> [Mart -> SUBSET Period]]
  <2>1. [m \in Mart |-> IF m \in models THEN {} ELSE draft[b][m]] \in [Mart -> SUBSET Period]
    OBVIOUS
  <2>. QED
    BY <2>1
<1>3. begun' \in [Build -> [Feed -> SUBSET Period]]
  <2>1. NoRows \in [Feed -> SUBSET Period]
    BY DEF NoRows
  <2>. QED
    BY <2>1
<1>. QED
  BY <1>1, <1>2, <1>3

LEMMA BuildType == TypeOK /\ BuildStep => TypeOK'
<1>. SUFFICES ASSUME TypeOK, NEW b \in Build,
                     \/ StartBuild(b) \/ BuildDies(b)
                     \/ \E m \in Mart : ReadModel(b, m) \/ ReplaceMart(b, m) \/ ModelFails(b, m)
              PROVE  TypeOK'
  BY DEF BuildStep
<1>. USE DEF feedVars
<1>1. CASE StartBuild(b)
  BY <1>1 DEF StartBuild, TypeOK
<1>2. CASE BuildDies(b)
  BY <1>2, DoneWithType DEF BuildDies, TypeOK
<1>3. ASSUME NEW m \in Mart, ReadModel(b, m) PROVE TypeOK'
  <2>1. Query(m) \subseteq Period
    <3>1. m \in {"half_hourly", "best_slots_24h", "generation_mix_long"}
      BY PipelineAssumption
    <3>2. "best_slots_24h" \in Mart => "half_hourly" \in Mart
      BY PipelineAssumption
    <3>. QED
      BY <3>1, <3>2 DEF Query, Upcoming, Feed, TypeOK
  <2>2. draft' \in [Build -> [Mart -> SUBSET Period]]
    BY <1>3, <2>1 DEF ReadModel, TypeOK
  <2>3. busy' \in [Build -> SUBSET Mart]
    BY <1>3 DEF ReadModel, TypeOK
  <2>. QED
    BY <1>3, <2>2, <2>3 DEF ReadModel, TypeOK
<1>4. ASSUME NEW m \in Mart, ReplaceMart(b, m) PROVE TypeOK'
  <2>1. mart' \in [Mart -> SUBSET Period]
    BY <1>4 DEF ReplaceMart, TypeOK
  <2>. QED
    BY <1>4, <2>1, DoneWithType DEF ReplaceMart, TypeOK
<1>5. ASSUME NEW m \in Mart, ModelFails(b, m) PROVE TypeOK'
  BY <1>5, DoneWithType DEF ModelFails, TypeOK
<1>. QED
  BY <1>1, <1>2, <1>3, <1>4, <1>5

LEMMA NextType == TypeOK /\ [Next]_vars => TypeOK'
<1>1. TypeOK /\ UNCHANGED vars => TypeOK'
  BY DEF TypeOK, vars, feedVars, buildVars
<1>. QED
  BY <1>1, NextSplits, SourceType, RunType, RetentionType, BuildType

-----------------------------------------------------------------------------
(* An outage is counted from the newest half-hour that is stored, or that  *)
(* retention has dropped.                                                  *)
LEMMA OutageBounds ==
  ASSUME TypeOK, NEW f \in Feed, NEW k \in 0..MaxPeriod, Holds(f, k),
         NEW p \in Nat, WithinOutage(f, p)
  PROVE  p <= k + Outage[f]
<1>1. PICK q \in ((horizon[f] + 1)..k) \cup {horizon[f]} : p <= q + Outage[f]
  BY DEF WithinOutage, Holds
<1>2. horizon[f] \in Nat /\ horizon[f] <= k
  BY DEF TypeOK, Holds
<1>3. q <= k /\ q \in Nat /\ k \in Nat /\ Outage[f] \in Nat
  BY <1>1, <1>2, PipelineAssumption
<1>. QED
  BY <1>1, <1>3

LEMMA SourcesGrow ==
  ASSUME TypeOK, AnswersArePast, SourceStep, NEW f \in Feed
  PROVE  /\ published'[f] \in Nat /\ published'[f] >= published[f]
         /\ published'[f] # published[f] => WithinOutage(f, published'[f])
<1>. USE PipelineAssumption
<1>1. CASE Tick
  BY <1>1 DEF Tick, TypeOK, AnswersArePast
<1>2. ASSUME NEW g \in Feed, NEW n \in Step[g], Publish(g, n)
      PROVE  /\ published'[f] \in Nat /\ published'[f] >= published[f]
             /\ published'[f] # published[f] => WithinOutage(f, published'[f])
  <2>1. n \in Nat /\ published[g] \in Nat /\ published[f] \in Nat
    BY DEF TypeOK
  <2>2. published'[f] = IF f = g THEN published[f] + n ELSE published[f]
    BY <1>2 DEF Publish, TypeOK
  <2>3. WithinOutage(g, published[g] + n)
    BY <1>2 DEF Publish
  <2>. QED
    BY <2>1, <2>2, <2>3
<1>. QED
  BY <1>1, <1>2 DEF SourceStep

LEMMA SourceInv ==
  ASSUME Inv, SourceStep
  PROVE  Inv'
<1>. USE PipelineAssumption
<1>1. TypeOK /\ TypeOK' /\ AnswersArePast
  BY SourceType DEF Inv
<1>2. UNCHANGED <<answers, raw, horizon, buildVars>>
  BY DEF SourceStep, Tick, Publish
<1>3. \A f \in Feed : /\ published[f] \in Nat /\ published'[f] \in Nat
                      /\ published'[f] >= published[f]
  BY <1>1, SourcesGrow DEF TypeOK
<1>4. AnswersArePast'
  <2>1. published'["carbon"] = now'
    BY <1>1 DEF SourceStep, Tick, Publish, TypeOK, AnswersArePast, Feed
  <2>2. ASSUME NEW f \in Feed, NEW h \in answers[f] PROVE h <= published'[f]
    BY <1>1, <1>3 DEF AnswersArePast, TypeOK
  <2>. QED
    BY <1>2, <2>1, <2>2 DEF AnswersArePast
<1>5. DroppedForGood'
  <2>. SUFFICES ASSUME NEW f \in Feed, horizon[f] > 0
                PROVE  horizon[f] + Window[f] <= published'[f]
    BY <1>2 DEF Inv, DroppedForGood
  <2>1. horizon[f] + Window[f] <= published[f]
    BY DEF Inv, DroppedForGood
  <2>2. horizon[f] \in Nat /\ Window[f] \in Nat
    BY <1>1 DEF TypeOK
  <2>. QED
    BY <1>3, <2>1, <2>2
<1>6. NoHoles'
  <2>. SUFFICES ASSUME NEW f \in Feed, Recovers(f), NEW k \in 0..MaxPeriod, Holds(f, k)
                PROVE  Holds(f, k)'
    BY DEF Inv, NoHoles, Recovers
  <2>1. published'[f] # published[f] => published'[f] <= k + Outage[f]
    BY <1>1, <1>3, SourcesGrow, OutageBounds
  <2>. QED
    BY <1>2, <1>3, <2>1 DEF Holds
<1>7. ReadsAreSettled'
  BY <1>2 DEF Inv, ReadsAreSettled, buildVars
<1>8. ReadsAreWhole'
  <2>1. "mix" \in Feed
    BY DEF Feed
  <2>2. \A S : Whole(S) => Whole(S)'
    BY <1>3, <2>1 DEF Whole
  <2>. QED
    BY <1>2, <2>2 DEF Inv, ReadsAreWhole, Recovers, Whole, buildVars
<1>. QED
  BY <1>1, <1>4, <1>5, <1>6, <1>7, <1>8 DEF Inv

(* An answer closes the gap behind the newest half-hour it holds: there is *)
(* no half-hour between what is stored and the answer, nor one in it that  *)
(* retention has dropped.                                                  *)
LEMMA StoreExtends ==
  ASSUME Inv, NEW f \in Feed, Recovers(f), NEW h \in answers[f]
  PROVE  \E k \in 0..MaxPeriod : Holds(f, k) /\ h <= published[f] /\ h \in 0..MaxPeriod
           /\ raw[f] \cup Answer(f, h) = (horizon[f] + 1)..(IF h <= k THEN k ELSE h)
<1>. USE PipelineAssumption
<1>1. PICK k \in 0..MaxPeriod : Holds(f, k)
  BY DEF Inv, NoHoles
<1>2. h \in 0..MaxPeriod /\ h <= published[f]
  BY DEF Inv, TypeOK, AnswersArePast
<1>3. /\ published[f] \in Nat /\ Outage[f] \in Nat /\ Window[f] \in Nat
      /\ Outage[f] <= Window[f] /\ horizon[f] \in 0..MaxPeriod /\ horizon[f] <= k
  BY <1>1 DEF Inv, TypeOK, Recovers, Holds
<1>4. h - Window[f] <= k
  BY <1>1, <1>2, <1>3 DEF Holds
<1>5. horizon[f] > 0 => horizon[f] + Window[f] <= h
  BY DEF Inv, DroppedForGood
<1>6. /\ raw[f] = (horizon[f] + 1)..k
      /\ Answer(f, h) = {p \in 1..MaxPeriod : h - Window[f] < p /\ p <= h}
  BY <1>1 DEF Holds, Answer, Period
<1>7. ASSUME NEW p
      PROVE  p \in raw[f] \cup Answer(f, h)
               <=> p \in (horizon[f] + 1)..(IF h <= k THEN k ELSE h)
  <2>1. CASE h <= k
    BY <1>2, <1>3, <1>4, <1>5, <1>6, <2>1
  <2>2. CASE ~(h <= k)
    BY <1>2, <1>3, <1>4, <1>5, <1>6, <2>2
  <2>. QED
    BY <2>1, <2>2
<1>. QED
  BY <1>1, <1>2, <1>7

(* No answer brings back what retention has dropped.                       *)
LEMMA AnswersAboveHorizon ==
  ASSUME Inv, NEW f \in Feed, NEW h \in answers[f], NEW p \in Answer(f, h)
  PROVE  horizon[f] < p
<1>1. /\ h \in Int /\ p \in Nat \ {0} /\ Window[f] \in Nat /\ horizon[f] \in Nat
      /\ h - Window[f] < p
  BY PipelineAssumption DEF Inv, TypeOK, Answer, Period
<1>2. horizon[f] > 0 => horizon[f] + Window[f] <= h
  BY DEF Inv, DroppedForGood
<1>. QED
  BY <1>1, <1>2

LEMMA RunInv ==
  ASSUME Inv, RunStep
  PROVE  Inv'
<1>. USE PipelineAssumption
<1>1. TypeOK /\ TypeOK'
  BY RunType DEF Inv
<1>2. PICK f \in Feed : Fetch(f) \/ \E h \in 0..MaxPeriod : Store(f, h) \/ Lose(f, h)
  BY DEF RunStep
<1>3. UNCHANGED <<now, published, horizon, buildVars>>
  BY <1>2 DEF Fetch, Store, Lose
<1>4. \A g \in Feed : answers'[g] \subseteq answers[g] \cup {published[g]}
  BY <1>1, <1>2 DEF Fetch, Store, Lose, TypeOK
<1>5. \A g \in Feed : raw'[g] = raw[g] \/ \E h \in answers[g] : raw'[g] = raw[g] \cup Answer(g, h)
  BY <1>1, <1>2 DEF Fetch, Store, Lose, TypeOK
<1>6. AnswersArePast'
  <2>1. \A g \in Feed : published[g] \in Nat
    BY <1>1 DEF TypeOK
  <2>. QED
    BY <1>3, <1>4, <2>1 DEF Inv, AnswersArePast
<1>7. DroppedForGood'
  <2>1. ASSUME NEW g \in Feed, NEW p \in raw'[g] PROVE horizon[g] < p
    <3>1. CASE p \in raw[g]
      BY <3>1 DEF Inv, DroppedForGood
    <3>2. CASE p \notin raw[g]
      BY <1>5, <2>1, <3>2, AnswersAboveHorizon
    <3>. QED
      BY <3>1, <3>2
  <2>2. ASSUME NEW g \in Feed, horizon[g] > 0, NEW h \in answers'[g] \cup {published[g]}
        PROVE  horizon[g] + Window[g] <= h
    BY <1>4, <2>2 DEF Inv, DroppedForGood
  <2>. QED
    BY <1>3, <2>1, <2>2 DEF DroppedForGood
<1>8. NoHoles'
  <2>1. CASE raw' = raw
    BY <1>3, <2>1 DEF Inv, NoHoles, Holds, Recovers
  <2>2. ASSUME NEW h \in 0..MaxPeriod, Store(f, h) PROVE NoHoles'
    <3>1. h \in answers[f] /\ raw' = [raw EXCEPT ![f] = @ \cup Answer(f, h)]
      BY <2>2 DEF Store
    <3>2. \A g \in Feed \ {f} : raw'[g] = raw[g]
      BY <1>1, <3>1 DEF TypeOK
    <3>3. \A g \in Feed \ {f} : Recovers(g) => \E k \in 0..MaxPeriod : Holds(g, k)'
      BY <1>3, <3>2 DEF Inv, NoHoles, Holds
    <3>4. ASSUME Recovers(f) PROVE \E k \in 0..MaxPeriod : Holds(f, k)'
      <4>1. PICK k \in 0..MaxPeriod : Holds(f, k) /\ h <= published[f]
              /\ raw[f] \cup Answer(f, h) = (horizon[f] + 1)..(IF h <= k THEN k ELSE h)
        BY <3>1, <3>4, StoreExtends
      <4>2. raw'[f] = (horizon[f] + 1)..(IF h <= k THEN k ELSE h)
        BY <1>1, <3>1, <4>1 DEF TypeOK
      <4>3. published[f] \in Nat /\ Outage[f] \in Nat /\ horizon[f] \in Nat
        BY <1>1 DEF TypeOK
      <4>4. CASE h <= k
        <5>1. raw'[f] = (horizon[f] + 1)..k
          BY <4>2, <4>4
        <5>. QED
          BY <1>3, <4>1, <5>1 DEF Holds
      <4>5. CASE ~(h <= k)
        <5>1. raw'[f] = (horizon[f] + 1)..h
          BY <4>2, <4>5
        <5>2. Holds(f, h)'
          BY <1>3, <4>1, <4>3, <4>5, <5>1 DEF Holds
        <5>. QED
          BY <5>2
      <4>. QED
        BY <4>4, <4>5
    <3>. QED
      BY <3>3, <3>4 DEF NoHoles, Recovers
  <2>. QED
    BY <1>2, <2>1, <2>2 DEF Fetch, Lose
<1>9. ReadsAreSettled'
  <2>1. ASSUME NEW b \in Build, NEW g \in Feed, NEW p \in begun[b][g]
        PROVE  p \in raw'[g] \/ p <= horizon[g]
    BY <1>5, <2>1 DEF Inv, ReadsAreSettled
  <2>2. ASSUME NEW b \in Build, NEW m \in busy[b] \cap DOMAIN FeedOf
        PROVE  begun[b][FeedOf[m]] \cap raw'[FeedOf[m]] \subseteq draft[b][m]
    <3>1. FeedOf[m] \in Feed
      BY DEF FeedOf, Feed
    <3>2. begun[b][FeedOf[m]] \cap raw[FeedOf[m]] \subseteq draft[b][m]
      BY DEF Inv, ReadsAreSettled
    <3>3. \A p \in begun[b][FeedOf[m]] : p \in raw[FeedOf[m]] \/ p <= horizon[FeedOf[m]]
      BY <3>1 DEF Inv, ReadsAreSettled
    <3>4. \A p \in raw'[FeedOf[m]] : ~(p <= horizon[FeedOf[m]])
      BY <1>1, <1>3, <1>7, <3>1 DEF DroppedForGood, TypeOK, Period
    <3>. QED
      BY <3>2, <3>3, <3>4
  <2>. QED
    BY <1>3, <2>1, <2>2 DEF Inv, ReadsAreSettled, buildVars
<1>10. ReadsAreWhole'
  BY <1>3 DEF Inv, ReadsAreWhole, Whole, Recovers, buildVars
<1>. QED
  BY <1>1, <1>6, <1>7, <1>8, <1>9, <1>10 DEF Inv

(* Retention drops a half-hour only when no answer reaches it any more, so *)
(* what is left of a feed that recovers begins where it has stopped.       *)
LEMMA RetentionInv ==
  ASSUME Inv, RetentionStep
  PROVE  Inv'
<1>. USE PipelineAssumption
<1>1. TypeOK /\ TypeOK'
  BY RetentionType DEF Inv
<1>2. PICK f \in Feed, n \in Period : Expire(f, n)
  BY DEF RetentionStep
<1>3. UNCHANGED <<now, published, answers, buildVars>>
  BY <1>2 DEF Expire
<1>4. /\ horizon'[f] = n /\ raw'[f] = {p \in raw[f] : n < p}
      /\ \A g \in Feed \ {f} : horizon'[g] = horizon[g] /\ raw'[g] = raw[g]
  BY <1>1, <1>2 DEF Expire, TypeOK
<1>5. n \in Nat /\ horizon[f] \in Nat /\ horizon[f] < n
  BY <1>1, <1>2 DEF Expire, TypeOK, Period
<1>6. \A h \in answers[f] \cup {published[f]} : n + Window[f] <= h
  BY <1>2 DEF Expire
<1>7. AnswersArePast'
  BY <1>3 DEF Inv, AnswersArePast
<1>8. DroppedForGood'
  BY <1>3, <1>4, <1>6 DEF Inv, DroppedForGood
<1>9. NoHoles'
  <2>1. \A g \in Feed \ {f} : Recovers(g) => \E k \in 0..MaxPeriod : Holds(g, k)'
    BY <1>3, <1>4 DEF Inv, NoHoles, Holds
  <2>2. ASSUME Recovers(f), NEW k \in 0..MaxPeriod, Holds(f, k) PROVE Holds(f, k)'
    <3>1. /\ published[f] \in Nat /\ Outage[f] \in Nat /\ Window[f] \in Nat
          /\ Outage[f] <= Window[f] /\ k \in Nat
      BY <1>1, <2>2 DEF TypeOK, Recovers
    <3>2. n <= k
      <4>1. n + Window[f] <= published[f] /\ published[f] <= k + Outage[f]
        BY <1>6, <2>2 DEF Holds
      <4>. QED
        BY <1>5, <3>1, <4>1
    <3>3. raw'[f] = (n + 1)..k
      BY <1>4, <1>5, <2>2, <3>1 DEF Holds
    <3>. QED
      BY <1>3, <1>4, <2>2, <3>2, <3>3 DEF Holds
  <2>. QED
    BY <2>1, <2>2 DEF Inv, NoHoles, Recovers
<1>10. ReadsAreSettled'
  <2>1. ASSUME NEW b \in Build, NEW g \in Feed, NEW p \in begun[b][g]
        PROVE  p \in raw'[g] \/ p <= horizon'[g]
    <3>1. p \in raw[g] \/ p <= horizon[g]
      BY DEF Inv, ReadsAreSettled
    <3>2. p \in Nat
      BY <1>1 DEF TypeOK, Period
    <3>. QED
      BY <1>4, <1>5, <3>1, <3>2
  <2>2. ASSUME NEW b \in Build, NEW m \in busy[b] \cap DOMAIN FeedOf
        PROVE  begun[b][FeedOf[m]] \cap raw'[FeedOf[m]] \subseteq draft[b][m]
    <3>1. FeedOf[m] \in Feed
      BY DEF FeedOf, Feed
    <3>2. begun[b][FeedOf[m]] \cap raw[FeedOf[m]] \subseteq draft[b][m]
      BY DEF Inv, ReadsAreSettled
    <3>. QED
      BY <1>4, <3>1, <3>2
  <2>. QED
    BY <1>3, <2>1, <2>2 DEF Inv, ReadsAreSettled, buildVars
<1>11. ReadsAreWhole'
  BY <1>3 DEF Inv, ReadsAreWhole, Whole, Recovers, buildVars
<1>. QED
  BY <1>1, <1>7, <1>8, <1>9, <1>10, <1>11 DEF Inv

(* Of a feed that recovers, what is in raw.* is a stretch.                 *)
LEMMA RawIsWhole ==
  ASSUME Inv, Recovers("mix")
  PROVE  Whole(raw["mix"])
<1>1. "mix" \in Feed
  BY DEF Feed
<1>2. PICK k \in 0..MaxPeriod : Holds("mix", k)
  BY <1>1 DEF Inv, NoHoles
<1>3. horizon["mix"] \in Nat /\ published["mix"] \in Nat /\ k \in Nat
  BY <1>1, PipelineAssumption DEF Inv, TypeOK
<1>. QED
  BY <1>2, <1>3 DEF Holds, Whole

(* A build that is done with some models keeps what it has read for the    *)
(* others.                                                                 *)
LEMMA DoneWithKeeps ==
  ASSUME Inv, NEW b \in Build, NEW models, DoneWith(b, models), UNCHANGED feedVars
  PROVE  ReadsAreSettled' /\ ReadsAreWhole'
<1>1. TypeOK
  BY DEF Inv
<1>2. /\ busy'[b] = busy[b] \ models /\ todo'[b] = todo[b] \ models
      /\ draft'[b] = [m \in Mart |-> IF m \in models THEN {} ELSE draft[b][m]]
      /\ begun'[b] = IF todo[b] \subseteq models THEN NoRows ELSE begun[b]
  BY <1>1 DEF DoneWith, TypeOK
<1>3. \A c \in Build \ {b} : /\ busy'[c] = busy[c] /\ todo'[c] = todo[c]
                             /\ draft'[c] = draft[c] /\ begun'[c] = begun[c]
  BY <1>1 DEF DoneWith, TypeOK
<1>4. ReadsAreSettled'
  <2>. SUFFICES ASSUME NEW c \in Build
                PROVE  /\ busy'[c] \subseteq todo'[c]
                       /\ \A f \in Feed : \A p \in begun'[c][f] : p \in raw[f] \/ p <= horizon[f]
                       /\ \A m \in busy'[c] \cap DOMAIN FeedOf :
                            begun'[c][FeedOf[m]] \cap raw[FeedOf[m]] \subseteq draft'[c][m]
    BY DEF ReadsAreSettled, feedVars
  <2>1. CASE c # b
    BY <1>3, <2>1 DEF Inv, ReadsAreSettled
  <2>2. CASE c = b
    <3>1. busy'[c] \subseteq todo'[c]
      BY <1>2, <2>2 DEF Inv, ReadsAreSettled
    <3>2. \A f \in Feed : \A p \in begun'[c][f] : p \in raw[f] \/ p <= horizon[f]
      BY <1>2, <2>2 DEF Inv, ReadsAreSettled, NoRows
    <3>3. ASSUME NEW m \in busy'[c] \cap DOMAIN FeedOf
          PROVE  begun'[c][FeedOf[m]] \cap raw[FeedOf[m]] \subseteq draft'[c][m]
      <4>1. m \in busy[b] /\ m \notin models /\ m \in Mart /\ m \in todo[b]
        BY <1>1, <1>2, <2>2 DEF Inv, ReadsAreSettled, TypeOK
      <4>2. begun'[b] = begun[b] /\ draft'[b][m] = draft[b][m]
        BY <1>2, <4>1
      <4>. QED
        BY <2>2, <4>1, <4>2 DEF Inv, ReadsAreSettled
    <3>. QED
      BY <3>1, <3>2, <3>3
  <2>. QED
    BY <2>1, <2>2
<1>5. ReadsAreWhole'
  <2>. SUFFICES ASSUME Recovers("mix"), NEW c \in Build
                PROVE  /\ Whole(begun'[c]["mix"])
                       /\ "generation_mix_long" \in Mart => Whole(draft'[c]["generation_mix_long"])
    BY DEF ReadsAreWhole, Recovers, Whole, feedVars
  <2>1. Whole({}) /\ "mix" \in Feed
    BY DEF Whole, Feed
  <2>2. CASE c # b
    BY <1>3, <2>2 DEF Inv, ReadsAreWhole
  <2>3. CASE c = b
    BY <1>2, <2>1, <2>3 DEF Inv, ReadsAreWhole, NoRows
  <2>. QED
    BY <2>2, <2>3
<1>. QED
  BY <1>4, <1>5

LEMMA StartKeeps ==
  ASSUME Inv, NEW b \in Build, StartBuild(b)
  PROVE  ReadsAreSettled' /\ ReadsAreWhole'
<1>1. TypeOK
  BY DEF Inv
<1>2. /\ UNCHANGED <<feedVars, busy, draft>>
      /\ todo'[b] = Mart /\ begun'[b] = raw /\ busy[b] = {}
      /\ \A c \in Build \ {b} : todo'[c] = todo[c] /\ begun'[c] = begun[c]
  BY <1>1 DEF StartBuild, Inv, ReadsAreSettled, TypeOK
<1>3. ReadsAreSettled'
  <2>. SUFFICES ASSUME NEW c \in Build
                PROVE  /\ busy[c] \subseteq todo'[c]
                       /\ \A f \in Feed : \A p \in begun'[c][f] : p \in raw[f] \/ p <= horizon[f]
                       /\ \A m \in busy[c] \cap DOMAIN FeedOf :
                            begun'[c][FeedOf[m]] \cap raw[FeedOf[m]] \subseteq draft[c][m]
    BY <1>2 DEF ReadsAreSettled, feedVars
  <2>1. CASE c # b
    BY <1>2, <2>1 DEF Inv, ReadsAreSettled
  <2>2. CASE c = b
    BY <1>2, <2>2
  <2>. QED
    BY <2>1, <2>2
<1>4. ReadsAreWhole'
  <2>. SUFFICES ASSUME Recovers("mix"), NEW c \in Build
                PROVE  Whole(begun'[c]["mix"])
    BY <1>2 DEF Inv, ReadsAreWhole, Recovers, Whole, feedVars
  <2>. QED
    BY <1>2, RawIsWhole DEF Inv, ReadsAreWhole
<1>. QED
  BY <1>3, <1>4

LEMMA ReadKeeps ==
  ASSUME Inv, NEW b \in Build, NEW m \in Mart, ReadModel(b, m)
  PROVE  ReadsAreSettled' /\ ReadsAreWhole'
<1>1. TypeOK
  BY DEF Inv
<1>2. /\ UNCHANGED <<feedVars, todo, begun>> /\ m \in todo[b]
      /\ busy'[b] = busy[b] \cup {m} /\ draft'[b][m] = Query(m)
      /\ \A n \in Mart \ {m} : draft'[b][n] = draft[b][n]
      /\ \A c \in Build \ {b} : busy'[c] = busy[c] /\ draft'[c] = draft[c]
  BY <1>1 DEF ReadModel, TypeOK
<1>3. m \in DOMAIN FeedOf => Query(m) = raw[FeedOf[m]]
  BY DEF FeedOf, Query
<1>4. ReadsAreSettled'
  <2>. SUFFICES ASSUME NEW c \in Build
                PROVE  /\ busy'[c] \subseteq todo[c]
                       /\ \A f \in Feed : \A p \in begun[c][f] : p \in raw[f] \/ p <= horizon[f]
                       /\ \A n \in busy'[c] \cap DOMAIN FeedOf :
                            begun[c][FeedOf[n]] \cap raw[FeedOf[n]] \subseteq draft'[c][n]
    BY <1>2 DEF ReadsAreSettled, feedVars
  <2>1. CASE c # b
    BY <1>2, <2>1 DEF Inv, ReadsAreSettled
  <2>2. CASE c = b
    <3>1. busy'[c] \subseteq todo[c]
      BY <1>2, <2>2 DEF Inv, ReadsAreSettled
    <3>2. \A f \in Feed : \A p \in begun[c][f] : p \in raw[f] \/ p <= horizon[f]
      BY DEF Inv, ReadsAreSettled
    <3>3. ASSUME NEW n \in busy'[c] \cap DOMAIN FeedOf
          PROVE  begun[c][FeedOf[n]] \cap raw[FeedOf[n]] \subseteq draft'[c][n]
      <4>1. CASE n = m
        BY <1>2, <1>3, <2>2, <4>1
      <4>2. CASE n # m
        <5>1. n \in busy[c] /\ n \in Mart
          BY <1>1, <1>2, <2>2, <4>2 DEF TypeOK
        <5>. QED
          BY <1>2, <2>2, <4>2, <5>1 DEF Inv, ReadsAreSettled
      <4>. QED
        BY <4>1, <4>2
    <3>. QED
      BY <3>1, <3>2, <3>3
  <2>. QED
    BY <2>1, <2>2
<1>5. ReadsAreWhole'
  <2>. SUFFICES ASSUME Recovers("mix"), "generation_mix_long" \in Mart, NEW c \in Build
                PROVE  Whole(draft'[c]["generation_mix_long"])
    BY <1>2 DEF Inv, ReadsAreWhole, Recovers, Whole, feedVars
  <2>1. Query("generation_mix_long") = raw["mix"]
    BY DEF Query
  <2>. QED
    BY <1>2, <2>1, RawIsWhole DEF Inv, ReadsAreWhole
<1>. QED
  BY <1>4, <1>5

LEMMA BuildInv ==
  ASSUME Inv, BuildStep
  PROVE  Inv'
<1>1. TypeOK /\ TypeOK'
  BY BuildType DEF Inv
<1>2. UNCHANGED feedVars
  BY DEF BuildStep, StartBuild, BuildDies, ReadModel, ReplaceMart, ModelFails
<1>3. AnswersArePast' /\ DroppedForGood' /\ NoHoles'
  BY <1>2 DEF Inv, AnswersArePast, DroppedForGood, NoHoles, Holds, Recovers, feedVars
<1>4. ReadsAreSettled' /\ ReadsAreWhole'
  <2>1. PICK b \in Build :
          \/ StartBuild(b) \/ BuildDies(b)
          \/ \E m \in Mart : ReadModel(b, m) \/ ReplaceMart(b, m) \/ ModelFails(b, m)
    BY DEF BuildStep
  <2>2. CASE StartBuild(b)
    BY <2>2, StartKeeps
  <2>3. CASE BuildDies(b)
    BY <1>2, <2>3, DoneWithKeeps DEF BuildDies
  <2>4. ASSUME NEW m \in Mart, ReadModel(b, m) PROVE ReadsAreSettled' /\ ReadsAreWhole'
    BY <2>4, ReadKeeps
  <2>5. ASSUME NEW m \in Mart, ReplaceMart(b, m) PROVE ReadsAreSettled' /\ ReadsAreWhole'
    BY <1>2, <2>5, DoneWithKeeps DEF ReplaceMart
  <2>6. ASSUME NEW m \in Mart, ModelFails(b, m) PROVE ReadsAreSettled' /\ ReadsAreWhole'
    BY <1>2, <2>6, DoneWithKeeps DEF ModelFails
  <2>. QED
    BY <2>1, <2>2, <2>3, <2>4, <2>5, <2>6
<1>. QED
  BY <1>1, <1>3, <1>4 DEF Inv

LEMMA NextInv == Inv /\ [Next]_vars => Inv'
<1>1. Inv /\ UNCHANGED vars => Inv'
  BY DEF Inv, TypeOK, AnswersArePast, DroppedForGood, NoHoles, Holds, Recovers,
         ReadsAreSettled, ReadsAreWhole, Whole, vars, feedVars, buildVars
<1>. QED
  BY <1>1, NextSplits, SourceInv, RunInv, RetentionInv, BuildInv

-----------------------------------------------------------------------------
LEMMA RawHasNoHole == Inv => NoGaps
<1>. SUFFICES ASSUME Inv, NEW f \in Feed, Recovers(f), NEW p \in raw[f]
              PROVE  (horizon[f] + 1)..p \subseteq raw[f]
  BY DEF NoGaps
<1>1. PICK k \in 0..MaxPeriod : raw[f] = (horizon[f] + 1)..k
  BY DEF Inv, NoHoles, Holds
<1>2. horizon[f] \in Nat /\ k \in Nat
  BY PipelineAssumption DEF Inv, TypeOK
<1>. QED
  BY <1>1, <1>2

(* What a feed that recovers lacks is newer than what it has stored, and   *)
(* no further back than an outage.                                         *)
LEMMA MissingIsInWindow == Inv => OneRunCatchesUp
<1>. SUFFICES ASSUME Inv, NEW f \in Feed, Recovers(f),
                     NEW p \in (horizon[f] + 1)..published[f], p \notin raw[f]
              PROVE  p \in Answer(f, published[f])
  BY DEF OneRunCatchesUp
<1>. USE PipelineAssumption
<1>1. PICK k \in 0..MaxPeriod : Holds(f, k)
  BY DEF Inv, NoHoles
<1>2. published[f] \in 0..MaxPeriod /\ horizon[f] \in 0..MaxPeriod /\ k \in Nat
  BY DEF Inv, TypeOK
<1>3. Outage[f] \in Nat /\ Window[f] \in Nat /\ Outage[f] <= Window[f]
  BY DEF Recovers
<1>4. k < p
  BY <1>1, <1>2 DEF Holds
<1>5. published[f] <= k + Outage[f]
  BY <1>1 DEF Holds
<1>6. published[f] - Window[f] < p /\ p \in Period
  BY <1>2, <1>3, <1>4, <1>5 DEF Period
<1>. QED
  BY <1>6 DEF Answer

(* A build reads what was there when it began, so all that is settled is   *)
(* in what it replaces a mart by.                                          *)
LEMMA ReplacementHasSettled ==
  ASSUME Inv, NEW b \in Build, NEW m \in Mart \cap DOMAIN FeedOf, ReplaceMart(b, m)
  PROVE  Settled(FeedOf[m]) \subseteq mart'[m]
<1>1. m \in busy[b] /\ mart'[m] = draft[b][m]
  BY DEF ReplaceMart, Inv, TypeOK
<1>2. todo[b] # {}
  BY <1>1 DEF Inv, ReadsAreSettled
<1>3. begun[b][FeedOf[m]] \cap raw[FeedOf[m]] \subseteq draft[b][m]
  BY <1>1 DEF Inv, ReadsAreSettled
<1>. QED
  BY <1>1, <1>2, <1>3 DEF Settled

LEMMA MartsKeepSettled ==
  ASSUME Inv, [Next]_vars, NEW m \in Mart \cap DOMAIN FeedOf
  PROVE  mart'[m] = mart[m] \/ (BuildStep /\ Settled(FeedOf[m]) \subseteq mart'[m])
<1>1. CASE BuildStep
  <2>1. ASSUME NEW b \in Build, NEW n \in Mart, ReplaceMart(b, n)
        PROVE  mart'[m] = mart[m] \/ Settled(FeedOf[m]) \subseteq mart'[m]
    <3>1. CASE n = m
      BY <2>1, <3>1, ReplacementHasSettled
    <3>2. CASE n # m
      BY <2>1, <3>2 DEF ReplaceMart, Inv, TypeOK
    <3>. QED
      BY <3>1, <3>2
  <2>. QED
    BY <1>1, <2>1 DEF BuildStep, StartBuild, BuildDies, ReadModel, ModelFails
<1>2. CASE SourceStep \/ RunStep \/ RetentionStep \/ UNCHANGED vars
  BY <1>2 DEF SourceStep, RunStep, RetentionStep, Tick, Publish, Fetch, Store, Lose,
              Expire, vars, buildVars
<1>. QED
  BY <1>1, <1>2, NextSplits

-----------------------------------------------------------------------------
(* What is settled of the mix is a stretch, of which only the oldest       *)
(* half-hours are ever dropped.                                            *)
LEMMA SettledIsWhole ==
  ASSUME Inv, Recovers("mix")
  PROVE  Whole(Settled("mix"))
<1>1. Whole(raw["mix"]) /\ \A b \in Build : Whole(begun[b]["mix"])
  BY RawIsWhole DEF Inv, ReadsAreWhole
<1>2. Settled("mix") \subseteq raw["mix"]
      /\ \A b \in Build : todo[b] # {} => Settled("mix") \subseteq begun[b]["mix"]
  BY DEF Settled
<1>. SUFFICES ASSUME NEW p \in Settled("mix"), NEW q \in Settled("mix"), NEW r \in p..q
              PROVE  r \in Settled("mix")
  BY <1>1, <1>2 DEF Whole
<1>3. r \in raw["mix"] /\ \A b \in Build : todo[b] # {} => r \in begun[b]["mix"]
  BY <1>1, <1>2 DEF Whole
<1>. QED
  BY <1>3 DEF Settled

LEMMA SettledDropsOldest ==
  ASSUME Inv, RunStep \/ RetentionStep \/ BuildStep
  PROVE  \A p \in Settled("mix") \ Settled("mix")', q \in Settled("mix")' : p < q
<1>1. TypeOK /\ "mix" \in Feed
  BY DEF Inv, Feed
<1>2. CASE RunStep
  <2>1. UNCHANGED buildVars /\ raw["mix"] \subseteq raw'["mix"]
    BY <1>1, <1>2 DEF RunStep, Fetch, Store, Lose, TypeOK
  <2>. QED
    BY <2>1 DEF Settled, buildVars
<1>3. CASE RetentionStep
  <2>1. PICK f \in Feed, n \in Period : Expire(f, n)
    BY <1>3 DEF RetentionStep
  <2>2. UNCHANGED buildVars
    BY <2>1 DEF Expire
  <2>3. raw'["mix"] = raw["mix"] \/ raw'["mix"] = {p \in raw["mix"] : n < p}
    BY <1>1, <2>1 DEF Expire, TypeOK
  <2>4. n \in Nat /\ \A p \in raw["mix"] : p \in Nat
    BY <1>1 DEF TypeOK, Period
  <2>. QED
    BY <2>2, <2>3, <2>4 DEF Settled, buildVars
<1>4. CASE BuildStep
  <2>1. UNCHANGED raw
    BY <1>4 DEF BuildStep, StartBuild, BuildDies, ReadModel, ReplaceMart, ModelFails, feedVars
  <2>2. PICK b \in Build :
          \/ StartBuild(b) \/ BuildDies(b)
          \/ \E m \in Mart : ReadModel(b, m) \/ ReplaceMart(b, m) \/ ModelFails(b, m)
    BY <1>4 DEF BuildStep
  <2>3. \A c \in Build \ {b} : todo'[c] = todo[c] /\ begun'[c] = begun[c]
    BY <1>1, <2>2 DEF StartBuild, BuildDies, ReadModel, ReplaceMart, ModelFails, DoneWith, TypeOK
  <2>4. \/ todo'[b] = {}
        \/ begun'[b] = raw
        \/ begun'[b] = begun[b] /\ todo'[b] \subseteq todo[b]
    <3>1. CASE StartBuild(b)
      BY <1>1, <3>1 DEF StartBuild, TypeOK
    <3>2. ASSUME NEW m \in Mart, ReadModel(b, m)
          PROVE  begun'[b] = begun[b] /\ todo'[b] \subseteq todo[b]
      BY <3>2 DEF ReadModel
    <3>3. ASSUME NEW models, DoneWith(b, models)
          PROVE  todo'[b] = {} \/ (begun'[b] = begun[b] /\ todo'[b] \subseteq todo[b])
      BY <1>1, <3>3 DEF DoneWith, TypeOK
    <3>. QED
      BY <2>2, <3>1, <3>2, <3>3 DEF BuildDies, ReplaceMart, ModelFails
  <2>5. Settled("mix") \subseteq Settled("mix")'
    BY <2>1, <2>3, <2>4 DEF Settled
  <2>. QED
    BY <2>5
<1>. QED
  BY <1>2, <1>3, <1>4

LEMMA MixFollows ==
  ASSUME Inv, Whole(Settled("mix"))', Recovers("mix"),
         "generation_mix_long" \in Mart, [Next]_vars
  PROVE  [MixMart!Next]_<<published["mix"], Settled("mix"), mart["generation_mix_long"]>>
<1>1. TypeOK /\ "mix" \in Feed /\ AnswersArePast
  BY DEF Inv, Feed
<1>2. CASE SourceStep
  <2>1. UNCHANGED <<raw, buildVars>>
    BY <1>2 DEF SourceStep, Tick, Publish
  <2>2. published'["mix"] \in Nat /\ published'["mix"] >= published["mix"]
        /\ published["mix"] \in Nat
    BY <1>1, <1>2, SourcesGrow, PipelineAssumption DEF TypeOK
  <2>3. UNCHANGED <<Settled("mix"), mart["generation_mix_long"]>>
    BY <2>1 DEF Settled, buildVars
  <2>. QED
    BY <2>2, <2>3 DEF MixMart!Next, MixMart!Publish
<1>3. CASE RunStep \/ RetentionStep \/ BuildStep
  <2>1. published'["mix"] = published["mix"]
    BY <1>3 DEF RunStep, Fetch, Store, Lose, RetentionStep, Expire, BuildStep, StartBuild,
                BuildDies, ReadModel, ReplaceMart, ModelFails, feedVars
  <2>2. MixMart!Stretch(Settled("mix")')
    BY <2>1 DEF Whole, MixMart!Stretch
  <2>3. MixMart!Settle
    BY <1>3, <2>1, <2>2, SettledDropsOldest DEF MixMart!Settle
  <2>4. mart'["generation_mix_long"] = mart["generation_mix_long"] \/ MixMart!CatchUp
    <3>. SUFFICES ASSUME mart'["generation_mix_long"] # mart["generation_mix_long"]
                  PROVE  MixMart!CatchUp
      OBVIOUS
    <3>1. "generation_mix_long" \in Mart \cap DOMAIN FeedOf /\ FeedOf["generation_mix_long"] = "mix"
      BY DEF FeedOf
    <3>2. BuildStep /\ Settled("mix") \subseteq mart'["generation_mix_long"]
      BY <3>1, MartsKeepSettled
    <3>3. Whole(mart'["generation_mix_long"])
      <4>1. PICK b \in Build, m \in Mart : ReplaceMart(b, m)
        BY <1>1, <3>2 DEF BuildStep, StartBuild, BuildDies, ReadModel, ModelFails
      <4>2. mart'["generation_mix_long"] = draft[b]["generation_mix_long"]
        BY <1>1, <4>1 DEF ReplaceMart, TypeOK
      <4>. QED
        BY <4>2 DEF Inv, ReadsAreWhole
    <3>4. MixMart!Stretch(mart'["generation_mix_long"])
      BY <3>3 DEF Whole, MixMart!Stretch
    <3>. QED
      BY <2>1, <3>2, <3>4 DEF MixMart!CatchUp
  <2>. QED
    BY <2>3, <2>4 DEF MixMart!Next
<1>4. CASE UNCHANGED vars
  BY <1>4 DEF vars, feedVars, buildVars, Settled
<1>. QED
  BY <1>2, <1>3, <1>4, NextSplits

(* Every variable of the pipeline keeps its type (dagster_defs/assets.py,  *)
(* dbt_assets.py).                                                         *)
THEOREM TypeCorrect == Spec => []TypeOK
<1>1. Inv => TypeOK
  BY DEF Inv
<1>. QED
  BY <1>1, InitInv, NextInv, PTL DEF Spec

(* However the runs of a feed overlap, are late or fail, raw.* has no hole *)
(* back to where retention has dropped it, if no outage is longer than an  *)
(* answer reaches back (latest(limit) and the period_from of the clients). *)
THEOREM NothingIsSkipped == Spec => []NoGaps
<1>. QED
  BY RawHasNoHole, InitInv, NextInv, PTL DEF Spec

(* However long the history of lost, late and overlapping runs, the next   *)
(* run of a feed whose outages fit into its window (latest(limit) and the  *)
(* period_from of the clients) brings its table up to date.                *)
THEOREM NothingOutOfReach == Spec => []OneRunCatchesUp
<1>. QED
  BY MissingIsInWindow, InitInv, NextInv, PTL DEF Spec

(* However many builds overlap, in whatever order they read and replace    *)
(* and wherever they fail or die, a half-hour that /carbon-intensity or    *)
(* /generation-mix has served is only lost to retention, or to a build     *)
(* that had begun before the half-hour was stored.                         *)
THEOREM SettledIsKept == Spec => SettledStaysServed
<1>1. Inv /\ [Next]_vars
        => \A m \in Mart \cap DOMAIN FeedOf : mart[m] \cap Settled(FeedOf[m]) \subseteq mart'[m]
  BY MartsKeepSettled
<1>. QED
  BY <1>1, InitInv, NextInv, PTL DEF Spec, SettledStaysServed

(* If no outage of NESO is longer than its 96 rows, the mart of the mix    *)
(* follows it without a hole, through everything that fails or overlaps    *)
(* in between, and only the oldest half-hours are ever forgotten.          *)
THEOREM ImplementsFollower ==
  ASSUME Recovers("mix"), "generation_mix_long" \in Mart
  PROVE  Spec => MixMartFollows
<1>1. Init => MixMart!Init
  BY DEF Init, MixMart!Init, Settled, Feed, NoRows
<1>2. Inv => Whole(Settled("mix"))
  BY SettledIsWhole
<1>3. Inv /\ Whole(Settled("mix"))' /\ [Next]_vars
        => [MixMart!Next]_<<published["mix"], Settled("mix"), mart["generation_mix_long"]>>
  BY MixFollows
<1>. QED
  BY <1>1, <1>2, <1>3, InitInv, NextInv, PTL DEF Spec, MixMartFollows, MixMart!Spec

-----------------------------------------------------------------------------
(* What is not kept.                                                       *)

(* Half-hours of f that no pending answer holds, nor one given now. *)
OutOfReach(f) ==
  {p \in 1..published[f] :
     /\ p \notin raw[f]
     /\ \A h \in answers[f] \cup {published[f]} : p \notin Answer(f, h)}

NothingComesBack == [][\A f \in Feed : OutOfReach(f) \subseteq OutOfReach(f)']_vars

LEMMA StaysOutOfReach ==
  ASSUME Inv, [Next]_vars, NEW f \in Feed, NEW p \in OutOfReach(f)
  PROVE  p \in OutOfReach(f)'
<1>. USE PipelineAssumption
<1>1. TypeOK /\ AnswersArePast
  BY DEF Inv
<1>2. /\ p \in 1..published[f] /\ p \notin raw[f]
      /\ p \notin Answer(f, published[f]) /\ \A h \in answers[f] : p \notin Answer(f, h)
  BY DEF OutOfReach
<1>3. published[f] \in 0..MaxPeriod /\ Window[f] \in Nat
  BY <1>1 DEF TypeOK
<1>4. p <= published[f] - Window[f] /\ p \in Nat
  BY <1>2, <1>3 DEF Answer, Period
<1>5. CASE SourceStep
  <2>1. UNCHANGED <<answers, raw>>
    BY <1>5 DEF SourceStep, Tick, Publish
  <2>2. published'[f] \in Nat /\ published'[f] >= published[f]
    BY <1>1, <1>5, SourcesGrow
  <2>3. p \notin Answer(f, published'[f]) /\ p \in 1..published'[f]
    BY <1>2, <1>3, <1>4, <2>2 DEF Answer
  <2>4. \A h \in answers[f] \cup {published'[f]} : p \notin Answer(f, h)
    BY <1>2, <2>3
  <2>. QED
    BY <1>2, <2>1, <2>3, <2>4 DEF OutOfReach, Answer
<1>6. CASE RunStep
  <2>1. PICK g \in Feed : Fetch(g) \/ \E h \in 0..MaxPeriod : Store(g, h) \/ Lose(g, h)
    BY <1>6 DEF RunStep
  <2>2. published' = published /\ answers'[f] \subseteq answers[f] \cup {published[f]}
    <3>1. \/ answers' = [answers EXCEPT ![g] = @ \cup {published[g]}]
          \/ \E h \in 0..MaxPeriod : answers' = [answers EXCEPT ![g] = @ \ {h}]
      BY <2>1 DEF Fetch, Store, Lose
    <3>2. answers'[f] \subseteq answers[f] \cup {published[f]}
      BY <1>1, <3>1 DEF TypeOK
    <3>. QED
      BY <2>1, <3>2 DEF Fetch, Store, Lose
  <2>3. raw'[f] = raw[f] \/ \E h \in answers[f] : raw'[f] = raw[f] \cup Answer(f, h)
    <3>1. ASSUME NEW h \in 0..MaxPeriod, Store(g, h)
          PROVE  raw'[f] = raw[f] \/ (h \in answers[f] /\ raw'[f] = raw[f] \cup Answer(f, h))
      BY <1>1, <3>1 DEF Store, TypeOK
    <3>. QED
      BY <2>1, <3>1 DEF Fetch, Lose
  <2>4. \A h \in answers'[f] \cup {published'[f]} : p \notin Answer(f, h)
    BY <1>2, <2>2
  <2>. QED
    BY <1>2, <2>2, <2>3, <2>4 DEF OutOfReach, Answer
<1>7. CASE RetentionStep
  <2>1. UNCHANGED <<published, answers>> /\ raw'[f] \subseteq raw[f]
    BY <1>1, <1>7 DEF RetentionStep, Expire, TypeOK
  <2>. QED
    BY <2>1 DEF OutOfReach, Answer
<1>8. CASE BuildStep \/ UNCHANGED vars
  <2>1. UNCHANGED <<published, answers, raw>>
    BY <1>8 DEF BuildStep, StartBuild, BuildDies, ReadModel, ReplaceMart, ModelFails,
                feedVars, vars
  <2>. QED
    BY <2>1 DEF OutOfReach, Answer
<1>. QED
  BY <1>5, <1>6, <1>7, <1>8, NextSplits

(* The other side of OneRunCatchesUp, for every feed: a half-hour that has *)
(* left the window before a run stored it is lost to raw.* for good, and   *)
(* so is what retention has dropped.  For carbon, whose assets ask for the *)
(* current half-hour only, that is every half-hour without a successful    *)
(* run.                                                                    *)
THEOREM LostForGood == Spec => NothingComesBack
<1>1. Inv /\ [Next]_vars => \A f \in Feed : OutOfReach(f) \subseteq OutOfReach(f)'
  BY StaysOutOfReach
<1>. QED
  BY <1>1, InitInv, NextInv, PTL DEF Spec, NothingComesBack

(* Carbon is fetched for the half-hour it is, so nothing upcoming is ever  *)
(* in its table, nor in the mart that reads it, nor in what a build has    *)
(* read of either.                                                         *)
NothingUpcoming ==
  /\ \A p \in raw["carbon"] \cup mart["half_hourly"] : p <= now
  /\ mart["best_slots_24h"] = {}
  /\ \A b \in Build : /\ \A p \in draft[b]["half_hourly"] : p <= now
                      /\ draft[b]["best_slots_24h"] = {}

LEMMA NextNothingUpcoming ==
  ASSUME "best_slots_24h" \in Mart, Inv, NothingUpcoming, [Next]_vars
  PROVE  NothingUpcoming'
<1>1. /\ TypeOK /\ AnswersArePast /\ now \in Nat /\ "carbon" \in Feed
      /\ "half_hourly" \in Mart /\ "best_slots_24h" \in Mart
  BY PipelineAssumption DEF Inv, TypeOK, Feed
<1>2. CASE SourceStep
  <2>1. UNCHANGED <<raw, mart, draft>> /\ now' \in {now, now + 1}
    BY <1>2 DEF SourceStep, Tick, Publish, buildVars
  <2>2. /\ \A p \in raw["carbon"] \cup mart["half_hourly"] : p \in Nat
        /\ \A b \in Build : \A p \in draft[b]["half_hourly"] : p \in Nat
    BY <1>1 DEF TypeOK, Period
  <2>. QED
    BY <1>1, <2>1, <2>2 DEF NothingUpcoming
<1>3. CASE RunStep
  <2>1. UNCHANGED <<now, mart, draft>>
    BY <1>3 DEF RunStep, Fetch, Store, Lose, buildVars
  <2>2. \A p \in raw'["carbon"] :
          p \in raw["carbon"] \/ \E h \in answers["carbon"] : p <= h /\ p \in Nat
    BY <1>1, <1>3 DEF RunStep, Fetch, Store, Lose, Answer, Period, TypeOK
  <2>3. \A h \in answers["carbon"] : h \in Nat /\ h <= now
    BY <1>1 DEF AnswersArePast, TypeOK
  <2>4. \A p \in raw'["carbon"] : p <= now
    BY <1>1, <2>2, <2>3 DEF NothingUpcoming
  <2>. QED
    BY <2>1, <2>4 DEF NothingUpcoming
<1>4. CASE RetentionStep
  <2>1. UNCHANGED <<now, mart, draft>> /\ raw'["carbon"] \subseteq raw["carbon"]
    BY <1>1, <1>4 DEF RetentionStep, Expire, TypeOK, buildVars
  <2>. QED
    BY <2>1 DEF NothingUpcoming
<1>5. CASE BuildStep
  <2>1. UNCHANGED <<now, raw>>
    BY <1>5 DEF BuildStep, StartBuild, BuildDies, ReadModel, ReplaceMart, ModelFails, feedVars
  <2>2. /\ \A p \in Query("half_hourly") : p <= now
        /\ Query("best_slots_24h") = {}
    <3>1. \A p \in mart["half_hourly"] : p \in Nat /\ ~(now < p)
      BY <1>1 DEF NothingUpcoming, TypeOK, Period
    <3>. QED
      BY <3>1 DEF Upcoming, Query, NothingUpcoming
  <2>3. \A m \in Mart : \/ mart'[m] = mart[m]
                        \/ \E b \in Build : mart'[m] = draft[b][m]
    BY <1>1, <1>5 DEF BuildStep, StartBuild, BuildDies, ReadModel, ReplaceMart, ModelFails, TypeOK
  <2>4. \A c \in Build, m \in Mart : draft'[c][m] \in {draft[c][m], {}, Query(m)}
    <3>1. PICK b \in Build :
            \/ StartBuild(b) \/ BuildDies(b)
            \/ \E m \in Mart : ReadModel(b, m) \/ ReplaceMart(b, m) \/ ModelFails(b, m)
      BY <1>5 DEF BuildStep
    <3>2. CASE StartBuild(b)
      BY <3>2 DEF StartBuild
    <3>3. ASSUME NEW n \in Mart, ReadModel(b, n)
          PROVE  \A c \in Build, m \in Mart : draft'[c][m] \in {draft[c][m], Query(m)}
      BY <1>1, <3>3 DEF ReadModel, TypeOK
    <3>4. ASSUME NEW models, DoneWith(b, models)
          PROVE  \A c \in Build, m \in Mart : draft'[c][m] \in {draft[c][m], {}}
      BY <1>1, <3>4 DEF DoneWith, TypeOK
    <3>. QED
      BY <3>1, <3>2, <3>3, <3>4 DEF BuildDies, ReplaceMart, ModelFails
  <2>5. \A p \in mart'["half_hourly"] : p <= now
    BY <1>1, <2>3 DEF NothingUpcoming
  <2>6. mart'["best_slots_24h"] = {}
    BY <1>1, <2>3 DEF NothingUpcoming
  <2>7. \A b \in Build : /\ \A p \in draft'[b]["half_hourly"] : p <= now
                         /\ draft'[b]["best_slots_24h"] = {}
    BY <1>1, <2>2, <2>4 DEF NothingUpcoming
  <2>. QED
    BY <2>1, <2>5, <2>6, <2>7 DEF NothingUpcoming
<1>6. CASE UNCHANGED vars
  BY <1>6 DEF vars, feedVars, buildVars, NothingUpcoming
<1>. QED
  BY <1>2, <1>3, <1>4, <1>5, <1>6, NextSplits

(* What the run best_slots shows on one behaviour holds of all of them:    *)
(* mart_best_slots_24h never has a row, whatever is published, stored and  *)
(* built, and however far it may look ahead.                               *)
THEOREM BestSlotsStayEmpty ==
  ASSUME "best_slots_24h" \in Mart
  PROVE  Spec => [](mart["best_slots_24h"] = {})
<1>1. Init => NothingUpcoming
  BY PipelineAssumption DEF Init, NothingUpcoming, Feed, NoRows
<1>2. NothingUpcoming => mart["best_slots_24h"] = {}
  BY DEF NothingUpcoming
<1>3. Inv /\ NothingUpcoming /\ [Next]_vars => NothingUpcoming'
  BY NextNothingUpcoming
<1>. QED
  BY <1>1, <1>2, <1>3, InitInv, NextInv, PTL DEF Spec

=============================================================================
