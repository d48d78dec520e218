--------------------------- MODULE JudgmentsProofs ---------------------------
(***************************************************************************)
(* The decisions, for all profiles, rules, requests and numbers of            *)
(* questions: provider and supervisor agree on who is to decide, a decision   *)
(* is parked before it is recorded, investigations leave no session behind,   *)
(* and what the engine settles by itself, it settles as its patterns mean.    *)
(* Then the validation's records, the protocol proof's summaries, and what    *)
(* the roles' callers are told.                                               *)
(***************************************************************************)
EXTENDS Judgments, WellFoundedInduction, TLAPS

\* A request, as far as the argument looks into it.
Asked(q) ==
  /\ {"surface", "domain", "scope", "risk", "baseline"} \subseteq DOMAIN q
  /\ q.surface \in Surface
  /\ q.domain \in Domain \cup {"unstated"} /\ q.family \in Domain \cup {"none"}
  /\ q.scope \in Scope \cup {"unstated"}

Open == {"settled", "parked", "recorded"}

ShapeInv ==
  /\ profile \in [Domain -> Level] /\ baseline \in BOOLEAN
  /\ Asked(arrived) /\ request.surface = arrived.surface
  /\ outcome.tier \in 0..4 /\ log \in Seq(0..3)
  /\ pc \in Open => outcome.tier \in 0..3

\* Who settled the request weighed it as the supervisor will.
Weighed == outcome.tier = 3 <=> Escalates(PolicyContext(request), outcome.verdict)

AgreeInv ==
  /\ pc \in Open /\ request.surface = "routing" => Weighed
  /\ SupervisorAgrees

\* What waits for a person has its node parked.
ParkInv ==
  /\ pc = "parked" => outcome.tier = 3
  /\ pc \in {"parked", "recorded"} /\ outcome.tier = 3 => node = "awaiting-human"

IInv == ShapeInv /\ AgreeInv /\ ParkInv

-----------------------------------------------------------------------------
\* The engine.

LEMMA ClassifiedRequest ==
  ASSUME NEW q, Asked(q)
  PROVE  ClassifyDecision(q).domain \in Domain /\ ClassifyDecision(q).scope \in Scope
BY DEF Asked, ClassifyDecision, ClassifyDomain, ClassifyScope, Domain, Scope

\* What the engine settles by itself it settles as the supervisor would, who
\* reads the risk back from what the engine wrote into the request.
LEMMA EngineWeighs ==
  ASSUME ShapeInv, NEW q, Asked(q), q.surface = "routing",
         NEW v, v = EvaluateRouting(profile, baseline, q), v.outcome # "route",
         NEW settled, settled = SettledByPolicy(q, v)
  PROVE  settled.tier \in 0..3 /\
         (settled.tier = 3 <=> Escalates(PolicyContext(Enriched(q, v)), settled.verdict))
<1> DEFINE c == ClassifyDecision(q)
           context == [domain |-> c.domain, scope |-> c.scope, baseline |-> baseline,
                       level |-> profile[c.domain]]
           claim == [type |-> "decision", confidence |-> 10, risk |-> c.risk, block |-> FALSE]
<1>1. c.domain \in Domain /\ c.scope \in Scope
  BY ClassifiedRequest
<1> HIDE DEF c
<1>2. CASE Escalates(context, claim)
  <2>1. v = PolicyVerdict("stop", AssessConflict(q), TRUE, c, FALSE)
    BY <1>2 DEF EvaluateRouting, c
  <2>2. settled = ToHuman
    BY <2>1 DEF SettledByPolicy, PolicyVerdict
  <2> QED
    BY <2>2 DEF ToHuman, Settled, HumanVerdict, Verdict, Escalates
<1>3. CASE ~ Escalates(context, claim)
  <2>1. v = PolicyVerdict("permit", "no_conflict", FALSE, c, FALSE)
    BY <1>3 DEF EvaluateRouting, PolicyVerdict, c
  <2>2. settled = Settled(0, Verdict("decision", FirstOption(q), 10, RiskFromPolicyVerdict(v)))
    BY <2>1 DEF SettledByPolicy, PolicyVerdict
  <2>3. RiskFromPolicyVerdict(v) = RiskOfScope[c.scope]
    BY <2>1 DEF RiskFromPolicyVerdict, PolicyVerdict
  <2>4. /\ PolicyContext(Enriched(q, v)).domain = c.domain
        /\ PolicyContext(Enriched(q, v)).level = profile[c.domain]
        /\ PolicyContext(Enriched(q, v)).scope = c.scope
        /\ PolicyContext(Enriched(q, v)).baseline = baseline
    BY <1>1, <2>1 DEF PolicyContext, Enriched, PolicyVerdict, Asked, Domain, Scope
  <2>5. profile[c.domain] \in Level
    BY <1>1 DEF ShapeInv
  <2>6. ~ Escalates(PolicyContext(Enriched(q, v)), settled.verdict)
    <3> DEFINE w == settled.verdict
    <3>1. w.type = "decision" /\ w.confidence = 10 /\ w.risk = RiskOfScope[c.scope]
      BY <2>2, <2>3 DEF Settled, Verdict
    <3>3. ~ w.block
      BY <2>2 DEF Settled, Verdict
    <3>2. /\ c.scope = "local" => w.risk = 2
          /\ c.scope = "moderate" => w.risk = 5
          /\ c.scope = "major" => w.risk = 8
      BY <3>1 DEF RiskOfScope
    <3> HIDE DEF w
    <3> QED
      BY <1>1, <1>3, <2>4, <2>5, <3>1, <3>2, <3>3 DEF Escalates, Level, Scope, w
  <2> QED
    BY <2>2, <2>6 DEF Settled
<1> QED
  BY <1>2, <1>3

-----------------------------------------------------------------------------
\* The steps.

LEMMA InitInv == Init => IInv
<1> SUFFICES ASSUME Init PROVE IInv
  OBVIOUS
<1>1. PICK s \in Setting : /\ profile = s.profile /\ baseline = s.baseline
                           /\ request = s.request /\ arrived = s.request
  BY DEF Init
<1>2. ShapeInv
  BY <1>1, DecisionsAssumption DEF Init, ShapeInv, Asked, NotSettled, Settled, Open
<1>3. AgreeInv /\ ParkInv
  BY DEF Init, AgreeInv, ParkInv, SupervisorAgrees, Open
<1> QED
  BY <1>2, <1>3 DEF IInv

LEMMA ContextRests ==
  ASSUME UNCHANGED <<profile, request>>
  PROVE  PolicyContext(request)' = PolicyContext(request)
BY DEF PolicyContext

LEMMA WeighedRests ==
  ASSUME UNCHANGED <<profile, request, outcome>>
  PROVE  Weighed' <=> Weighed
BY ContextRests DEF Weighed

\* Nothing is open: there is nothing to agree on yet.
LEMMA NothingOpen ==
  ASSUME pc' \notin Open, pc' # "acted"
  PROVE  AgreeInv' /\ ParkInv'
BY DEF AgreeInv, ParkInv, SupervisorAgrees, Open

\* Something has just been settled.
LEMMA JustSettled ==
  ASSUME pc' = "settled", (request.surface = "routing")' => Weighed'
  PROVE  AgreeInv' /\ ParkInv'
BY DEF AgreeInv, ParkInv, SupervisorAgrees, Open

LEMMA HumanWeighs ==
  ASSUME UNCHANGED <<profile, request>>, outcome' = ToHuman PROVE Weighed'
BY DEF Weighed, ToHuman, Settled, HumanVerdict, Verdict, Escalates

LEMMA AskInv == ASSUME IInv, Ask PROVE IInv'
<1>1. UNCHANGED <<profile, baseline, log, arrived>>
  BY DEF Ask, config
<1>2. CASE ~ engine
  <2>1. request' = arrived /\ pc' = "tier0" /\ outcome' = NotSettled
    BY <1>2 DEF Ask
  <2>2. ShapeInv'
    BY <1>1, <2>1 DEF IInv, ShapeInv, NotSettled, Settled, Open, Asked
  <2> QED
    BY <2>1, <2>2, NothingOpen DEF IInv, Open
<1>3. CASE engine
  <2> DEFINE v == IF arrived.surface = "permission" THEN EvaluatePermission(rules, arrived)
                  ELSE EvaluateRouting(profile, baseline, arrived)
  <2>1. request' = Enriched(arrived, v) /\ request'.surface = arrived.surface
    <3>1. request' = Enriched(arrived, v)
      BY <1>3 DEF Ask
    <3> HIDE DEF v
    <3> QED
      BY <3>1 DEF Enriched, IInv, ShapeInv, Asked
  <2>2. CASE v.outcome = "route"
    <3>1. pc' = "tier0" /\ outcome' = NotSettled
      BY <1>3, <2>2 DEF Ask
    <3>2. ShapeInv'
      BY <1>1, <2>1, <3>1 DEF IInv, ShapeInv, NotSettled, Settled, Open, Asked
    <3> QED
      BY <3>1, <3>2, NothingOpen DEF IInv, Open
  <2>3. CASE v.outcome # "route"
    <3>1. pc' = "settled" /\ outcome' = SettledByPolicy(arrived, v)
      BY <1>3, <2>3 DEF Ask
    <3>2. SettledByPolicy(arrived, v).tier \in 0..3
      <4>1. CASE arrived.surface = "permission"
        <5>1. v.outcome \in {"permit", "stop"}
          BY <2>3, <4>1 DEF EvaluatePermission, PolicyVerdict, StaticRule
        <5> QED
          BY <4>1, <5>1 DEF SettledByPolicy, Settled, ToHuman
      <4>2. CASE arrived.surface # "permission"
        <5>1. v.outcome \in {"permit", "stop"}
          BY <2>3, <4>2 DEF EvaluateRouting, PolicyVerdict
        <5> QED
          BY <4>2, <5>1 DEF SettledByPolicy, Settled, ToHuman
      <4> QED
        BY <4>1, <4>2
    <3>3. ShapeInv'
      BY <1>1, <2>1, <3>1, <3>2 DEF IInv, ShapeInv, Open, Asked
    <3>4. (request.surface = "routing")' => Weighed'
      <4>1. SUFFICES ASSUME arrived.surface = "routing" PROVE Weighed'
        BY <2>1
      <4>2. v = EvaluateRouting(profile, baseline, arrived)
        BY <4>1
      <4>3. LET settled == SettledByPolicy(arrived, v) IN
            settled.tier = 3 <=> Escalates(PolicyContext(Enriched(arrived, v)), settled.verdict)
        BY <2>3, <4>1, <4>2, EngineWeighs DEF IInv, ShapeInv
      <4>4. PolicyContext(request)' = PolicyContext(Enriched(arrived, v))
        BY <1>1, <2>1 DEF PolicyContext
      <4> QED
        BY <3>1, <4>3, <4>4 DEF Weighed
    <3> QED
      BY <3>1, <3>3, <3>4, JustSettled DEF IInv
  <2> QED
    BY <2>2, <2>3
<1> QED
  BY <1>2, <1>3

LEMMA Tier0PermissionInv == ASSUME IInv, Tier0Permission PROVE IInv'
<1>1. /\ UNCHANGED <<profile, baseline, request, log, arrived>>
      /\ pc' = "settled" /\ outcome' = PermissionOutcome(request) /\ request.surface = "permission"
  BY DEF Tier0Permission, config
<1>2. PermissionOutcome(request).tier \in 0..3
  BY DEF PermissionOutcome, Settled, ToHuman
<1>3. ShapeInv'
  BY <1>1, <1>2 DEF IInv, ShapeInv, Asked
<1> QED
  BY <1>1, <1>3, JustSettled DEF IInv

LEMMA Tier0RoutingInv == ASSUME IInv, Tier0Routing PROVE IInv'
<1> DEFINE p == PolicyContext(request)
<1>1. UNCHANGED <<profile, baseline, request, log, arrived>>
  BY DEF Tier0Routing, config
<1>2. \/ outcome' = ToHuman /\ pc' = "settled"
      \/ /\ outcome' = Settled(0, Verdict("decision", FirstOption(request), 8, 2))
         /\ pc' = "settled" /\ p.level = "delegate" /\ p.scope = "local"
      \/ outcome' = NotSettled /\ pc' = "tier1"
  BY DEF Tier0Routing
<1>3. ShapeInv'
  BY <1>1, <1>2 DEF IInv, ShapeInv, Asked, Settled, ToHuman, NotSettled, Open
<1>4. CASE outcome' = ToHuman /\ pc' = "settled"
  BY <1>1, <1>3, <1>4, HumanWeighs, JustSettled DEF IInv
<1>5. CASE /\ outcome' = Settled(0, Verdict("decision", FirstOption(request), 8, 2))
           /\ pc' = "settled" /\ p.level = "delegate" /\ p.scope = "local"
  <2>1. ~ Escalates(p, Verdict("decision", FirstOption(request), 8, 2))
    BY <1>5 DEF Escalates, Verdict
  <2>2. Weighed'
    BY <1>1, <1>5, <2>1, ContextRests DEF Weighed, Settled
  <2> QED
    BY <1>3, <1>5, <2>2, JustSettled DEF IInv
<1>6. CASE outcome' = NotSettled /\ pc' = "tier1"
  BY <1>3, <1>6, NothingOpen DEF IInv, Open
<1> QED
  BY <1>2, <1>4, <1>5, <1>6

\* What a model or an investigation says is weighed by the same threshold.
LEMMA JudgedInv ==
  ASSUME IInv, NEW t \in {1, 2}, NEW v \in ModelVerdict \cup {HumanVerdict}, Judged(t, v),
         UNCHANGED <<profile, baseline, request, arrived>>
  PROVE  IInv'
<1>1. pc' = "settled" /\ log' \in Seq(0..3) /\ (log' = log \/ log' = Append(log, 2))
  <2>1. pc' = "settled" /\ (log' = log \/ log' = Append(log, 2))
    BY DEF Judged
  <2>2. log \in Seq(0..3) /\ 2 \in 0..3
    BY DEF IInv, ShapeInv
  <2> QED
    BY <2>1, <2>2
<1>2. CASE Escalates(PolicyContext(request), v)
  <2>1. outcome' = Settled(3, [v EXCEPT !.type = "human", !.block = TRUE])
    BY <1>2 DEF Judged
  <2>2. [v EXCEPT !.type = "human", !.block = TRUE].type = "human"
    BY DEF ModelVerdict, HumanVerdict
  <2>3. outcome'.tier = 3 /\ outcome'.verdict.type = "human"
    BY <2>1, <2>2 DEF Settled
  <2>4. Weighed'
    BY <2>3 DEF Weighed, Escalates
  <2>5. ShapeInv'
    BY <1>1, <2>3 DEF IInv, ShapeInv, Asked
  <2> QED
    BY <1>1, <2>4, <2>5, JustSettled DEF IInv, ShapeInv
<1>3. CASE ~ Escalates(PolicyContext(request), v)
  <2>1. outcome' = Settled(t, v)
    BY <1>3 DEF Judged
  <2>2. outcome'.tier = t /\ outcome'.verdict = v
    BY <2>1 DEF Settled
  <2>3. Weighed'
    BY <1>3, <2>2, ContextRests DEF Weighed
  <2>4. ShapeInv'
    BY <1>1, <2>2 DEF IInv, ShapeInv, Asked
  <2> QED
    BY <1>1, <2>3, <2>4, JustSettled DEF IInv, ShapeInv
<1> QED
  BY <1>2, <1>3

LEMMA ModelAnswersInv == ASSUME IInv, ModelAnswers PROVE IInv'
<1>1. UNCHANGED <<profile, baseline, request, arrived>>
  BY DEF ModelAnswers, config
<1>2. CASE pc' = "tier2" /\ UNCHANGED <<outcome, log>>
  <2>1. ShapeInv'
    BY <1>1, <1>2 DEF IInv, ShapeInv, Asked, Open
  <2> QED
    BY <1>2, <2>1, NothingOpen DEF IInv, Open
<1>3. CASE \E v \in ModelVerdict : Judged(1, v)
  BY <1>1, <1>3, JudgedInv
<1> QED
  BY <1>2, <1>3 DEF ModelAnswers

LEMMA InvestigationInv ==
  ASSUME IInv, InvestigationAnswers \/ InvestigationRunsOut
  PROVE  IInv'
<1>1. UNCHANGED <<profile, baseline, request, arrived>>
  BY DEF InvestigationAnswers, InvestigationRunsOut, config
<1>2. \E v \in ModelVerdict \cup {HumanVerdict} : Judged(2, v)
  BY DEF InvestigationAnswers, InvestigationRunsOut
<1> QED
  BY <1>1, <1>2, JudgedInv

\* Steps after which nothing is open, or that leave all that matters alone.
LEMMA QuietInv ==
  ASSUME IInv, UNCHANGED <<profile, baseline, request, log, arrived>>,
         pc' \notin Open, pc' # "acted", outcome' = outcome \/ outcome' = NotSettled
  PROVE  IInv'
<1>1. ShapeInv'
  BY DEF IInv, ShapeInv, Asked, NotSettled, Settled
<1> QED
  BY <1>1, NothingOpen DEF IInv

LEMMA ParkStepInv == ASSUME IInv, Park PROVE IInv'
<1>1. /\ UNCHANGED <<profile, baseline, request, outcome, log, arrived, action>>
      /\ pc = "settled" /\ outcome.tier = 3 /\ node' = "awaiting-human" /\ pc' = "parked"
  BY DEF Park, config
<1>2. ShapeInv'
  BY <1>1 DEF IInv, ShapeInv, Asked
<1>3. AgreeInv'
  BY <1>1, WeighedRests DEF IInv, AgreeInv, SupervisorAgrees, Open
<1> QED
  BY <1>1, <1>2, <1>3 DEF IInv, ParkInv

LEMMA RecordStepInv == ASSUME IInv, Record PROVE IInv'
<1>1. /\ UNCHANGED <<profile, baseline, request, outcome, node, arrived, action>>
      /\ pc \in Open /\ (pc = "settled" => outcome.tier # 3) /\ pc' = "recorded"
      /\ log' = Append(log, outcome.tier)
  BY DEF Record, Recordable, config, Open
<1>2. ShapeInv'
  BY <1>1 DEF IInv, ShapeInv, Asked
<1>3. AgreeInv'
  BY <1>1, WeighedRests DEF IInv, AgreeInv, SupervisorAgrees, Open
<1>4. ParkInv'
  BY <1>1 DEF IInv, ParkInv, Open
<1> QED
  BY <1>2, <1>3, <1>4 DEF IInv

LEMMA NotifyInv == ASSUME IInv, Notify PROVE IInv'
<1>1. UNCHANGED <<profile, baseline, request, pc, outcome, node, log, arrived, action>>
  BY DEF Notify, config
<1>2. ShapeInv' /\ ParkInv'
  BY <1>1 DEF IInv, ShapeInv, Asked, ParkInv
<1>3. AgreeInv'
  BY <1>1, WeighedRests DEF IInv, AgreeInv, SupervisorAgrees, Open
<1> QED
  BY <1>2, <1>3 DEF IInv

\* The supervisor's own weighing of a child's question.
LEMMA ActInv == ASSUME IInv, Act PROVE IInv'
<1>1. /\ UNCHANGED <<profile, baseline, request, outcome, arrived>>
      /\ pc = "recorded" /\ pc' = "acted"
      /\ log' = log \o IF request.surface = "routing" THEN <<outcome.tier, outcome.tier>>
                       ELSE <<outcome.tier>>
  BY DEF Act, config
<1>2. outcome.tier \in 0..3 /\ log \in Seq(0..3)
  BY <1>1 DEF IInv, ShapeInv, Open
<1>3. log' \in Seq(0..3)
  <2>1. <<outcome.tier, outcome.tier>> \in Seq(0..3) /\ <<outcome.tier>> \in Seq(0..3)
    BY <1>2
  <2>2. CASE request.surface = "routing"
    <3>1. log' = log \o <<outcome.tier, outcome.tier>>
      BY <1>1, <2>2
    <3> QED
      BY <1>2, <2>1, <3>1
  <2>3. CASE request.surface # "routing"
    <3>1. log' = log \o <<outcome.tier>>
      BY <1>1, <2>3
    <3> QED
      BY <1>2, <2>1, <3>1
  <2> QED
    BY <2>2, <2>3
<1>4. ShapeInv'
  BY <1>1, <1>2, <1>3 DEF IInv, ShapeInv, Asked
<1>5. SupervisorAgrees'
  <2>1. SUFFICES ASSUME request.surface = "routing"
                 PROVE  (outcome.tier = 3 <=> action = "await-human")'
    BY <1>1 DEF SupervisorAgrees
  <2>2. action' = SelectDecisionAction(request, outcome.verdict)
    BY <2>1 DEF Act
  <2>3. Weighed
    BY <1>1, <2>1 DEF IInv, AgreeInv, Open
  <2> QED
    BY <1>1, <2>2, <2>3 DEF SelectDecisionAction, Weighed
<1> QED
  BY <1>1, <1>4, <1>5 DEF IInv, AgreeInv, ParkInv, Open

\* One step after another, and what does not happen.
LEMMA NextInv == IInv /\ [Next]_vars => IInv'
<1> SUFFICES ASSUME IInv, [Next]_vars PROVE IInv'
  OBVIOUS
<1>1. CASE ModelFails \/ InvestigationFails
  <2>1. /\ UNCHANGED <<profile, baseline, request, log, arrived, outcome>>
        /\ pc' = "rejected"
    BY <1>1 DEF ModelFails, InvestigationFails, config
  <2> QED
    BY <2>1, QuietInv DEF Open
<1>2. CASE InvestigationGoesOn
  <2>1. /\ UNCHANGED <<profile, baseline, request, log, arrived, outcome>>
        /\ pc' = "tier2"
    BY <1>2 DEF InvestigationGoesOn, config
  <2> QED
    BY <2>1, QuietInv DEF Open
<1>3. CASE NextQuestion
  <2>1. /\ UNCHANGED <<profile, baseline, request, log, arrived, outcome>>
        /\ pc' = "idle"
    BY <1>3 DEF NextQuestion, config
  <2> QED
    BY <2>1, QuietInv DEF Open
<1>4. CASE Restart
  <2>1. /\ UNCHANGED <<profile, baseline, request, log, arrived>>
        /\ pc' = "idle" /\ outcome' = NotSettled
    BY <1>4 DEF Restart, config
  <2> QED
    BY <2>1, QuietInv DEF Open
<1>5. CASE UNCHANGED vars
  <2>1. UNCHANGED <<profile, baseline, request, pc, outcome, node, log, arrived, action>>
    BY <1>5 DEF vars, config
  <2>2. ShapeInv' /\ ParkInv'
    BY <2>1 DEF IInv, ShapeInv, Asked, ParkInv
  <2>3. AgreeInv'
    BY <2>1, WeighedRests DEF IInv, AgreeInv, SupervisorAgrees, Open
  <2> QED
    BY <2>2, <2>3 DEF IInv
<1> QED
  BY <1>1, <1>2, <1>3, <1>4, <1>5, AskInv, Tier0PermissionInv, Tier0RoutingInv,
     ModelAnswersInv, InvestigationInv, ParkStepInv, RecordStepInv, NotifyInv, ActInv
  DEF Next, Provide

\* Whatever the requests, profiles and rules, whatever the models answer and
\* wherever the process dies: requests keep their shape, what is settled has a
\* tier, provider and supervisor weigh alike, tier 3 waits for a person.
THEOREM Invariant == Spec => []IInv
BY InitInv, NextInv, PTL DEF Spec

\* The provider that settles a child's question and the supervisor that makes
\* an action of it agree on whether a person is needed (selectDecisionAction
\* weighs the record a second time, on the request as the engine enriched it).
THEOREM ProviderAndSupervisorAgree == Spec => []SupervisorAgrees
<1>1. IInv => SupervisorAgrees
  BY DEF IInv, AgreeInv
<1> QED
  BY <1>1, Invariant, PTL

-----------------------------------------------------------------------------
\* Order of writes.

\* What a step appends to the log.
LEMMA Appends ==
  ASSUME IInv, [Next]_vars
  PROVE  \/ log' = log
         \/ log' = Append(log, 2)
         \/ Record /\ log' = Append(log, outcome.tier)
         \/ Act /\ (\/ log' = Append(log, outcome.tier)
                    \/ log' = log \o <<outcome.tier, outcome.tier>>)
<1>1. CASE ModelAnswers \/ InvestigationAnswers \/ InvestigationRunsOut
  BY <1>1 DEF ModelAnswers, InvestigationAnswers, InvestigationRunsOut, Judged
<1>2. CASE Act
  <2>1. log \in Seq(0..3) /\ outcome.tier \in 0..3
    BY <1>2 DEF Act, IInv, ShapeInv, Open
  <2>2. log \o <<outcome.tier>> = Append(log, outcome.tier)
    BY <2>1
  <2> QED
    BY <1>2, <2>2 DEF Act
<1>3. CASE Record
  BY <1>3 DEF Record
<1>4. CASE \/ Ask \/ Tier0Permission \/ Tier0Routing \/ ModelFails \/ InvestigationGoesOn
           \/ InvestigationFails \/ Park \/ Notify \/ NextQuestion \/ Restart \/ UNCHANGED vars
  BY <1>4 DEF Ask, Tier0Permission, Tier0Routing, ModelFails, InvestigationGoesOn,
              InvestigationFails, Park, Notify, NextQuestion, Restart, vars
<1> QED
  BY <1>1, <1>2, <1>3, <1>4 DEF Next, Provide

\* A tier-3 decision enters the log only when the node is parked on disk,
\* wherever the process is killed (resolve parks, records, notifies).
THEOREM ParkedFirst == Spec => ParkedBeforeRecorded
<1>1. ASSUME IInv, [Next]_vars, Len(log') > Len(log), log'[Len(log')] = 3
      PROVE  node' = "awaiting-human"
  <2>1. log \in Seq(0..3)
    BY <1>1 DEF IInv, ShapeInv
  <2>2. CASE Record /\ log' = Append(log, outcome.tier)
    <3>1. outcome.tier = 3
      BY <1>1, <2>1, <2>2
    <3>2. pc = "parked" /\ UNCHANGED node
      BY <2>2, <3>1 DEF Record, Recordable
    <3> QED
      BY <1>1, <3>1, <3>2 DEF IInv, ParkInv
  <2>3. CASE Act /\ (\/ log' = Append(log, outcome.tier)
                    \/ log' = log \o <<outcome.tier, outcome.tier>>)
    <3>1. pc = "recorded" /\ (node' = "awaiting-human" \/ node' = node)
      BY <2>3 DEF Act
    <3>2. outcome.tier \in 0..3
      BY <1>1, <3>1 DEF IInv, ShapeInv, Open
    <3>3. outcome.tier = 3
      <4>1. CASE log' = Append(log, outcome.tier)
        BY <1>1, <2>1, <4>1
      <4>2. CASE log' = log \o <<outcome.tier, outcome.tier>>
        BY <1>1, <2>1, <3>2, <4>2
      <4> QED
        BY <2>3, <4>1, <4>2
    <3> QED
      BY <1>1, <3>1, <3>3 DEF IInv, ParkInv
  <2>4. CASE log' = Append(log, 2)
    BY <1>1, <2>1, <2>4
  <2>5. log' # log
    BY <1>1
  <2> QED
    BY <1>1, <2>2, <2>3, <2>4, <2>5, Appends
<1>2. IInv /\ [Next]_vars => [Len(log') > Len(log) /\ log'[Len(log')] = 3
                              => node' = "awaiting-human"]_vars
  BY <1>1
<1> QED
  BY <1>2, Invariant, PTL DEF Spec, ParkedBeforeRecorded

\* An investigation that ends, with a verdict, an exit, an answer that is not a
\* verdict or too many events, has its session disposed of: only the death of
\* the process takes the session along (the finally of runTier2Investigation).
THEOREM InvestigationsEndDisposed == Spec => SessionsAreDisposed
<1>1. ASSUME [Next]_vars, pc = "tier2", pc' \notin {"tier2", "idle"}
      PROVE  session' = "disposed"
  <2>1. CASE InvestigationAnswers \/ InvestigationFails \/ InvestigationRunsOut
    BY <2>1 DEF InvestigationAnswers, InvestigationFails, InvestigationRunsOut, EndSession
  <2>2. CASE InvestigationGoesOn \/ Restart \/ UNCHANGED vars
    BY <1>1, <2>2 DEF InvestigationGoesOn, Restart, vars
  <2> QED
    BY <1>1, <2>1, <2>2 DEF Next, Provide, Ask, Tier0Permission, Tier0Routing, ModelAnswers,
       ModelFails, Park, Record, Recordable, Notify, Act, NextQuestion
<1>2. [Next]_vars => [pc = "tier2" /\ pc' \notin {"tier2", "idle"} => session' = "disposed"]_vars
  BY <1>1
<1> QED
  BY <1>2, PTL DEF Spec, SessionsAreDisposed
-----------------------------------------------------------------------------
\* Patterns.

\* Of some numbers one is the least.
LEMMA LeastOfAll ==
  ASSUME NEW S, S \subseteq Nat, S # {}
  PROVE  \E i \in S : \A j \in S : i <= j
<1>1. PICK i \in S : \A j \in S : <<j, i>> \notin OpToRel(<, Nat)
  BY WFMin, NatLessThanWellFounded, Zenon
<1>2. \A j \in S : ~ (j < i)
  BY <1>1 DEF OpToRel
<1> QED
  BY <1>2

\* indexOf finds an occurrence, and none is before it.
LEMMA FirstOccurrence ==
  ASSUME NEW seg, NEW v, NEW from \in Nat, Len(seg) \in Nat, Len(v) \in Nat,
         Occurrences(seg, v, from) # {}
  PROVE  /\ IndexOf(seg, v, from) \in Occurrences(seg, v, from)
         /\ \A j \in Occurrences(seg, v, from) : IndexOf(seg, v, from) <= j
<1>1. Occurrences(seg, v, from) \subseteq Nat
  BY DEF Occurrences
<1>2. \E i \in Occurrences(seg, v, from) : \A j \in Occurrences(seg, v, from) : i <= j
  BY <1>1, LeastOfAll
<1> QED
  BY <1>2 DEF IndexOf

\* What the segments of a pattern are.
LEMMA Segments ==
  ASSUME NEW p \in Pattern
  PROVE  /\ Len(p) \in Nat \ {0} /\ DOMAIN p = 1..Len(p)
         /\ \A k \in DOMAIN p : p[k] \in Seq(Character) /\ Len(p[k]) \in Nat
BY DEF Pattern

\* A text that begins with a segment, as the scan and as the meaning has it.
LEMMA BeginsWith ==
  ASSUME NEW seg \in Seq(Character), NEW v \in Seq(Character)
  PROVE  IsPrefix(seg, v) <=> Len(seg) <= Len(v) /\ OccursAt(seg, v, 0)
BY DEF IsPrefix, OccursAt

\* A segment that is as long as the text and occurs in it is the text.
LEMMA WholeText ==
  ASSUME NEW seg \in Seq(Character), NEW v \in Seq(Character)
  PROVE  Len(seg) = Len(v) /\ OccursAt(seg, v, 0) <=> seg = v
BY DEF OccursAt

LEMMA PlainPattern ==
  ASSUME NEW p \in Pattern, NEW v \in Seq(Character), ~ HasStar(p)
  PROVE  WildcardMatches(p, v) <=> Names(p, v)
<1>1. Len(p) = 1 /\ DOMAIN p = {1} /\ p[1] \in Seq(Character) /\ p = <<p[1]>>
  <2>1. Len(p) = 1
    <3>1. Len(p) \in Nat /\ Len(p) # 0
      BY Segments
    <3>2. ~ (Len(p) > 1)
      BY DEF HasStar
    <3>3. \A n \in Nat : n # 0 /\ ~ (n > 1) => n = 1
      OBVIOUS
    <3> QED
      BY <3>1, <3>2, <3>3, Zenon
  <2>3. DOMAIN p = 1..1 /\ 1 \in 1..1
    BY <2>1, Segments
  <2>4. p[1] \in Seq(Character)
    BY <2>3, Segments
  <2>2. p \in Seq(Seq(Character))
    BY DEF Pattern
  <2> QED
    BY <2>1, <2>2, <2>3, <2>4
<1>2. Len(v) \in Nat
  OBVIOUS
<1>3. Names(p, v) => p[1] = v
  <2> SUFFICES ASSUME Names(p, v) PROVE p[1] = v
    OBVIOUS
  <2>1. PICK cut \in [DOMAIN p -> 0..Len(v)] :
          /\ cut[1] = 0
          /\ \A i \in DOMAIN p : cut[i] + Len(p[i]) <= Len(v) /\ OccursAt(p[i], v, cut[i])
          /\ cut[Len(p)] + Len(p[Len(p)]) = Len(v)
    BY DEF Names
  <2>2. OccursAt(p[1], v, 0) /\ Len(p[1]) = Len(v)
    BY <1>1, <2>1
  <2> QED
    BY <1>1, <2>2, WholeText
<1>4. p[1] = v => Names(p, v)
  <2> SUFFICES ASSUME p[1] = v PROVE Names(p, v)
    OBVIOUS
  <2> DEFINE cut == [i \in DOMAIN p |-> 0]
  <2>1. OccursAt(p[1], v, 0) /\ Len(p[1]) = Len(v)
    BY <1>1, WholeText
  <2>2. cut \in [DOMAIN p -> 0..Len(v)]
    BY <1>2
  <2>3. /\ cut[1] = 0
        /\ \A i \in DOMAIN p : cut[i] + Len(p[i]) <= Len(v) /\ OccursAt(p[i], v, cut[i])
        /\ \A i \in DOMAIN p \ {1} : cut[i - 1] + Len(p[i - 1]) <= cut[i]
        /\ cut[Len(p)] + Len(p[Len(p)]) = Len(v)
    BY <1>1, <1>2, <2>1
  <2> HIDE DEF cut
  <2> QED
    BY <2>2, <2>3 DEF Names
<1>5. WildcardMatches(p, v) <=> p[1] = v
  BY <1>1 DEF WildcardMatches
<1> QED
  BY <1>3, <1>4, <1>5

\* Where the scan ends and the last segment is at the end, the text is cut there.
LEMMA ScanCuts ==
  ASSUME NEW p \in Pattern, NEW v \in Seq(Character), HasStar(p), NEW at \in Scan(p, v),
         EndsWith(v, p[Len(p)])
  PROVE  Names(p, v)
<1> DEFINE n == Len(p)
           cut == [i \in DOMAIN p |-> IF i = n THEN Len(v) - Len(p[n]) ELSE at[i] - Len(p[i])]
<1>1. /\ n \in Nat /\ n > 1 /\ DOMAIN p = 1..n /\ Len(v) \in Nat
      /\ \A k \in DOMAIN p : p[k] \in Seq(Character) /\ Len(p[k]) \in Nat
  BY Segments DEF HasStar
<1>2. /\ at \in [DOMAIN p -> 0..Len(v)] /\ IsPrefix(p[1], v) /\ at[1] = Len(p[1])
      /\ \A k \in DOMAIN p \ {1} :
           /\ Occurrences(p[k], v, at[k - 1]) # {}
           /\ at[k] = IndexOf(p[k], v, at[k - 1]) + Len(p[k])
  BY DEF Scan
<1>3. Len(p[n]) <= Len(v) /\ OccursAt(p[n], v, Len(v) - Len(p[n]))
  BY DEF EndsWith
<1> HIDE DEF n
<1>4. Len(p[1]) <= Len(v) /\ OccursAt(p[1], v, 0)
  BY <1>1, <1>2, BeginsWith
<1>5. \A k \in DOMAIN p \ {1} : at[k] - Len(p[k]) \in Occurrences(p[k], v, at[k - 1])
  <2> SUFFICES ASSUME NEW k \in DOMAIN p \ {1}
               PROVE  at[k] - Len(p[k]) \in Occurrences(p[k], v, at[k - 1])
    OBVIOUS
  <2> DEFINE i == IndexOf(p[k], v, at[k - 1])
  <2>1. k - 1 \in DOMAIN p /\ at[k - 1] \in Nat
    BY <1>1, <1>2
  <2>2. i \in Occurrences(p[k], v, at[k - 1]) /\ at[k] = i + Len(p[k])
    BY <1>1, <1>2, <2>1, FirstOccurrence
  <2>3. i \in Int
    BY <1>1, <2>1, <2>2 DEF Occurrences
  <2> HIDE DEF i
  <2>4. at[k] - Len(p[k]) = i
    BY <1>1, <2>2, <2>3
  <2> QED
    BY <2>2, <2>4
<1>6. \A k \in DOMAIN p \ {1} :
        /\ at[k - 1] \in 0..Len(v) /\ at[k] - Len(p[k]) \in at[k - 1]..(Len(v) - Len(p[k]))
        /\ OccursAt(p[k], v, at[k] - Len(p[k]))
  BY <1>1, <1>2, <1>5 DEF Occurrences
<1>7. \A k \in DOMAIN p : cut[k] \in 0..Len(v) /\ cut[k] + Len(p[k]) <= Len(v)
                          /\ OccursAt(p[k], v, cut[k])
  <2> SUFFICES ASSUME NEW k \in DOMAIN p
               PROVE  cut[k] \in 0..Len(v) /\ cut[k] + Len(p[k]) <= Len(v)
                      /\ OccursAt(p[k], v, cut[k])
    OBVIOUS
  <2>1. CASE k = n
    BY <1>1, <1>3, <2>1
  <2>2. CASE k # n /\ k = 1
    <3>1. cut[k] = 0
      BY <1>1, <1>2, <2>2
    <3> QED
      BY <1>1, <1>4, <2>2, <3>1
  <2>3. CASE k # n /\ k # 1
    <3>1. cut[k] = at[k] - Len(p[k])
      BY <2>3
    <3> QED
      BY <1>1, <1>6, <2>3, <3>1
  <2> QED
    BY <2>1, <2>2, <2>3
<1>8. \A k \in DOMAIN p \ {1} : cut[k - 1] + Len(p[k - 1]) <= cut[k]
  <2> SUFFICES ASSUME NEW k \in DOMAIN p \ {1}
               PROVE  cut[k - 1] + Len(p[k - 1]) <= cut[k]
    OBVIOUS
  <2>1. k - 1 \in DOMAIN p /\ k - 1 # n /\ at[k - 1] \in Nat
    BY <1>1, <1>2
  <2>2. cut[k - 1] + Len(p[k - 1]) = at[k - 1]
    BY <1>1, <2>1
  <2>3. at[k - 1] <= cut[k]
    BY <1>1, <1>6, <2>1
  <2> QED
    BY <2>2, <2>3
<1>9. cut[1] = 0 /\ cut[n] + Len(p[n]) = Len(v)
  BY <1>1, <1>2
<1>10. cut \in [DOMAIN p -> 0..Len(v)]
  BY <1>7
<1> HIDE DEF cut
<1> QED
  BY <1>7, <1>8, <1>9, <1>10 DEF Names, n

\* A text that is cut into the segments is scanned: the scan is never behind.
Ahead(p, v, cut, k) ==
  {at \in [1..k -> 0..Len(v)] :
     /\ at[1] = Len(p[1])
     /\ \A j \in 2..k : /\ Occurrences(p[j], v, at[j - 1]) # {}
                        /\ at[j] = IndexOf(p[j], v, at[j - 1]) + Len(p[j])
     /\ \A j \in 1..k : at[j] <= cut[j] + Len(p[j])}

LEMMA ScanStepsAhead ==
  ASSUME NEW p \in Pattern, NEW v \in Seq(Character), NEW cut \in [DOMAIN p -> 0..Len(v)],
         \A i \in DOMAIN p : cut[i] + Len(p[i]) <= Len(v) /\ OccursAt(p[i], v, cut[i]),
         \A i \in DOMAIN p \ {1} : cut[i - 1] + Len(p[i - 1]) <= cut[i],
         NEW k \in 2..Len(p), NEW at \in Ahead(p, v, cut, k - 1)
  PROVE  Ahead(p, v, cut, k) # {}
<1> DEFINE i == IndexOf(p[k], v, at[k - 1])
           found == [j \in 1..k |-> IF j = k THEN i + Len(p[k]) ELSE at[j]]
<1>1. /\ k \in DOMAIN p /\ k - 1 \in DOMAIN p /\ Len(v) \in Nat /\ k \in Nat /\ k # 1
      /\ Len(p[k]) \in Nat /\ cut[k] \in Nat /\ cut[k - 1] + Len(p[k - 1]) <= cut[k]
      /\ cut[k] + Len(p[k]) <= Len(v) /\ OccursAt(p[k], v, cut[k])
  <2>1. k \in DOMAIN p /\ k - 1 \in DOMAIN p /\ k \in Nat /\ k # 1 /\ Len(p[k]) \in Nat
    BY Segments
  <2>2. Len(v) \in Nat /\ cut[k] \in 0..Len(v)
    BY <2>1
  <2> QED
    BY <2>1, <2>2
<1>2. /\ at \in [1 .. k - 1 -> 0..Len(v)] /\ at[1] = Len(p[1])
      /\ \A j \in 2 .. k - 1 : /\ Occurrences(p[j], v, at[j - 1]) # {}
                               /\ at[j] = IndexOf(p[j], v, at[j - 1]) + Len(p[j])
      /\ \A j \in 1 .. k - 1 : at[j] <= cut[j] + Len(p[j])
  BY DEF Ahead
<1>3. at[k - 1] \in Nat /\ at[k - 1] <= cut[k]
  <2>1. k - 1 \in 1 .. k - 1
    BY <1>1
  <2>2. at[k - 1] <= cut[k - 1] + Len(p[k - 1]) /\ at[k - 1] \in 0..Len(v)
    BY <1>2, <2>1
  <2>3. cut[k - 1] + Len(p[k - 1]) \in Nat
    BY <1>1, Segments
  <2> QED
    BY <1>1, <2>2, <2>3
<1>4. cut[k] \in Occurrences(p[k], v, at[k - 1])
  BY <1>1, <1>3 DEF Occurrences
<1>5. i \in Occurrences(p[k], v, at[k - 1]) /\ i <= cut[k]
  BY <1>1, <1>3, <1>4, FirstOccurrence
<1>6. i \in at[k - 1]..(Len(v) - Len(p[k]))
  BY <1>5 DEF Occurrences
<1> HIDE DEF i
<1>10. i \in Nat /\ i + Len(p[k]) <= cut[k] + Len(p[k]) /\ i + Len(p[k]) \in 0..Len(v)
  BY <1>1, <1>3, <1>5, <1>6
<1>7. found \in [1..k -> 0..Len(v)] /\ found[1] = Len(p[1])
  <2>1. 1 \in 1 .. k - 1 /\ \A j \in 1..k : j = k \/ j \in 1 .. k - 1
    BY <1>1
  <2>2. \A j \in 1..k : found[j] \in 0..Len(v)
    BY <1>2, <1>10, <2>1
  <2>3. found[1] = Len(p[1])
    BY <1>1, <1>2, <2>1
  <2> QED
    BY <2>2, <2>3
<1>8. \A j \in 2..k : /\ Occurrences(p[j], v, found[j - 1]) # {}
                      /\ found[j] = IndexOf(p[j], v, found[j - 1]) + Len(p[j])
  <2> SUFFICES ASSUME NEW j \in 2..k
               PROVE  /\ Occurrences(p[j], v, found[j - 1]) # {}
                      /\ found[j] = IndexOf(p[j], v, found[j - 1]) + Len(p[j])
    OBVIOUS
  <2>1. found[j - 1] = at[j - 1]
    BY <1>1
  <2>2. CASE j = k
    BY <1>4, <2>1, <2>2 DEF i
  <2>3. CASE j # k
    <3>1. j \in 2 .. k - 1 /\ found[j] = at[j]
      BY <1>1, <2>3
    <3> QED
      BY <1>2, <2>1, <3>1
  <2> QED
    BY <2>2, <2>3
<1>9. \A j \in 1..k : found[j] <= cut[j] + Len(p[j])
  <2> SUFFICES ASSUME NEW j \in 1..k PROVE found[j] <= cut[j] + Len(p[j])
    OBVIOUS
  <2>1. CASE j = k
    BY <1>10, <2>1
  <2>2. CASE j # k
    <3>1. j \in 1 .. k - 1 /\ found[j] = at[j]
      BY <1>1, <2>2
    <3> QED
      BY <1>2, <3>1
  <2> QED
    BY <2>1, <2>2
<1> HIDE DEF found
<1>11. found \in Ahead(p, v, cut, k)
  BY <1>7, <1>8, <1>9 DEF Ahead
<1> QED
  BY <1>11

LEMMA CutsAreScanned ==
  ASSUME NEW p \in Pattern, NEW v \in Seq(Character), HasStar(p), Names(p, v)
  PROVE  Scan(p, v) # {} /\ EndsWith(v, p[Len(p)])
<1>1. PICK cut \in [DOMAIN p -> 0..Len(v)] :
        /\ cut[1] = 0
        /\ \A i \in DOMAIN p : cut[i] + Len(p[i]) <= Len(v) /\ OccursAt(p[i], v, cut[i])
        /\ \A i \in DOMAIN p \ {1} : cut[i - 1] + Len(p[i - 1]) <= cut[i]
        /\ cut[Len(p)] + Len(p[Len(p)]) = Len(v)
  BY DEF Names
<1>2. /\ Len(p) \in Nat /\ Len(p) > 1 /\ DOMAIN p = 1..Len(p) /\ Len(v) \in Nat
      /\ \A k \in DOMAIN p : p[k] \in Seq(Character) /\ Len(p[k]) \in Nat
  BY Segments DEF HasStar
<1>3. EndsWith(v, p[Len(p)])
  <2>1. Len(p) \in DOMAIN p
    BY <1>2
  <2>2. cut[Len(p)] = Len(v) - Len(p[Len(p)])
    <3>1. cut[Len(p)] \in 0..Len(v) /\ Len(p[Len(p)]) \in Nat
      BY <1>2, <2>1
    <3>2. cut[Len(p)] + Len(p[Len(p)]) = Len(v)
      BY <1>1
    <3>3. \A a, b, c \in Int : a + b = c => a = c - b
      OBVIOUS
    <3>4. cut[Len(p)] \in Int /\ Len(p[Len(p)]) \in Int /\ Len(v) \in Int
      BY <1>2, <3>1
    <3> QED
      BY <3>2, <3>3, <3>4, Zenon
  <2>3. OccursAt(p[Len(p)], v, Len(v) - Len(p[Len(p)]))
    BY <1>1, <2>1, <2>2
  <2>4. Len(p[Len(p)]) <= Len(v)
    BY <1>1, <1>2, <2>1
  <2> QED
    BY <2>3, <2>4 DEF EndsWith
<1>4. IsPrefix(p[1], v)
  BY <1>1, <1>2, BeginsWith
<1> DEFINE Behind == {k \in 1..Len(p) : Ahead(p, v, cut, k) = {}}
<1>5. Behind = {}
  <2> SUFFICES ASSUME Behind # {} PROVE FALSE
    OBVIOUS
  <2>1. PICK k \in Behind : \A j \in Behind : k <= j
    <3>1. Behind \subseteq Nat
      BY <1>2
    <3> HIDE DEF Behind
    <3> QED
      BY <3>1, LeastOfAll
  <2>2. k \in 1..Len(p) /\ Ahead(p, v, cut, k) = {}
    OBVIOUS
  <2>3. CASE k = 1
    <3> DEFINE at == [j \in 1..1 |-> Len(p[1])]
    <3>1. Len(p[1]) \in 0..Len(v) /\ Len(p[1]) <= cut[1] + Len(p[1])
      BY <1>1, <1>2
    <3>2. /\ at \in [1..1 -> 0..Len(v)] /\ at[1] = Len(p[1]) /\ 2..1 = {}
          /\ \A j \in 1..1 : at[j] <= cut[j] + Len(p[j])
      BY <3>1
    <3> HIDE DEF at
    <3>3. at \in Ahead(p, v, cut, 1)
      BY <3>2 DEF Ahead
    <3> QED
      BY <2>2, <2>3, <3>3
  <2>4. CASE k # 1
    <3>1. k \in 2..Len(p) /\ k - 1 \in 1..Len(p) /\ ~ (k <= k - 1)
      BY <1>2, <2>2, <2>4
    <3>2. k - 1 \notin Behind
      BY <2>1, <3>1
    <3>3. PICK at : at \in Ahead(p, v, cut, k - 1)
      BY <3>1, <3>2
    <3>4. Ahead(p, v, cut, k) # {}
      BY <1>1, <3>1, <3>3, ScanStepsAhead
    <3> QED
      BY <2>2, <3>4
  <2> QED
    BY <2>3, <2>4
<1>6. PICK at : at \in Ahead(p, v, cut, Len(p))
  BY <1>2, <1>5
<1>7. at \in Scan(p, v)
  BY <1>2, <1>4, <1>6 DEF Ahead, Scan
<1> QED
  BY <1>3, <1>7

\* Whatever the pattern and the text: the scan, which takes each segment where it
\* first occurs and never goes back, finds a match exactly when the text is cut
\* into the segments somehow.
THEOREM ScanIsTheMeaning ==
  ASSUME NEW p \in Pattern, NEW v \in Seq(Character)
  PROVE  WildcardMatches(p, v) <=> Names(p, v)
<1>1. CASE HasStar(p)
  BY <1>1, ScanCuts, CutsAreScanned DEF WildcardMatches
<1> QED
  BY <1>1, PlainPattern

-----------------------------------------------------------------------------
\* What the policy engine may settle by itself.

\* A text is in another one just when that one is cut around it.
LEMMA BetweenStars ==
  ASSUME NEW v \in Seq(Character), NEW text \in Seq(Character)
  PROVE  ArgumentContains(v, text) <=> Names(<< <<>>, text, <<>> >>, v)
<1> DEFINE p == << <<>>, text, <<>> >>
<1>1. /\ DOMAIN p = {1, 2, 3} /\ Len(p) = 3 /\ p[1] = <<>> /\ p[2] = text /\ p[3] = <<>>
      /\ Len(v) \in Nat /\ Len(text) \in Nat /\ Len(<<>>) = 0
  OBVIOUS
<1> HIDE DEF p
<1>2. ASSUME NEW i \in 0..(Len(v) - Len(text)), OccursAt(text, v, i)
      PROVE  Names(p, v)
  <2> DEFINE cut == [k \in DOMAIN p |-> CASE k = 1 -> 0 [] k = 2 -> i [] OTHER -> Len(v)]
  <2>1. cut \in [DOMAIN p -> 0..Len(v)] /\ cut[1] = 0 /\ cut[2] = i /\ cut[3] = Len(v)
    BY <1>1
  <2> HIDE DEF cut
  <2>2. OccursAt(<<>>, v, 0) /\ OccursAt(<<>>, v, Len(v))
    BY <1>1 DEF OccursAt
  <2> QED
    BY <1>1, <1>2, <2>1, <2>2 DEF Names
<1>3. ASSUME Names(p, v)
      PROVE  ArgumentContains(v, text)
  <2>1. PICK cut \in [DOMAIN p -> 0..Len(v)] :
          \A i \in DOMAIN p : cut[i] + Len(p[i]) <= Len(v) /\ OccursAt(p[i], v, cut[i])
    BY <1>3 DEF Names
  <2>2. cut[2] \in 0..(Len(v) - Len(text)) /\ OccursAt(text, v, cut[2])
    BY <1>1, <2>1
  <2> QED
    BY <2>2 DEF ArgumentContains, Occurrences
<1> QED
  BY <1>2, <1>3 DEF ArgumentContains, Occurrences, p

\* The first rule whose pattern matches is the first that covers the call.
LEMMA FirstRule ==
  ASSUME WrittenOut(rules, arrived), arrived.surface = "permission", Covering # {}
  PROVE  /\ First \in DOMAIN rules /\ rules[First].effect \in {"allow", "deny"}
         /\ StaticRule(rules, arrived) = rules[First].effect
<1>1. Len(rules) \in Nat /\ DOMAIN rules = 1..Len(rules)
  BY DEF WrittenOut
<1>2. \A i \in DOMAIN rules : RuleMatches(rules[i], arrived) <=> Covers(rules[i], arrived)
  <2> SUFFICES ASSUME NEW i \in DOMAIN rules
               PROVE  RuleMatches(rules[i], arrived) <=> Covers(rules[i], arrived)
    OBVIOUS
  <2> DEFINE r == rules[i]
  <2>1. WildcardMatches(r.pattern, arrived.tool) <=> Names(r.pattern, arrived.tool)
    BY ScanIsTheMeaning DEF WrittenOut
  <2>2. \A key \in DOMAIN r.contains \cap DOMAIN arrived.arguments :
          ArgumentContains(arrived.arguments[key], r.contains[key]) <=>
          Names(<< <<>>, r.contains[key], <<>> >>, arrived.arguments[key])
    BY BetweenStars DEF WrittenOut
  <2>3. OwnershipScopeMatches(r, arrived) <=>
          r.scope = {} \/ \E prefix \in r.scope, s \in arrived.owned : StartsWith(s, prefix)
    BY DEF WrittenOut, OwnershipScopeMatches
  <2> HIDE DEF r
  <2>4. ArgumentsContain(r, arrived) <=>
          \A key \in DOMAIN r.contains :
            /\ key \in DOMAIN arrived.arguments
            /\ Names(<< <<>>, r.contains[key], <<>> >>, arrived.arguments[key])
    BY <2>2 DEF ArgumentsContain
  <2> QED
    BY <2>1, <2>3, <2>4 DEF RuleMatches, Covers, r
<1>3. {i \in 1..Len(rules) : RuleMatches(rules[i], arrived)} = Covering
  BY <1>1, <1>2 DEF Covering
<1>4. Covering \subseteq Nat /\ Covering \subseteq DOMAIN rules /\ 0 \notin Covering
  BY <1>1 DEF Covering
<1>5. First \in Covering
  BY <1>4, LeastOfAll DEF First
<1>6. SelectInSeq(rules, LAMBDA r : RuleMatches(r, arrived)) = First
  BY <1>3 DEF SelectInSeq, Min, First
<1>7. StaticRule(rules, arrived) = rules[First].effect
  BY <1>4, <1>5, <1>6 DEF StaticRule
<1> QED
  BY <1>4, <1>5, <1>7 DEF WrittenOut

\* What was asked for is written out, and what the engine said of a question is
\* what it says of it.
AskedInv ==
  /\ WrittenOut(rules, arrived)
  /\ verdict # <<>> /\ arrived.surface # "permission" =>
       verdict = <<EvaluateRouting(profile, baseline, arrived)>>

\* A covered tool call is settled by the engine, as the first rule has it.
Effect(choice) == IF rules[First].effect = "allow" THEN choice = "allow" ELSE choice = "deny"

RuleInv ==
  engine /\ arrived.surface = "permission" /\ Covering # {} =>
    /\ pc \notin {"tier0", "tier1", "tier2"}
    /\ pc \in Open => /\ outcome.tier = 0 /\ outcome.verdict.type = "access"
                      /\ Effect(outcome.verdict.choice)
    /\ pc = "acted" => action = IF rules[First].effect = "allow" THEN "approve" ELSE "deny"

PolicyInv == IInv /\ AskedInv /\ RuleInv

LEMMA FirstRests ==
  ASSUME UNCHANGED <<rules, arrived>>
  PROVE  Covering' = Covering /\ First' = First
<1>1. Covering' = Covering
  BY DEF Covering
<1> QED
  BY <1>1 DEF First

\* The engine's word on a covered call.
LEMMA RuleDecides ==
  ASSUME PolicyInv, Ask, engine, arrived.surface = "permission", Covering # {}
  PROVE  /\ pc' = "settled" /\ outcome'.tier = 0 /\ outcome'.verdict.type = "access"
         /\ outcome'.verdict.choice = IF rules[First].effect = "allow" THEN "allow" ELSE "deny"
<1> DEFINE v == EvaluatePermission(rules, arrived)
<1>1. rules[First].effect \in {"allow", "deny"} /\ StaticRule(rules, arrived) = rules[First].effect
  BY FirstRule DEF PolicyInv, AskedInv
<1>2. /\ rules[First].effect = "allow" => v.outcome = "permit"
      /\ rules[First].effect = "deny" => v.outcome = "stop" /\ v.byRule
  BY <1>1 DEF EvaluatePermission, PolicyVerdict
<1> HIDE DEF v
<1>3. pc' = "settled" /\ outcome' = SettledByPolicy(arrived, v)
  BY <1>1, <1>2 DEF Ask, v
<1>4. CASE rules[First].effect = "allow"
  BY <1>2, <1>3, <1>4 DEF SettledByPolicy, Settled, Verdict
<1>5. CASE rules[First].effect = "deny"
  BY <1>2, <1>3, <1>5 DEF SettledByPolicy, Settled, Verdict
<1> QED
  BY <1>1, <1>4, <1>5

LEMMA AskPolicyInv == ASSUME PolicyInv, Ask PROVE AskedInv' /\ RuleInv'
<1>1. UNCHANGED <<profile, rules, baseline, engine, arrived>>
  BY DEF Ask, config
<1>2. AskedInv'
  <2>1. WrittenOut(rules, arrived)'
    BY <1>1 DEF PolicyInv, AskedInv
  <2>2. verdict' = <<>> \/ (arrived.surface # "permission" =>
                              verdict' = <<EvaluateRouting(profile, baseline, arrived)>>)
    BY DEF Ask
  <2> QED
    BY <1>1, <2>1, <2>2 DEF AskedInv
<1>3. RuleInv'
  <2>1. SUFFICES ASSUME engine, arrived.surface = "permission", Covering # {}
                 PROVE  RuleInv'
    BY <1>1, FirstRests DEF RuleInv
  <2> QED
    BY <1>1, <2>1, FirstRests, RuleDecides DEF RuleInv, Effect, Open
<1> QED
  BY <1>2, <1>3

\* The steps that neither settle nor act.
LEMMA RestsPolicyInv ==
  ASSUME PolicyInv, UNCHANGED <<profile, rules, baseline, engine, arrived, verdict>>,
         \/ pc' \in {"idle", "rejected"}
         \/ UNCHANGED <<pc, outcome, action>>
         \/ pc' \in Open /\ pc \in Open /\ outcome' = outcome
         \/ pc \in {"tier0", "tier1", "tier2"}
         \/ pc' = "acted" /\ pc = "recorded" /\ request.surface = "permission" /\
            action' = PermissionCommand(outcome.verdict)
         \/ pc' = "acted" /\ pc = "recorded" /\ request.surface # "permission"
  PROVE  AskedInv' /\ RuleInv'
<1>1. AskedInv'
  BY DEF PolicyInv, AskedInv
<1>2. RuleInv'
  <2>1. SUFFICES ASSUME engine, arrived.surface = "permission", Covering # {}
                 PROVE  RuleInv'
    BY FirstRests DEF RuleInv
  <2>2. pc \notin {"tier0", "tier1", "tier2"} /\ request.surface = "permission"
    BY <2>1 DEF PolicyInv, RuleInv, IInv, ShapeInv
  <2>3. CASE pc' \in {"idle", "rejected"}
    BY <2>3 DEF RuleInv, Open
  <2>4. CASE UNCHANGED <<pc, outcome, action>>
    BY <2>1, <2>4, FirstRests DEF PolicyInv, RuleInv, Effect
  <2>5. CASE pc' \in Open /\ pc \in Open /\ outcome' = outcome
    BY <2>1, <2>5, FirstRests DEF PolicyInv, RuleInv, Effect, Open
  <2>6. CASE pc' = "acted" /\ pc = "recorded" /\ action' = PermissionCommand(outcome.verdict)
    BY <2>1, <2>6, FirstRests DEF PolicyInv, RuleInv, Effect, Open, PermissionCommand
  <2> QED
    BY <2>2, <2>3, <2>4, <2>5, <2>6
<1> QED
  BY <1>1, <1>2

LEMMA PolicyInvInit == Init => PolicyInv
<1> SUFFICES ASSUME Init PROVE PolicyInv
  OBVIOUS
<1>1. PICK s \in Setting : rules = s.rules /\ arrived = s.request
  BY DEF Init
<1>2. WrittenOut(rules, arrived)
  BY <1>1, DecisionsAssumption
<1> QED
  BY <1>2, InitInv DEF Init, PolicyInv, AskedInv, RuleInv, Open

LEMMA PolicyInvNext == PolicyInv /\ [Next]_vars => PolicyInv'
<1> SUFFICES ASSUME PolicyInv, [Next]_vars PROVE AskedInv' /\ RuleInv'
  BY NextInv DEF PolicyInv
<1>2. CASE UNCHANGED vars
  BY <1>2, RestsPolicyInv DEF vars, config, PolicyInv
<1>3. CASE Ask
  BY <1>3, AskPolicyInv
<1>4. CASE Tier0Permission \/ Tier0Routing \/ ModelAnswers \/ ModelFails
  BY <1>4, RestsPolicyInv DEF Tier0Permission, Tier0Routing, ModelAnswers, ModelFails, config
<1>5. CASE InvestigationGoesOn \/ InvestigationAnswers \/ InvestigationFails \/ InvestigationRunsOut
  BY <1>5, RestsPolicyInv
  DEF InvestigationGoesOn, InvestigationAnswers, InvestigationFails, InvestigationRunsOut, config
<1>6. CASE Park \/ Record \/ Notify
  BY <1>6, RestsPolicyInv DEF Park, Record, Recordable, Notify, config, Open
<1>7. CASE Act
  BY <1>7, RestsPolicyInv DEF Act, config
<1>8. CASE NextQuestion \/ Restart
  BY <1>8, RestsPolicyInv DEF NextQuestion, Restart, config
<1> QED
  BY <1>2, <1>3, <1>4, <1>5, <1>6, <1>7, <1>8 DEF Next, Provide

\* The first rule that covers a tool call, in what its pattern means, in what it
\* wants of the arguments and of what the node owns, has the last word on it: for
\* all patterns, all tools and rules of any length.
THEOREM FirstRuleHasTheLastWord == Spec => []RulesAreHonoured
<1>1. PolicyInv => RulesAreHonoured
  BY DEF PolicyInv, RuleInv, RulesAreHonoured, IInv, ShapeInv
<1> QED
  BY <1>1, PolicyInvInit, PolicyInvNext, PTL DEF Spec

\* Two patterns that name a common text overlap: each text that both name begins
\* with the literal beginnings of both.
LEMMA SharedTextsOverlap ==
  ASSUME NEW left \in Pattern, NEW right \in Pattern, NEW v \in Seq(Character),
         Names(left, v), Names(right, v)
  PROVE  IdentifiersOverlap(left, right)
<1>1. CASE ~ HasStar(left) /\ ~ HasStar(right)
  <2>1. left = <<v>> /\ right = <<v>>
    BY <1>1, PlainPattern DEF WildcardMatches
  <2> QED
    BY <2>1 DEF IdentifiersOverlap
<1>2. \A p \in Pattern : Names(p, v) => Len(p[1]) <= Len(v) /\ OccursAt(p[1], v, 0)
  <2> SUFFICES ASSUME NEW p \in Pattern, Names(p, v)
               PROVE  Len(p[1]) <= Len(v) /\ OccursAt(p[1], v, 0)
    OBVIOUS
  <2>1. PICK cut \in [DOMAIN p -> 0..Len(v)] :
          /\ cut[1] = 0
          /\ \A i \in DOMAIN p : cut[i] + Len(p[i]) <= Len(v) /\ OccursAt(p[i], v, cut[i])
    BY DEF Names
  <2>2. 1 \in DOMAIN p /\ Len(p[1]) \in Nat
    BY Segments
  <2> QED
    BY <2>1, <2>2
<1>3. left[1] \in Seq(Character) /\ right[1] \in Seq(Character)
  BY Segments
<1>4. \A a, b \in Seq(Character) :
        /\ Len(a) <= Len(v) /\ OccursAt(a, v, 0) /\ Len(b) <= Len(v) /\ OccursAt(b, v, 0)
        /\ Len(a) <= Len(b)
        => IsPrefix(a, b)
  <2> SUFFICES ASSUME NEW a \in Seq(Character), NEW b \in Seq(Character),
                      SubSeq(v, 1, Len(a)) = a, SubSeq(v, 1, Len(b)) = b,
                      Len(a) <= Len(b), Len(b) <= Len(v)
               PROVE  IsPrefix(a, b)
    BY DEF OccursAt
  <2>1. \A i \in 1..Len(a) : a[i] = v[i] /\ b[i] = v[i]
    OBVIOUS
  <2>2. SubSeq(a, 1, Len(a)) = SubSeq(b, 1, Len(a))
    BY <2>1
  <2> QED
    BY <2>2 DEF IsPrefix
<1>5. IsPrefix(left[1], right[1]) \/ IsPrefix(right[1], left[1])
  BY <1>2, <1>3, <1>4
<1> QED
  BY <1>1, <1>5 DEF IdentifiersOverlap, LiteralPrefix

\* What the engine permits does not touch, in any surface it can read, what a
\* sibling owns or depends on: no text is named by both, whatever the patterns.
THEOREM OverlapsAreNoticed == Spec => []NoOverlapUnnoticed
<1>1. PolicyInv => NoOverlapUnnoticed
  <2> SUFFICES ASSUME PolicyInv, verdict # <<>>, arrived.surface # "permission",
                      verdict[1].outcome = "permit",
                      NEW s \in arrived.siblings
               PROVE  /\ Changed(arrived) # {}
                      /\ \A a \in Changed(arrived), b \in s.owns \cup s.dependsOn :
                           a.kind = b.kind => ~Share(a.id, b.id, Texts)
    BY DEF NoOverlapUnnoticed
  <2>1. verdict[1] = EvaluateRouting(profile, baseline, arrived)
    BY DEF PolicyInv, AskedInv
  <2>2. AssessConflict(arrived) = "no_conflict"
    BY <2>1 DEF EvaluateRouting, PolicyVerdict
  <2>6. Changed(arrived) # {}
    BY <2>2 DEF AssessConflict
  <2>7. SUFFICES ASSUME NEW a \in Changed(arrived), NEW b \in s.owns \cup s.dependsOn,
                        a.kind = b.kind, Share(a.id, b.id, Texts)
                 PROVE  FALSE
    BY <2>6
  <2>3. ~ SurfacesIntersect(Changed(arrived), s.owns) /\ ~ SurfacesIntersect(Changed(arrived), s.dependsOn)
    BY <2>2 DEF AssessConflict
  <2>4. ~ IdentifiersOverlap(a.id, b.id)
    BY <2>3, <2>7 DEF SurfacesIntersect, SurfacesOverlap
  <2>5. a.id \in Pattern /\ b.id \in Pattern /\ Texts \subseteq Seq(Character)
    BY DecisionsAssumption DEF PolicyInv, AskedInv, WrittenOut
  <2> QED
    BY <2>4, <2>5, <2>7, SharedTextsOverlap DEF Share
<1> QED
  BY <1>1, PolicyInvInit, PolicyInvNext, PTL DEF Spec
-----------------------------------------------------------------------------
\* The validation.

\* The call under way has a name that no report has until it records its own;
\* evidence is written when that report is there, with the judgment of the call.
\* Without the first part a second report of one name could contradict the first.
NameInv ==
  /\ calls \in Nat
  /\ \A r \in reports : r.ref \in Nat /\ r.ref <= calls
  /\ valPc \in {"command", "model", "record"} => \A r \in reports : r.ref < calls
  /\ valPc = "append" => \E r \in reports : r.ref = calls /\ r.status = status

RecordInv == NameInv /\ Validated!JudgmentsAreOnRecord

\* The steps that leave the store and the number of calls alone.
Quiet ==
  /\ UNCHANGED <<reports, records, calls>>
  /\ answer' \in {answer, <<>>}
  /\ \/ valPc' \in {"threw", "idle"}
     \/ valPc' = valPc /\ status' = status
     \/ valPc' = "record" /\ valPc \in {"command", "model"}

\* A command that ends, a timer, a model that answers or does not, a store that
\* fails and a kill write nothing, and only a judgment takes a call on to its record.
LEMMA QuietSteps ==
  ASSUME \/ Validated!Settles \/ Validated!Timeout \/ Validated!StoreFails \/ Validated!Killed
         \/ \E r \in Validated!Response : Validated!ModelAnswers(r)
         \/ UNCHANGED Validated!vars
  PROVE Quiet
<1>1. CASE Validated!Settles
  <2>1. ASSUME NEW code \in 0..1, Validated!Ends(code) \/ Validated!HandlesSignal(code) PROVE Quiet
    BY <2>1
      DEF Validated!Ends, Validated!HandlesSignal, Validated!Running, Validated!Exits,
          Validated!Judge, Validated!given, Validated!stored, Quiet
  <2>2. CASE Validated!CannotStart \/ Validated!EndsOfSignal
    BY <2>2
      DEF Validated!CannotStart, Validated!EndsOfSignal, Validated!Running,
          Validated!Exits, Validated!Judge, Validated!given, Validated!stored, Quiet
  <2>3. CASE Validated!ModelGivesUp
    BY <2>3
      DEF Validated!ModelGivesUp, Validated!Throw, Validated!given, Validated!stored,
          Quiet
  <2>. QED BY <1>1, <2>1, <2>2, <2>3 DEF Validated!Settles
<1>2. CASE Validated!Timeout
  BY <1>2 DEF Validated!Timeout, Validated!given, Validated!stored, Quiet
<1>3. ASSUME NEW r \in Validated!Response, Validated!ModelAnswers(r) PROVE Quiet
  BY <1>3
    DEF Validated!ModelAnswers, Validated!Judge, Validated!Throw, Validated!given,
        Validated!stored, Quiet
<1>4. CASE Validated!StoreFails
  BY <1>4 DEF Validated!StoreFails, Validated!Throw, Validated!given, Validated!stored, Quiet
<1>5. CASE Validated!Killed
  BY <1>5 DEF Validated!Killed, Validated!given, Validated!stored, Quiet
<1>6. CASE UNCHANGED Validated!vars
  BY <1>6 DEF Validated!vars, Quiet
<1>. QED BY <1>1, <1>2, <1>3, <1>4, <1>5, <1>6

\* What writes nothing leaves what is on record as it is.
LEMMA QuietKeepsRecords == RecordInv /\ Quiet => RecordInv'
<1>. SUFFICES ASSUME RecordInv, Quiet PROVE RecordInv'
  OBVIOUS
<1>1. NameInv'
  BY DEF RecordInv, NameInv, Quiet
<1>2. Validated!JudgmentsAreOnRecord'
  BY DEF RecordInv, Validated!JudgmentsAreOnRecord, Quiet
<1>. QED BY <1>1, <1>2 DEF RecordInv

\* A new call takes a name of its own.
LEMMA CallsAreNamedAnew ==
  ASSUME RecordInv, NEW s \in Validated!Scope, Validated!Validate(s) PROVE RecordInv'
<1>1. NameInv'
  BY DEF Validated!Validate, RecordInv, NameInv, Validated!given, Validated!stored
<1>2. Validated!JudgmentsAreOnRecord'
  BY
    DEF Validated!Validate, RecordInv, Validated!JudgmentsAreOnRecord, Validated!given,
        Validated!stored
<1>. QED BY <1>1, <1>2 DEF RecordInv

\* The report of a call is the only one of its name.
LEMMA ReportsAreNew == RecordInv /\ Validated!RecordReport => RecordInv'
<1>. SUFFICES ASSUME RecordInv, Validated!RecordReport PROVE RecordInv'
  OBVIOUS
<1>. DEFINE new == Validated!ReportOf(calls, validated, status)
<1>1. new.ref = calls /\ new.status = status
  BY DEF Validated!ReportOf
<1>2. /\ reports' = reports \cup {new} /\ records' = records /\ calls' = calls
      /\ status' = status /\ answer' = answer /\ valPc = "record" /\ valPc' = "append"
  BY DEF Validated!RecordReport, Validated!Step, Validated!given
<1>. HIDE DEF new
<1>3. NameInv'
  BY <1>1, <1>2 DEF RecordInv, NameInv
<1>4. Validated!JudgmentsAreOnRecord'
  <2>1. ASSUME NEW r \in reports', NEW q \in reports', r.ref = q.ref PROVE r = q
    BY <1>1, <1>2, <2>1 DEF RecordInv, NameInv, Validated!JudgmentsAreOnRecord
  <2>. QED BY <1>2, <2>1 DEF RecordInv, Validated!JudgmentsAreOnRecord
<1>. QED BY <1>3, <1>4 DEF RecordInv

\* Evidence and answer name the report that has just been written.
LEMMA AnswersAreOnRecord == RecordInv /\ Validated!AppendEvidence => RecordInv'
<1>. SUFFICES ASSUME RecordInv, Validated!AppendEvidence PROVE RecordInv'
  OBVIOUS
<1>1. /\ reports' = reports /\ records' = records \cup {calls} /\ calls' = calls
      /\ answer' = <<[ref |-> calls, status |-> status]>>
      /\ valPc = "append" /\ valPc' = "returned"
  BY DEF Validated!AppendEvidence, Validated!Step, Validated!Reply, Validated!given
<1>2. PICK r \in reports : r.ref = calls /\ r.status = status
  BY <1>1 DEF RecordInv, NameInv
<1>3. NameInv'
  BY <1>1 DEF RecordInv, NameInv
<1>4. Validated!JudgmentsAreOnRecord'
  BY <1>1, <1>2 DEF RecordInv, Validated!JudgmentsAreOnRecord
<1>. QED BY <1>3, <1>4 DEF RecordInv

\* Before the first call nothing is on record and nothing was said.
LEMMA RecordInvInit == Validated!Init => RecordInv
BY DEF Validated!Init, RecordInv, NameInv, Validated!JudgmentsAreOnRecord

LEMMA RecordInvNext == RecordInv /\ [Validated!Next]_(Validated!vars) => RecordInv'
BY QuietSteps, QuietKeepsRecords, CallsAreNamedAnew, ReportsAreNew, AnswersAreOnRecord
  DEF Validated!Next

\* Wherever the process is killed, whichever write fails and however often a node
\* is validated: evidence refers to a report, a report's name is its own, and the
\* supervisor is told what the report says (BuiltInValidation.persistResult).
THEOREM JudgmentsRecorded == Validated!Spec => []JudgmentsAreOnRecord
<1>1. RecordInv => JudgmentsAreOnRecord
  BY DEF RecordInv, JudgmentsAreOnRecord
<1>. QED BY <1>1, RecordInvInit, RecordInvNext, PTL DEF Validated!Spec
-----------------------------------------------------------------------------
\* The protocol proof.

\* A file that this run wrote to its end.
Own == [run |-> run, whole |-> TRUE]

ProofShape ==
  /\ run \in Nat /\ next \in 1..4 /\ proofExit \in 0..1
  /\ files \in [Proof!File -> [run : 0..run, whole : BOOLEAN]]
  /\ summary \in [run : 0..run, whole : BOOLEAN, status : {"none", "completed", "failed"},
                  validation : {"none", "pass", "fail"}]
  /\ report.status \in {"none", "pass", "fail"}

\* A run under way has not written its summary yet; before it does, the files are
\* its own one after the other, and the report is what the gate says of them.
UnderWay ==
  /\ proofPc \in {"role", "gate", "write", "summary"} => summary.run < run
  /\ proofPc \in {"role", "gate", "write", "summary", "failing"} => proofExit = 1
  /\ proofPc \in {"write", "summary"} => report = Proof!GateReport(proofStory, impact)
  /\ proofPc \in {"role", "gate"} => next = 1
  /\ proofPc = "write" => \A k \in 1 .. next - 1 : files[Proof!FileAt[k]] = Own
  /\ proofPc = "summary" => \A f \in Proof!File : files[f] = Own

ProofInv == ProofShape /\ UnderWay /\ Proof!SummaryTellsTheRun

\* What the evidence is made of stays as it is when a step writes nothing.
LEMMA UnwrittenEvidence ==
  ASSUME ProofInv, UNCHANGED <<proofPc, proofExit, run, next, files, summary>>,
         report'.status \in {"none", "pass", "fail"}, UNCHANGED <<proofStory, impact>>,
         proofPc \in {"write", "summary"} => report' = report
  PROVE  ProofInv'
<1>1. ProofShape'
  BY DEF ProofInv, ProofShape
<1>2. UnderWay'
  BY DEF ProofInv, UnderWay, Own
<1>3. Proof!SummaryTellsTheRun'
  BY DEF ProofInv, Proof!SummaryTellsTheRun
<1> QED
  BY <1>1, <1>2, <1>3 DEF ProofInv

\* The gate says pass or fail.
LEMMA GateSays ==
  ASSUME NEW intent, NEW candidate
  PROVE  /\ Proof!GateReport(intent, candidate).status \in {"pass", "fail"}
         /\ Proof!GateReport(intent, candidate).status = "pass" =>
              Proof!FailedChecks(intent, candidate) = {}
BY DEF Proof!GateReport

\* An embedder has neither run nor files.
LEMMA EmbeddersWriteNothing ==
  ASSUME ProofInv,
         \/ \E i \in Proof!Invocation, a, k \in BOOLEAN : Proof!EmbedRole(i, a, k)
         \/ \E a \in Proof!Answer : Proof!EmbedGate(a)
  PROVE  ProofInv'
<1>1. ASSUME NEW i, NEW a, NEW k, Proof!EmbedRole(i, a, k) PROVE ProofInv'
  BY <1>1, UnwrittenEvidence DEF Proof!EmbedRole, Proof!evidence, ProofInv, ProofShape
<1>2. ASSUME NEW a, Proof!EmbedGate(a) PROVE ProofInv'
  BY <1>2, UnwrittenEvidence, GateSays
  DEF Proof!EmbedGate, Proof!evidence, Proof!Free
<1> QED
  BY <1>1, <1>2

\* A new run finds what earlier ones left, and nothing of its own.
LEMMA RunsStartAnew ==
  ASSUME ProofInv, NEW intent, NEW prepared, NEW credentials,
         Proof!Start(intent, prepared, credentials)
  PROVE  ProofInv'
<1>1. /\ run' = run + 1 /\ proofExit' = 1 /\ next' = 1 /\ UNCHANGED <<files, summary>>
      /\ proofPc' \in {"ended", "failing", "role"} /\ report' = Proof!NoReport
  BY DEF Proof!Start, Proof!evidence
<1>2. /\ run \in Nat /\ summary.run \in 0..run
      /\ \A f \in Proof!File : files[f].run \in 0..run
  BY DEF ProofInv, ProofShape
<1>3. ProofShape'
  BY <1>1, <1>2 DEF ProofInv, ProofShape, Proof!NoReport
<1>4. UnderWay'
  BY <1>1, <1>2 DEF UnderWay
<1>5. Proof!SummaryTellsTheRun'
  BY <1>1, <1>2 DEF ProofInv, Proof!SummaryTellsTheRun
<1> QED
  BY <1>3, <1>4, <1>5 DEF ProofInv

\* Role and gate write nothing yet.
LEMMA RoleAndGate ==
  ASSUME ProofInv, (\E a \in Proof!Answer : Proof!RunRole(a)) \/ Proof!RunGate
  PROVE  ProofInv'
<1>1. /\ UNCHANGED <<proofExit, run, next, files, summary, proofStory>>
      /\ proofPc \in {"role", "gate"}
      /\ \/ proofPc' \in {"gate", "failing"} /\ report' = report
         \/ /\ proofPc = "gate" /\ proofPc' = "write" /\ impact' = impact
            /\ report' = Proof!GateReport(proofStory, impact)
  BY DEF Proof!RunRole, Proof!RunGate, Proof!evidence
<1>2. ProofShape'
  BY <1>1, GateSays DEF ProofInv, ProofShape
<1>3. next = 1
  BY <1>1 DEF ProofInv, UnderWay
<1>4. UnderWay'
  BY <1>1, <1>3 DEF ProofInv, UnderWay
<1>5. Proof!SummaryTellsTheRun'
  BY <1>1 DEF ProofInv, Proof!SummaryTellsTheRun
<1> QED
  BY <1>2, <1>4, <1>5 DEF ProofInv

\* What a write leaves is the old file, or one that says it is of this run.
LEMMA WritesAreOwn ==
  ASSUME ProofShape, NEW f \in Proof!File, NEW how \in Proof!Outcome,
         NEW left, left = Proof!Left(files[f], Own, how)
  PROVE  /\ left \in [run : 0..run, whole : BOOLEAN]
         /\ how = "ok" => left = Own
         /\ how # "ok" => left = files[f] \/ (left.run = run /\ ~ left.whole)
<1>1. files[f] \in [run : 0..run, whole : BOOLEAN] /\ run \in 0..run
  BY DEF ProofShape
<1>2. CASE how = "ok"
  BY <1>1, <1>2 DEF Proof!Left, Own
<1>3. CASE how = "unopened"
  BY <1>1, <1>3 DEF Proof!Left
<1>4. CASE how = "torn"
  <2>1. left = [run |-> run, whole |-> FALSE]
    BY <1>4 DEF Proof!Left, Own
  <2>2. left \in [run : 0..run, whole : BOOLEAN]
    BY <1>1, <2>1
  <2>3. left.run = run /\ left.whole = FALSE
    BY <2>1
  <2>4. how # "ok"
    BY <1>4
  <2> QED
    BY <2>2, <2>3, <2>4
<1> QED
  BY <1>2, <1>3, <1>4 DEF Proof!Outcome

\* The four files are written in their order; the first that fails is the last.
LEMMA FilesInOrder ==
  ASSUME ProofInv, NEW how \in Proof!Outcome, Proof!Write(how) PROVE ProofInv'
<1> DEFINE at == Proof!FileAt[next]
           left == Proof!Left(files[at], Own, how)
<1>1. /\ UNCHANGED <<proofExit, run, proofStory, impact, report, summary>>
      /\ proofPc = "write" /\ files' = [files EXCEPT ![at] = left]
      /\ \/ how # "ok" /\ proofPc' = "failing" /\ next' = next
         \/ how = "ok" /\ next = 4 /\ proofPc' = "summary" /\ next' = next
         \/ how = "ok" /\ next # 4 /\ proofPc' = "write" /\ next' = next + 1
  BY DEF Proof!Write, Own
<1>2. /\ next \in 1..4 /\ at \in Proof!File
      /\ \A k \in 1 .. next - 1 : Proof!FileAt[k] # at /\ Proof!FileAt[k] \in Proof!File
      /\ \A f \in Proof!File : \E k \in 1..4 : f = Proof!FileAt[k]
  BY DEF ProofInv, ProofShape, Proof!FileAt, Proof!File
<1>3. /\ left \in [run : 0..run, whole : BOOLEAN]
      /\ how = "ok" => left = Own
      /\ how # "ok" => left = files[at] \/ (left.run = run /\ ~ left.whole)
  BY <1>2, WritesAreOwn DEF ProofInv
<1> HIDE DEF at, left
<1>4. /\ files'[at] = left
      /\ \A f \in Proof!File : f # at => files'[f] = files[f]
  BY <1>1, <1>2 DEF ProofInv, ProofShape
<1>5. ProofShape'
  BY <1>1, <1>2, <1>3 DEF ProofInv, ProofShape
<1>6. UnderWay'
  <2>1. \A k \in 1 .. next - 1 : files'[Proof!FileAt[k]] = Own
    BY <1>1, <1>2, <1>4 DEF ProofInv, UnderWay
  <2>2. how = "ok" => files'[Proof!FileAt[next]] = Own
    BY <1>3, <1>4 DEF at
  <2>3. how = "ok" => \A k \in 1..next : files'[Proof!FileAt[k]] = Own
    BY <1>2, <2>1, <2>2
  <2>4. proofPc' = "summary" => \A f \in Proof!File : files'[f] = Own
    BY <1>1, <1>2, <2>3
  <2>5. Own' = Own
    BY <1>1 DEF Own
  <2> QED
    BY <1>1, <1>2, <2>3, <2>4, <2>5 DEF ProofInv, UnderWay
<1>7. Proof!SummaryTellsTheRun'
  <2>1. summary.run < run /\ run \in Nat /\ summary.run \in Nat
    BY <1>1 DEF ProofInv, ProofShape, UnderWay
  <2>2. \A f \in Proof!File : files'[f] = files[f] \/ files'[f].run = run
    BY <1>3, <1>4 DEF Own
  <2> QED
    BY <1>1, <2>1, <2>2 DEF ProofInv, Proof!SummaryTellsTheRun
<1> QED
  BY <1>5, <1>6, <1>7 DEF ProofInv

\* The summary that a step writes.
Said(s) == [run |-> run, whole |-> TRUE, status |-> s, validation |-> report.status]

LEMMA SummariesAreOwn ==
  ASSUME ProofShape, NEW s \in {"completed", "failed"}, NEW how \in Proof!Outcome,
         NEW left, left = Proof!Left(summary, Said(s), how)
  PROVE  /\ left \in [run : 0..run, whole : BOOLEAN, status : {"none", "completed", "failed"},
                      validation : {"none", "pass", "fail"}]
         /\ how = "ok" => left = Said(s)
         /\ how = "unopened" => left = summary
         /\ how = "torn" => left.run = run /\ left.status = s /\ ~ left.whole
<1>1. /\ summary \in [run : 0..run, whole : BOOLEAN, status : {"none", "completed", "failed"},
                       validation : {"none", "pass", "fail"}]
      /\ run \in 0..run /\ report.status \in {"none", "pass", "fail"}
  BY DEF ProofShape
<1>2. CASE how = "ok"
  BY <1>1, <1>2 DEF Proof!Left, Said
<1>3. CASE how = "unopened"
  BY <1>1, <1>3 DEF Proof!Left
<1>4. CASE how = "torn"
  <2>1. left = [run |-> run, whole |-> FALSE, status |-> s, validation |-> report.status]
    BY <1>4 DEF Proof!Left, Said
  <2>2. left \in [run : 0..run, whole : BOOLEAN, status : {"none", "completed", "failed"},
                   validation : {"none", "pass", "fail"}]
    BY <1>1, <2>1
  <2>3. left.run = run /\ left.status = s /\ left.whole = FALSE
    BY <2>1
  <2>4. how # "ok" /\ how # "unopened"
    BY <1>4
  <2> QED
    BY <2>2, <2>3, <2>4
<1> QED
  BY <1>2, <1>3, <1>4 DEF Proof!Outcome

\* A run whose report passes and whose summary is written has said so of its own
\* files; any other goes to the catch block.
LEMMA RunsComplete ==
  ASSUME ProofInv, NEW how \in Proof!Outcome, Proof!Complete(how) PROVE ProofInv'
<1>1. /\ UNCHANGED <<run, proofStory, impact, report, next, files>> /\ proofPc = "summary"
      /\ summary' = Proof!Left(summary, Said("completed"), how)
      /\ \/ how = "ok" /\ report.status = "pass" /\ proofPc' = "ended" /\ proofExit' = 0
         \/ proofPc' = "failing" /\ proofExit' = proofExit
  BY DEF Proof!Complete, Proof!Summarise, Said
<1>2. \A f \in Proof!File : files[f] = Own
  BY <1>1 DEF ProofInv, UnderWay
<1>3. ProofShape' /\ UnderWay'
  BY <1>1, SummariesAreOwn DEF ProofInv, ProofShape, UnderWay
<1>4. report.status = "pass" => Proof!FailedChecks(proofStory, impact) = {}
  BY <1>1, GateSays DEF ProofInv, UnderWay
<1>5. Proof!SummaryTellsTheRun'
  <2>1. CASE how = "ok"
    <3>1. /\ summary' = [run |-> run, whole |-> TRUE, status |-> "completed",
                         validation |-> report.status]
          /\ run \in Nat
      BY <1>1, <2>1, SummariesAreOwn DEF ProofInv, ProofShape, Said
    <3>2. \A f \in Proof!File : files'[f] = [run |-> run, whole |-> TRUE]
      BY <1>1, <1>2 DEF Own
    <3>3. CASE report.status = "pass" /\ proofPc' = "ended" /\ proofExit' = 0
      <4>1. summary' = [run |-> run, whole |-> TRUE, status |-> "completed",
                        validation |-> "pass"] /\ run' = run
        BY <1>1, <3>1, <3>3
      <4>2. Proof!FailedChecks(proofStory', impact') = {}
        BY <1>1, <1>4, <3>3
      <4>3. summary'.run = run /\ \A f \in Proof!File : files'[f].run = run /\ files'[f].whole
        BY <4>1, <3>2
      <4>4. /\ summary' = [run |-> run', whole |-> TRUE, status |-> "completed",
                            validation |-> "pass"]
            /\ \A f \in Proof!File : files'[f] = [run |-> run', whole |-> TRUE]
        BY <3>2, <4>1
      <4>5. \A f \in Proof!File :
              /\ files'[f].run >= summary'.run
              /\ files'[f].run = summary'.run => files'[f].whole
        BY <3>1, <4>1, <4>3
      <4> QED
        BY <3>3, <4>2, <4>4, <4>5 DEF Proof!SummaryTellsTheRun
    <3>4. CASE proofPc' = "failing"
      BY <1>1, <3>1, <3>2, <3>4 DEF Proof!SummaryTellsTheRun
    <3> QED
      BY <1>1, <3>3, <3>4
  <2>2. CASE how = "unopened"
    BY <1>1, <2>2, SummariesAreOwn DEF ProofInv, Proof!SummaryTellsTheRun
  <2>3. CASE how = "torn"
    BY <1>1, <2>3, SummariesAreOwn DEF ProofInv, Proof!SummaryTellsTheRun
  <2> QED
    BY <2>1, <2>2, <2>3 DEF Proof!Outcome
<1> QED
  BY <1>3, <1>5 DEF ProofInv

\* The catch block writes over what may have said "completed".
LEMMA RunsFail ==
  ASSUME ProofInv, NEW how \in Proof!Outcome, Proof!Fail(how) PROVE ProofInv'
<1>1. /\ UNCHANGED <<proofExit, run, proofStory, impact, report, next, files>>
      /\ proofPc = "failing"
      /\ summary' = Proof!Left(summary, Said("failed"), how)
      /\ proofPc' = IF how = "ok" THEN "ended" ELSE "cut"
  BY DEF Proof!Fail, Proof!Summarise, Said
<1>2. ProofShape' /\ UnderWay' /\ proofExit = 1
  BY <1>1, SummariesAreOwn DEF ProofInv, ProofShape, UnderWay
<1>3. Proof!SummaryTellsTheRun'
  <2>1. CASE how = "ok"
    <3>1. summary' = Said("failed") /\ proofExit' = 1
      BY <1>1, <1>2, <2>1 DEF Proof!Left
    <3>2. summary'.status = "failed"
      BY <3>1 DEF Said
    <3> QED
      BY <3>1, <3>2 DEF Proof!SummaryTellsTheRun
  <2>2. CASE how = "unopened"
    BY <1>1, <2>2, SummariesAreOwn DEF ProofInv, Proof!SummaryTellsTheRun
  <2>3. CASE how = "torn"
    <3>1. proofPc' = "cut" /\ ~ summary'.whole
      BY <1>1, <2>3, SummariesAreOwn DEF ProofInv
    <3> QED
      BY <1>1, <3>1 DEF Proof!SummaryTellsTheRun
  <2> QED
    BY <2>1, <2>2, <2>3 DEF Proof!Outcome
<1> QED
  BY <1>2, <1>3 DEF ProofInv

\* A kill may tear the file that is being written, or the summary.
LEMMA RunsAreCut ==
  ASSUME ProofInv, NEW torn \in BOOLEAN, Proof!Killed(torn) PROVE ProofInv'
<1> DEFINE at == Proof!FileAt[next]
           bad == [run |-> run, whole |-> FALSE]
<1>1. /\ UNCHANGED <<proofExit, run, proofStory, impact, report, next>> /\ proofPc' = "cut"
      /\ files' = files \/ (proofPc = "write" /\ files' = [files EXCEPT ![at] = bad])
      /\ summary' = summary \/ summary' = [summary EXCEPT !.run = run, !.whole = FALSE]
      /\ proofPc = "write" => summary' = summary
  BY DEF Proof!Killed
<1>2. /\ at \in Proof!File /\ run \in Nat /\ run \in 0..run
      /\ summary \in [run : 0..run, whole : BOOLEAN, status : {"none", "completed", "failed"},
                      validation : {"none", "pass", "fail"}]
  BY DEF ProofInv, ProofShape, Proof!FileAt, Proof!File
<1>3. ProofShape'
  <2>1. files' \in [Proof!File -> [run : 0..run, whole : BOOLEAN]]
    <3>1. bad \in [run : 0..run, whole : BOOLEAN]
      BY <1>2
    <3> HIDE DEF at, bad
    <3> QED
      BY <1>1, <1>2, <3>1 DEF ProofInv, ProofShape
  <2>2. summary' \in [run : 0..run, whole : BOOLEAN, status : {"none", "completed", "failed"},
                      validation : {"none", "pass", "fail"}]
    <3> DEFINE torn1 == [summary EXCEPT !.run = run, !.whole = FALSE]
    <3>1. summary = [run |-> summary.run, whole |-> summary.whole, status |-> summary.status,
                     validation |-> summary.validation]
      BY <1>2
    <3>2. DOMAIN summary = {"run", "whole", "status", "validation"}
      BY <3>1
    <3>3. /\ DOMAIN torn1 = {"run", "whole", "status", "validation"}
          /\ torn1.run = run /\ torn1.whole = FALSE /\ torn1.status = summary.status
          /\ torn1.validation = summary.validation
      BY <3>2
    <3>4. torn1 = [f \in DOMAIN torn1 |-> torn1[f]]
      OBVIOUS
    <3> HIDE DEF torn1
    <3>5. torn1 \in [run : 0..run, whole : BOOLEAN, status : {"none", "completed", "failed"},
                     validation : {"none", "pass", "fail"}]
      BY <1>2, <3>3, <3>4
    <3> QED
      BY <1>1, <1>2, <3>5 DEF torn1
  <2> QED
    BY <1>1, <2>1, <2>2 DEF ProofInv, ProofShape
<1>4. UnderWay'
  BY <1>1 DEF UnderWay
<1>5. Proof!SummaryTellsTheRun'
  <2>1. CASE files' = files
    <3>1. summary' = summary \/ ~ summary'.whole
      BY <1>1, <1>2
    <3> QED
      BY <1>1, <2>1, <3>1 DEF ProofInv, Proof!SummaryTellsTheRun
  <2>2. CASE proofPc = "write" /\ files' = [files EXCEPT ![at] = bad]
    <3>1. summary' = summary /\ summary.run < run
      BY <1>1, <2>2 DEF ProofInv, UnderWay
    <3>2. \A f \in Proof!File : files'[f] = files[f] \/ files'[f].run = run
      BY <1>2, <2>2 DEF ProofInv, ProofShape
    <3> QED
      BY <1>1, <1>2, <3>1, <3>2 DEF ProofInv, Proof!SummaryTellsTheRun
  <2> QED
    BY <1>1, <2>1, <2>2
<1> QED
  BY <1>3, <1>4, <1>5 DEF ProofInv

\* Before the first run there is nothing to tell.
LEMMA ProofInvInit == Proof!Init => ProofInv
BY DEF Proof!Init, ProofInv, ProofShape, UnderWay, Proof!SummaryTellsTheRun, Proof!NoFile,
       Proof!NoSummary, Proof!NoReport

LEMMA ProofInvNext == ProofInv /\ [Proof!Next]_(Proof!vars) => ProofInv'
<1> SUFFICES ASSUME ProofInv, [Proof!Next]_(Proof!vars) PROVE ProofInv'
  OBVIOUS
<1>1. CASE UNCHANGED Proof!vars
  BY <1>1, UnwrittenEvidence DEF Proof!vars, Proof!evidence, ProofInv, ProofShape
<1>2. CASE Proof!Next
  BY <1>2, EmbeddersWriteNothing, RunsStartAnew, RoleAndGate, FilesInOrder, RunsComplete,
     RunsFail, RunsAreCut
  DEF Proof!Next
<1> QED
  BY <1>1, <1>2

\* However often the dogfood script runs over the same directory, wherever it is
\* killed and whichever write fails: an exit code of 0 stands for a completed run
\* that passed and for four whole files of it, another one for no completed summary
\* of the run, and a completed summary never stands on files older than it is.
THEOREM SummariesTell == Proof!Spec => []SummaryTellsTheRun
<1>1. ProofInv => SummaryTellsTheRun
  BY DEF ProofInv, SummaryTellsTheRun
<1> QED
  BY <1>1, ProofInvInit, ProofInvNext, PTL DEF Proof!Spec
-----------------------------------------------------------------------------
\* The roles.

\* What a sink is given is the invocation's own, with what a model may write; a
\* result comes after it.
SinkInv ==
  /\ start \in Nat /\ sunk \in Seq({sunk[k] : k \in DOMAIN sunk})
  /\ \A k \in DOMAIN sunk : sunk[k].payload \in Flow!Payload
  /\ rolePc \in {"model", "sink"} => start = Len(sunk)
  /\ rolePc = "sink" =>
       held = <<held[1]>> /\ held[1].by = inv.id /\ held[1].payload \in Flow!Payload

\* The envelopes that there are, the exit codes of what is reported as an error,
\* and who reports and who writes evidence.
OutcomeInv ==
  /\ rolePc = "done" => result[1].status \in {"produced", "skipped", "needs_human", "blocked"}
  /\ rolePc = "reporting" => roleExit \in {"invalid", "io", "failed"} /\ caller = "cli"
  /\ rolePc = "writing" => caller = "dogfood"

RolesInv ==
  /\ SinkInv /\ OutcomeInv
  /\ Flow!ProducedIsSunk /\ Flow!ReviewIsNotLost /\ Flow!ExitTellsTheFile

\* A sequence with one more element.
LEMMA OneMore ==
  ASSUME NEW s, s \in Seq({s[k] : k \in DOMAIN s}), NEW e, NEW t, t = s \o <<e>>
  PROVE  /\ t \in Seq({t[k] : k \in DOMAIN t})
         /\ Len(t) = Len(s) + 1 /\ Len(s) \in Nat /\ t[Len(t)] = e
         /\ \A k \in DOMAIN t : (k \in DOMAIN s /\ t[k] = s[k]) \/ t[k] = e
<1> DEFINE S == {s[k] : k \in DOMAIN s} \cup {e}
<1>1. s \in Seq(S) /\ e \in S
  OBVIOUS
<1> HIDE DEF S
<1>2. /\ t \in Seq(S) /\ Len(t) = Len(s) + 1 /\ Len(s) \in Nat /\ t[Len(s) + 1] = e
      /\ \A k \in 1..Len(s) : t[k] = s[k]
  BY <1>1
<1>3. DOMAIN t = 1 .. Len(s) + 1 /\ DOMAIN s = 1..Len(s)
  BY <1>1, <1>2
<1>4. t \in Seq({t[k] : k \in DOMAIN t})
  <2> DEFINE R == {t[k] : k \in DOMAIN t}
  <2>1. Len(t) \in Nat /\ DOMAIN t = 1..Len(t)
    BY <1>2, <1>3
  <2>0. \A k \in 1..Len(t) : t[k] \in R
    BY <2>1
  <2>2. t = [k \in 1..Len(t) |-> t[k]]
    BY <1>2, <2>1
  <2> HIDE DEF R
  <2>3. [k \in 1..Len(t) |-> t[k]] \in Seq(R)
    BY <2>1, <2>0
  <2> QED
    BY <2>2, <2>3 DEF R
<1>5. \A k \in DOMAIN t : k \in 1..Len(s) \/ k = Len(s) + 1
  BY <1>2, <1>3
<1> QED
  BY <1>2, <1>3, <1>4, <1>5

\* The runner begins where the sink stands, and goes to the model or says at once
\* that it does not.
LEMMA Begins ==
  ASSUME NEW i, Flow!Begin(i)
  PROVE  /\ start' = Len(sunk) /\ inv' = i /\ runs' = runs + 1
         /\ \/ rolePc' = "model"
            \/ rolePc' = "done" /\ result'[1].status \in {"skipped", "needs_human"}
BY DEF Flow!Begin, Flow!SkippedResult, Flow!NeedsHumanResult, Flow!Envelope

\* An invocation that begins has put nothing into the sink.
LEMMA InvocationsBegin ==
  ASSUME RolesInv, NEW i, Flow!Begin(i), UNCHANGED <<caller, sunk>>
  PROVE  RolesInv'
<1>1. Len(sunk) \in Nat
  BY DEF RolesInv, SinkInv
<1>2. SinkInv' /\ OutcomeInv'
  BY <1>1, Begins DEF RolesInv, SinkInv, OutcomeInv
<1>3. Flow!ProducedIsSunk' /\ Flow!ReviewIsNotLost' /\ Flow!ExitTellsTheFile'
  BY Begins DEF Flow!ProducedIsSunk, Flow!ReviewIsNotLost, Flow!ExitTellsTheFile
<1> QED
  BY <1>2, <1>3 DEF RolesInv

\* The model answers, or not.
LEMMA ModelsAnswer ==
  ASSUME RolesInv, Flow!ModelAnswers \/ Flow!ModelUnavailable \/ Flow!ModelFails
  PROVE  RolesInv'
<1>1. CASE Flow!ModelAnswers
  <2>1. PICK a \in Flow!Answer : Flow!HandToSink(a)
    BY <1>1 DEF Flow!ModelAnswers
  <2> DEFINE artifact == Flow!Normalized(Flow!Running, inv, a)
  <2>2. /\ UNCHANGED <<caller, inv, sunk, start>> /\ rolePc = "model" /\ rolePc' = "sink"
        /\ held' = <<artifact>>
    BY <1>1, <2>1 DEF Flow!ModelAnswers, Flow!HandToSink, Flow!outside
  <2>3. artifact.by = inv.id /\ artifact.payload \in Flow!Payload
    BY <2>1 DEF Flow!Normalized, Flow!Answer
  <2> HIDE DEF artifact
  <2>4. held' = <<held'[1]>> /\ held'[1].by = inv.id /\ held'[1].payload \in Flow!Payload
    BY <2>2, <2>3
  <2>5. SinkInv' /\ OutcomeInv'
    BY <2>2, <2>4 DEF RolesInv, SinkInv, OutcomeInv
  <2> QED
    BY <2>2, <2>5
    DEF RolesInv, Flow!ProducedIsSunk, Flow!ReviewIsNotLost, Flow!ExitTellsTheFile
<1>2. CASE Flow!ModelUnavailable \/ Flow!ModelFails
  <2>1. /\ UNCHANGED <<caller, sunk, start>> /\ rolePc' = "done"
        /\ result'[1].status \in {"needs_human", "blocked"}
    BY <1>2
    DEF Flow!ModelUnavailable, Flow!ModelFails, Flow!Finish, Flow!NeedsHumanResult,
        Flow!BlockedResult, Flow!Envelope, Flow!outside
  <2>2. SinkInv' /\ OutcomeInv'
    BY <2>1 DEF RolesInv, SinkInv, OutcomeInv
  <2> QED
    BY <2>1, <2>2
    DEF RolesInv, Flow!ProducedIsSunk, Flow!ReviewIsNotLost, Flow!ExitTellsTheFile
<1> QED
  BY <1>1, <1>2

\* A sink takes the artifact, rejects it or keeps it although it rejects; the
\* command line has none.
LEMMA SinksTake ==
  ASSUME RolesInv, Flow!SinkTakes \/ Flow!SinkFails
  PROVE  RolesInv'
<1> DEFINE artifact == held[1]
<1>1. /\ held = <<artifact>> /\ artifact.by = inv.id /\ artifact.payload \in Flow!Payload
      /\ start = Len(sunk) /\ sunk \in Seq({sunk[k] : k \in DOMAIN sunk}) /\ start \in Nat
      /\ \A k \in DOMAIN sunk : sunk[k].payload \in Flow!Payload
  BY DEF RolesInv, SinkInv, Flow!SinkTakes, Flow!SinkFails
<1>2. /\ UNCHANGED <<caller, inv, start>> /\ rolePc' = "done"
      /\ sunk' = sunk \/ sunk' = sunk \o <<artifact>>
  BY <1>1 DEF Flow!SinkTakes, Flow!SinkFails, Flow!Finish, Flow!outside
<1>3. \/ /\ result' = <<Flow!ProducedResult(inv, artifact)>>
         /\ caller # "cli" => sunk' = sunk \o <<artifact>>
      \/ result'[1].status = "blocked"
  <2>1. CASE Flow!SinkTakes
    BY <1>1, <2>1 DEF Flow!SinkTakes, Flow!Finish
  <2>2. CASE Flow!SinkFails
    BY <2>2 DEF Flow!SinkFails, Flow!Finish, Flow!BlockedResult, Flow!Envelope
  <2> QED
    BY <2>1, <2>2
<1>4. /\ Flow!ProducedResult(inv, artifact).status = "produced"
      /\ Flow!ProducedResult(inv, artifact).by = inv.id
      /\ Flow!ProducedResult(inv, artifact).output = <<artifact.type, artifact.id>>
  BY DEF Flow!ProducedResult, Flow!Envelope
<1> HIDE DEF artifact
<1>5. /\ sunk' \in Seq({sunk'[k] : k \in DOMAIN sunk'})
      /\ \A k \in DOMAIN sunk' : sunk'[k].payload \in Flow!Payload
  <2>1. CASE sunk' = sunk
    BY <1>1, <2>1
  <2>2. CASE sunk' = sunk \o <<artifact>>
    BY <1>1, <2>2, OneMore
  <2> QED
    BY <1>2, <2>1, <2>2
<1>6. SinkInv' /\ OutcomeInv'
  BY <1>1, <1>2, <1>3, <1>4, <1>5 DEF SinkInv, OutcomeInv
<1>7. Flow!ProducedIsSunk'
  <2>1. sunk' = sunk \o <<artifact>> => Len(sunk') = start + 1 /\ sunk'[Len(sunk')] = artifact
    BY <1>1, OneMore
  <2>2. result'[1].status = "produced" => result'[1] = Flow!ProducedResult(inv, artifact)
    BY <1>3
  <2> QED
    BY <1>1, <1>2, <1>3, <1>4, <2>1, <2>2 DEF Flow!ProducedIsSunk, Flow!Matches
<1>8. Flow!ReviewIsNotLost' /\ Flow!ExitTellsTheFile'
  BY <1>2 DEF Flow!ReviewIsNotLost, Flow!ExitTellsTheFile
<1> QED
  BY <1>6, <1>7, <1>8 DEF RolesInv

\* Decisions that follow an optional review, each marked as the review is wanted.
LEMMA ReviewLeads ==
  ASSUME NEW review \in BOOLEAN, NEW n \in 0..1, NEW first, NEW each, NEW of,
         of = (IF review THEN <<first>> ELSE <<>>) \o [k \in 1..n |-> each],
         review
  PROVE  of # <<>> /\ of[1] = first /\ \A k \in DOMAIN of : of[k] = first \/ of[k] = each
<1>1. [k \in 1..n |-> each] = IF n = 0 THEN <<>> ELSE <<each>>
  OBVIOUS
<1>2. CASE n = 0
  BY <1>1, <1>2
<1>3. CASE n = 1
  <2>1. of = <<first>> \o <<each>>
    BY <1>1, <1>3
  <2>2. <<first>> \in Seq({first, each}) /\ <<each>> \in Seq({first, each})
    OBVIOUS
  <2>3. Len(of) = 2 /\ of[1] = first /\ of[2] = each /\ DOMAIN of = 1..2
    BY <2>1, <2>2
  <2> QED
    BY <2>3
<1> QED
  BY <1>2, <1>3

\* The planning adapter returns what the sink was given, or a review in its place.
LEMMA PlansAreReturned ==
  ASSUME RolesInv, Flow!ReturnPlan PROVE RolesInv'
<1> DEFINE artifact == sunk[Len(sunk)]
           review == Flow!ReviewRequired(result[1], artifact)
           asking == Flow!DecisionOf("review", TRUE)
           other == Flow!DecisionOf("request", review)
<1>1. /\ UNCHANGED <<caller, inv, sunk, start, result>> /\ rolePc = "done" /\ caller = "planning"
      /\ \/ /\ Len(sunk) > start /\ rolePc' = "idle"
            /\ plan' = <<Flow!PlanOf(result[1], artifact)>>
         \/ /\ Len(sunk) = start /\ rolePc' = "idle"
            /\ plan' = <<[tasks |-> "none", decisions |-> <<asking>>]>>
         \/ rolePc' = "thrown"
  BY DEF Flow!ReturnPlan, Flow!outside
<1>2. SinkInv' /\ OutcomeInv'
  BY <1>1 DEF RolesInv, SinkInv, OutcomeInv
<1>3. Flow!ProducedIsSunk' /\ Flow!ExitTellsTheFile'
  BY <1>1 DEF Flow!ProducedIsSunk, Flow!ExitTellsTheFile
<1>4. asking.kind = "review" /\ asking.review
  BY DEF Flow!DecisionOf
<1>5. Flow!ReviewIsNotLost'
  <2>1. CASE /\ Len(sunk) > start /\ rolePc' = "idle"
             /\ plan' = <<Flow!PlanOf(result[1], artifact)>>
    <3>1. artifact.payload \in Flow!Payload
      BY <2>1 DEF RolesInv, SinkInv
    <3>2. /\ plan'[1].decisions = (IF review THEN <<asking>> ELSE <<>>)
                                  \o [k \in 1..artifact.payload.requests |-> other]
          /\ artifact.payload.requests \in 0..1
      BY <2>1, <3>1 DEF Flow!PlanOf, Flow!Payload
    <3>3. review => other.review
      BY DEF Flow!DecisionOf
    <3>4. (result[1].review \/ artifact.payload.review) => review = TRUE
      BY DEF Flow!ReviewRequired
    <3> DEFINE of == plan'[1].decisions
    <3> HIDE DEF review, asking, other
    <3>5. review = TRUE => /\ of # <<>> /\ of[1] = asking
                    /\ \A k \in DOMAIN of : of[k] = asking \/ of[k] = other
      BY <3>2, ReviewLeads
    <3>6. review = TRUE => /\ of # <<>> /\ of[1].kind = "review"
                           /\ \A k \in DOMAIN of : of[k].review
      BY <1>4, <3>3, <3>5
    <3>7. Len(sunk) > start =>
            (result'[1].review \/ sunk'[Len(sunk')].payload.review <=>
             result[1].review \/ artifact.payload.review)
      BY <1>1
    <3>8. review = TRUE => /\ plan'[1].decisions # <<>>
                           /\ plan'[1].decisions[1].kind = "review"
                           /\ \A k \in DOMAIN plan'[1].decisions : plan'[1].decisions[k].review
      BY <3>6
    <3> HIDE DEF artifact, of
    <3>9. Flow!ReviewWanted' => review = TRUE
      BY <1>1, <2>1, <3>4, <3>7 DEF Flow!ReviewWanted
    <3> QED
      BY <3>8, <3>9 DEF Flow!ReviewIsNotLost
  <2>2. CASE /\ Len(sunk) = start /\ rolePc' = "idle"
             /\ plan' = <<[tasks |-> "none", decisions |-> <<asking>>]>>
    <3> HIDE DEF asking
    <3>1. plan'[1].decisions = <<asking>>
      BY <2>2
    <3>2. plan'[1].decisions # <<>> /\ plan'[1].decisions[1] = asking
      BY <3>1
    <3>3. \A k \in DOMAIN plan'[1].decisions : plan'[1].decisions[k] = asking
      BY <3>1
    <3> QED
      BY <1>4, <3>2, <3>3 DEF Flow!ReviewIsNotLost
  <2>3. CASE rolePc' = "thrown"
    BY <2>3 DEF Flow!ReviewIsNotLost
  <2> QED
    BY <1>1, <2>1, <2>2, <2>3
<1> QED
  BY <1>2, <1>3, <1>5 DEF RolesInv

\* The other callers' steps leave a planning request and a command alone.
LEMMA HarnessesRecord ==
  ASSUME RolesInv,
         \/ Flow!Return \/ Flow!RecordFlow \/ Flow!SkipDogfood \/ Flow!WriteEvidence
         \/ Flow!DogfoodFails \/ Flow!Killed
  PROVE  RolesInv'
<1>1. /\ caller' = caller /\ caller \in {"embedder", "harness", "dogfood"}
      /\ rolePc' \in {"idle", "writing", "thrown"}
      /\ rolePc' = "writing" => caller = "dogfood"
  BY DEF Flow!Return, Flow!RecordFlow, Flow!SkipDogfood, Flow!WriteEvidence, Flow!DogfoodFails,
         Flow!Killed, Flow!InHarness, Flow!Over, Flow!outside, RolesInv, OutcomeInv
<1>2. \/ UNCHANGED <<sunk, start>>
      \/ sunk' = <<>> /\ start' = 0
  BY DEF Flow!Return, Flow!RecordFlow, Flow!SkipDogfood, Flow!WriteEvidence, Flow!DogfoodFails,
         Flow!Killed, Flow!Over
<1>3. SinkInv'
  <2>1. CASE UNCHANGED <<sunk, start>>
    BY <1>1, <2>1 DEF RolesInv, SinkInv
  <2>2. CASE sunk' = <<>> /\ start' = 0
    <3>1. <<>> \in Seq({sunk'[k] : k \in DOMAIN sunk'}) /\ DOMAIN sunk' = {}
      BY <2>2
    <3> QED
      BY <1>1, <2>2, <3>1 DEF SinkInv
  <2> QED
    BY <1>2, <2>1, <2>2
<1>4. OutcomeInv'
  BY <1>1 DEF OutcomeInv
<1> QED
  BY <1>1, <1>3, <1>4
  DEF RolesInv, Flow!ProducedIsSunk, Flow!ReviewIsNotLost, Flow!ExitTellsTheFile

\* A command's result, or the error that took its place, is what its code says.
LEMMA CommandsExit ==
  ASSUME RolesInv,
         \/ Flow!RejectUsage \/ Flow!RejectInput \/ Flow!WriteResult \/ Flow!ResultWriteFails
         \/ Flow!WriteError \/ Flow!ErrorWriteFails
  PROVE  RolesInv'
<1>1. /\ UNCHANGED <<caller, sunk, start>> /\ caller = "cli"
      /\ rolePc' \in {"idle", "reporting"}
  BY DEF Flow!RejectUsage, Flow!RejectInput, Flow!WriteResult, Flow!ResultWriteFails,
         Flow!WriteError, Flow!ErrorWriteFails, Flow!ReportFailure, Flow!outside, RolesInv,
         OutcomeInv
<1>2. OutcomeInv'
  BY <1>1 DEF Flow!RejectUsage, Flow!RejectInput, Flow!WriteResult, Flow!ResultWriteFails,
         Flow!WriteError, Flow!ErrorWriteFails, Flow!ReportFailure, OutcomeInv
<1>3. SinkInv'
  BY <1>1 DEF RolesInv, SinkInv
<1>4. Flow!ProducedIsSunk' /\ Flow!ReviewIsNotLost'
  BY <1>1 DEF Flow!ProducedIsSunk, Flow!ReviewIsNotLost
<1>5. Flow!ExitTellsTheFile'
  <2>1. CASE Flow!WriteResult
    <3>1. /\ rolePc = "done" /\ file' = [run |-> runs, holds |-> result[1].status]
          /\ roleExit' = Flow!ExitCode(result[1]) /\ UNCHANGED <<runs, result>>
      BY <2>1 DEF Flow!WriteResult
    <3>2. Flow!ExitCode(result[1]) \in {"ok", "blocked", "needs_human"}
      BY <3>1 DEF Flow!ExitCode, RolesInv, OutcomeInv
    <3>3. Flow!ExitCode(result'[1]) = roleExit'
      BY <3>1
    <3> QED
      BY <3>1, <3>2, <3>3 DEF Flow!ExitTellsTheFile
  <2>2. CASE Flow!WriteError
    BY <2>2 DEF Flow!WriteError, Flow!ExitTellsTheFile, RolesInv, OutcomeInv
  <2>3. CASE Flow!RejectUsage \/ Flow!ErrorWriteFails
    BY <2>3 DEF Flow!RejectUsage, Flow!ErrorWriteFails, Flow!ExitTellsTheFile
  <2>4. CASE Flow!RejectInput \/ Flow!ResultWriteFails
    BY <2>4 DEF Flow!RejectInput, Flow!ResultWriteFails, Flow!ReportFailure,
                Flow!ExitTellsTheFile
  <2> QED
    BY <2>1, <2>2, <2>3, <2>4
<1> QED
  BY <1>2, <1>3, <1>4, <1>5 DEF RolesInv

\* At first nothing was asked for.
LEMMA RolesInvInit == Flow!Init => RolesInv
<1> SUFFICES ASSUME Flow!Init PROVE RolesInv
  OBVIOUS
<1>1. /\ rolePc = "idle" /\ sunk = <<>> /\ start = 0 /\ plan = <<>> /\ roleExit = "none"
  BY DEF Flow!Init
<1>2. <<>> \in Seq({sunk[k] : k \in DOMAIN sunk})
  OBVIOUS
<1>3. SinkInv
  BY <1>1, <1>2 DEF SinkInv
<1> QED
  BY <1>1, <1>3
  DEF RolesInv, OutcomeInv, Flow!ProducedIsSunk, Flow!ReviewIsNotLost, Flow!ExitTellsTheFile

LEMMA RolesInvNext == RolesInv /\ [Flow!Next]_(Flow!vars) => RolesInv'
<1> SUFFICES ASSUME RolesInv, [Flow!Next]_(Flow!vars) PROVE RolesInv'
  OBVIOUS
<1>1. CASE UNCHANGED Flow!vars
  BY <1>1
  DEF Flow!vars, Flow!outside, RolesInv, SinkInv, OutcomeInv, Flow!ProducedIsSunk,
      Flow!ReviewIsNotLost, Flow!ReviewWanted, Flow!ExitTellsTheFile, Flow!ExitCode, Flow!Matches
<1>2. CASE Flow!Invoke \/ Flow!AskForPlan \/ Flow!RunCase \/ Flow!RunDogfood
           \/ Flow!InvokeFromFile
  BY <1>2, InvocationsBegin
  DEF Flow!Invoke, Flow!AskForPlan, Flow!RunCase, Flow!RunDogfood, Flow!InvokeFromFile,
      Flow!outside
<1> QED
  BY <1>1, <1>2, ModelsAnswer, SinksTake, PlansAreReturned, HarnessesRecord, CommandsExit
  DEF Flow!Next

\* A result that says "produced" refers to an artifact that this very invocation
\* put into the sink before it returned, whoever asked, but for the command line,
\* which keeps none; also when a sink rejects what it has kept.
THEOREM ProducedResultsAreSunk == Flow!Spec => []ProducedIsSunk
<1>1. RolesInv => ProducedIsSunk
  BY DEF RolesInv, ProducedIsSunk
<1> QED
  BY <1>1, RolesInvInit, RolesInvNext, PTL DEF Flow!Spec

\* A review that the model asks for, in the envelope or in the payload, or the
\* runner because it may not call a model, leads the decisions of the plan, and
\* every one of them is marked with it.
THEOREM ReviewsReachTheSupervisor == Flow!Spec => []ReviewIsNotLost
<1>1. RolesInv => ReviewIsNotLost
  BY DEF RolesInv, ReviewIsNotLost
<1> QED
  BY <1>1, RolesInvInit, RolesInvNext, PTL DEF Flow!Spec

\* The code of a command tells what its output path holds, after any number of
\* commands over the same path and whichever write of theirs failed.
THEOREM CodesTellTheFile == Flow!Spec => []ExitTellsTheFile
<1>1. RolesInv => ExitTellsTheFile
  BY DEF RolesInv, ExitTellsTheFile
<1> QED
  BY <1>1, RolesInvInit, RolesInvNext, PTL DEF Flow!Spec
=============================================================================
