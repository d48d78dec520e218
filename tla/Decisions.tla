----------------------------- MODULE Decisions -----------------------------
(***************************************************************************)
(* A decision on its way: the policy provider asks the engine and settles   *)
(* the request itself, or hands it, enriched, to the tiered provider, whose *)
(* tiers are rules, a bounded model call, a read-only worker session, and a *)
(* human.  Whoever settles it parks the node if a human is to decide,       *)
(* records the decision, notifies, and returns the record to the supervisor,*)
(* who makes an action of it.  The process may be killed at any await.      *)
(***************************************************************************)
EXTENDS DecisionPolicy

CONSTANTS Setting,       \* a request and how the parts are configured
          DenyTools, AllowTools,  \* static rules of the tiered provider
          Texts,         \* what surfaces may name
          MaxEvents,     \* events a Tier 2 session may produce
          MaxAsks        \* bound: how often decisions are asked for

\* Where a request comes from: a tool call, a worker's question, a child's.
Surface == {"permission", "input", "routing"}

\* Rules and surfaces are patterns, what split("*") makes of a text.
WrittenOut(list, q) ==
  /\ list \in Seq({list[k] : k \in DOMAIN list})
  /\ \A k \in DOMAIN list : /\ list[k].pattern \in Pattern /\ list[k].effect \in {"allow", "deny"}
                            /\ \A key \in DOMAIN list[k].contains :
                                 list[k].contains[key] \in Seq(Character)
                            /\ \A a, b \in list[k].scope : a = b
  /\ q.surface = "permission" => q.tool \in Seq(Character)
  /\ \A key \in DOMAIN q.arguments : q.arguments[key] \in Seq(Character)
  /\ \A a \in Changed(q) : a.id \in Pattern
  /\ \A sibling \in q.siblings : \A b \in sibling.owns \cup sibling.dependsOn : b.id \in Pattern

ASSUME DecisionsAssumption ==
  /\ \A s \in Setting : /\ s.profile \in [Domain -> Level] /\ s.baseline \in BOOLEAN
                        /\ s.engine \in BOOLEAN /\ s.model \in BOOLEAN
                        /\ {"surface", "domain", "scope", "risk", "baseline"} \subseteq DOMAIN s.request
                        /\ s.request.surface \in Surface
                        /\ s.request.domain \in Domain \cup {"unstated"}
                        /\ s.request.family \in Domain \cup {"none"}
                        /\ s.request.scope \in Scope \cup {"unstated"}
                        /\ WrittenOut(s.rules, s.request)
  /\ Texts \subseteq Seq(Character)
  /\ MaxEvents \in Nat \ {0} /\ MaxAsks \in Nat \ {0}

VARIABLES profile,    \* the autonomy profile, the same for every part
          rules,      \* ordered static rules of the policy engine
          baseline,   \* does the policy approve the product baseline?
          engine,     \* is the policy provider wrapped around the tiered one?
          model,      \* has the tiered provider a model to call?
          request,    \* the request under way, as the engine enriched it
          pc,
          outcome,    \* [tier, verdict] as settled
          session,    \* Tier 2 session: "none", "live" or "disposed"
          events,     \* how many events it has produced
          node,       \* the node's status on disk
          log,        \* tiers of the recorded decisions, in order
          notified,   \* has this process told the human of this decision?
          action,     \* what the supervisor makes of the record
          arrived,    \* history: the request as it arrived
          verdict,    \* history: the engine's verdict, or <<>>
          asks

config == <<profile, rules, baseline, engine, model>>
vars == <<config, request, pc, outcome, session, events, node, log,
          notified, action, arrived, verdict, asks>>

\* The verdicts a model or an investigation may return.
ModelVerdict ==
  [type : {"decision", "human"}, choice : {"option", "none"},
   confidence : {2, 9}, risk : {3, 6, 8}, block : {FALSE}]
  \cup {[type |-> "decision", choice |-> "option", confidence |-> 9, risk |-> 3,
         block |-> TRUE]}

Verdict(type, choice, confidence, risk) ==
  [type |-> type, choice |-> choice, confidence |-> confidence, risk |-> risk, block |-> FALSE]
HumanVerdict == [type |-> "human", choice |-> "none", confidence |-> 0, risk |-> 10, block |-> TRUE]
Settled(tier, v) == [tier |-> tier, verdict |-> v]
ToHuman == Settled(3, HumanVerdict)
NotSettled == Settled(4, HumanVerdict)

\* firstOption: the first option a request offers, or a word that is none.
FirstOption(q) == IF q.options THEN "option" ELSE "proceed"

\* What a provider reads of a request: unstated parts have defaults, which the
\* classification the engine writes into the context replaces.
PolicyContext(q) ==
  LET domain == IF q.domain = "unstated" THEN "engineering" ELSE q.domain
  IN  [domain |-> domain, level |-> profile[domain],
       scope |-> IF q.scope = "unstated" THEN "moderate" ELSE q.scope,
       baseline |-> q.baseline,
       declaredRisk |-> IF q.risk \in 0..10 THEN q.risk ELSE 5]

----------------------------------------------------------------------------
(* The policy provider *)

Enriched(q, v) ==
  [q EXCEPT !.domain = v.domain, !.scope = v.scope,
            !.risk = RiskFromPolicyVerdict(v), !.baseline = baseline]

SettledByPolicy(q, v) ==
  LET risk == RiskFromPolicyVerdict(v)
  IN  CASE v.outcome = "permit" /\ q.surface = "permission" ->
             Settled(0, Verdict("access", "allow", 10, risk))
        [] v.outcome = "permit" /\ q.surface # "permission" ->
             Settled(0, Verdict("decision", FirstOption(q), 10, risk))
        [] v.outcome = "stop" ->
             IF v.byRule THEN Settled(0, Verdict("access", "deny", 10, risk))
             ELSE ToHuman

Init ==
  /\ \E s \in Setting :
       /\ profile = s.profile /\ rules = s.rules /\ baseline = s.baseline
       /\ engine = s.engine /\ model = s.model
       /\ request = s.request /\ arrived = s.request
  /\ pc = "idle" /\ outcome = NotSettled
  /\ session = "none" /\ events = 0
  /\ node = "running" /\ log = <<>> /\ notified = FALSE /\ action = "none"
  /\ verdict = <<>> /\ asks = 0

Ask ==
  /\ pc = "idle" /\ asks < MaxAsks
  /\ asks' = asks + 1
  /\ notified' = FALSE /\ action' = "none" /\ session' = "none" /\ events' = 0
  /\ IF engine
     THEN LET v == IF arrived.surface = "permission"
                   THEN EvaluatePermission(rules, arrived)
                   ELSE EvaluateRouting(profile, baseline, arrived)
          IN  /\ request' = Enriched(arrived, v)
              /\ verdict' = <<v>>
              /\ IF v.outcome = "route"
                 THEN pc' = "tier0" /\ outcome' = NotSettled
                 ELSE pc' = "settled" /\ outcome' = SettledByPolicy(arrived, v)
     ELSE request' = arrived /\ verdict' = <<>> /\ pc' = "tier0"
          /\ outcome' = NotSettled
  /\ UNCHANGED <<config, node, log, arrived>>

----------------------------------------------------------------------------
(* The tiered provider *)

ToolRule(tool) ==
  CASE tool \in DenyTools -> "deny"
    [] tool \notin DenyTools /\ tool \in AllowTools -> "allow"
    [] OTHER -> "none"

\* evaluatePermissionTier0
PermissionOutcome(q) ==
  LET rule == ToolRule(q.tool)
      p == PolicyContext(q)
      provisional == Verdict("access", "allow", IF rule = "allow" THEN 9 ELSE 6,
                             p.declaredRisk)
  IN  IF rule = "deny" THEN Settled(0, Verdict("access", "deny", 10, 10))
      ELSE IF rule = "none" /\ p.level # "delegate"
           THEN Settled(0, Verdict("access", "deny", 6, p.declaredRisk))
      ELSE IF Escalates(p, provisional) THEN ToHuman
      ELSE Settled(0, provisional)

Tier0Permission ==
  /\ pc = "tier0" /\ request.surface = "permission"
  /\ outcome' = PermissionOutcome(request)
  /\ pc' = "settled"
  /\ UNCHANGED <<config, request, session, events, node, log, notified,
                 action, arrived, verdict, asks>>

\* evaluateRoutingTier0, then Tier 1 unless that settles it.
Tier0Routing ==
  /\ pc = "tier0" /\ request.surface # "permission"
  /\ LET p == PolicyContext(request)
         human == \/ p.level = "always_in_loop" /\ p.scope # "local"
                  \/ p.level = "big_questions_only" /\ p.scope = "major"
         local == p.level = "delegate" /\ p.scope = "local"
     IN  IF human THEN outcome' = ToHuman /\ pc' = "settled"
         ELSE IF local
              THEN /\ outcome' = Settled(0, Verdict("decision", FirstOption(request), 8, 2))
                   /\ pc' = "settled"
         ELSE IF ~model THEN outcome' = ToHuman /\ pc' = "settled"
         ELSE outcome' = NotSettled /\ pc' = "tier1"
  /\ UNCHANGED <<config, request, session, events, node, log, notified,
                 action, arrived, verdict, asks>>

\* What becomes of a verdict of tier t (1: the model, 2: the investigation). An
\* investigation that still escalates is recorded on its own first.
Judged(t, v) ==
  /\ IF Escalates(PolicyContext(request), v)
     THEN /\ outcome' = Settled(3, [v EXCEPT !.type = "human", !.block = TRUE])
          /\ log' = IF t = 2 THEN Append(log, 2) ELSE log
     ELSE outcome' = Settled(t, v) /\ log' = log
  /\ pc' = "settled"

\* The bounded model call; a verdict of high risk or low confidence is taken to
\* a worker session that may only read.
ModelAnswers ==
  /\ pc = "tier1"
  /\ \E v \in ModelVerdict :
       IF v.risk >= 7 \/ v.confidence <= 4
       THEN /\ session' = "live" /\ events' = 0
            /\ pc' = "tier2"
            /\ UNCHANGED <<outcome, log>>
       ELSE Judged(1, v) /\ UNCHANGED <<session, events>>
  /\ UNCHANGED <<config, request, node, notified, action, arrived, verdict, asks>>

\* The model call fails: the whole decision is rejected, nothing is recorded.
ModelFails ==
  /\ pc = "tier1"
  /\ pc' = "rejected"
  /\ UNCHANGED <<config, request, outcome, session, events, node, log,
                 notified, action, arrived, verdict, asks>>

\* An event that needs an answer, or a log line.
InvestigationGoesOn ==
  /\ pc = "tier2" /\ events < MaxEvents
  /\ events' = events + 1
  /\ UNCHANGED <<config, request, pc, outcome, session, node, log,
                 notified, action, arrived, verdict, asks>>

\* The finally clause of the investigation.
EndSession == "disposed"

InvestigationAnswers ==
  /\ pc = "tier2" /\ events < MaxEvents
  /\ \E v \in ModelVerdict : Judged(2, v)
  /\ events' = events + 1
  /\ session' = EndSession
  /\ UNCHANGED <<config, request, node, notified, action, arrived,
                 verdict, asks>>

\* The worker exits, or what it returns is not a verdict.
InvestigationFails ==
  /\ pc = "tier2" /\ events < MaxEvents
  /\ events' = events + 1
  /\ session' = EndSession
  /\ pc' = "rejected"
  /\ UNCHANGED <<config, request, outcome, node, log, notified, action,
                 arrived, verdict, asks>>

InvestigationRunsOut ==
  /\ pc = "tier2" /\ events = MaxEvents
  /\ session' = EndSession
  /\ Judged(2, HumanVerdict)
  /\ UNCHANGED <<config, request, events, node, notified, action,
                 arrived, verdict, asks>>

----------------------------------------------------------------------------
(* resolve, the same in both providers: park, record, notify *)

Park ==
  /\ pc = "settled" /\ outcome.tier = 3
  /\ node' = "awaiting-human"
  /\ pc' = "parked"
  /\ UNCHANGED <<config, request, outcome, session, events, log,
                 notified, action, arrived, verdict, asks>>

\* Mutation: the node is parked only after the decision is recorded.
RecordFirst == pc = "settled"

Recordable == pc = "parked" \/ (pc = "settled" /\ outcome.tier # 3)

Record ==
  /\ Recordable
  /\ log' = Append(log, outcome.tier)
  /\ pc' = "recorded"
  /\ UNCHANGED <<config, request, outcome, session, events, node,
                 notified, action, arrived, verdict, asks>>

Notify ==
  /\ pc = "recorded" /\ outcome.tier = 3 /\ ~notified
  /\ notified' = TRUE
  /\ UNCHANGED <<config, request, pc, outcome, session, events, node,
                 log, action, arrived, verdict, asks>>

----------------------------------------------------------------------------
(* The supervisor *)

DecisionSize(q) ==
  IF q.impact = "large" \/ q.scope = "major" THEN "large" ELSE "small"

SelectDecisionAction(q, v) ==
  IF Escalates(PolicyContext(q), v) THEN "await-human"
  ELSE IF DecisionSize(q) = "large" THEN "create-follow-up"
  ELSE "patch-and-resume"

\* A permission: the worker is told at once, whatever the tier.
PermissionCommand(v) ==
  IF v.type = "access" /\ v.choice = "allow" THEN "approve" ELSE "deny"

\* A worker's question: one of its options, or the response in words.
InputCommand(q, v) ==
  IF q.options /\ v.choice = "option" THEN "choose_option" ELSE "respond"

\* The record is written once more and answered with a command (the worker goes
\* on, parked or not) or, for a child's question, made into an action that is
\* recorded as well and parks the parent's node or lets it go on.
Act ==
  /\ pc = "recorded" /\ (outcome.tier = 3 => notified)
  /\ action' = CASE request.surface = "permission" -> PermissionCommand(outcome.verdict)
                 [] request.surface = "input" -> InputCommand(request, outcome.verdict)
                 [] request.surface = "routing" ->
                      SelectDecisionAction(request, outcome.verdict)
  /\ log' = log \o IF request.surface = "routing" THEN <<outcome.tier, outcome.tier>>
                   ELSE <<outcome.tier>>
  /\ node' = IF action' = "await-human" THEN "awaiting-human" ELSE node
  /\ pc' = "acted"
  /\ UNCHANGED <<config, request, outcome, session, events, notified,
                 arrived, verdict, asks>>

\* The worker or the child goes on to its next question.
NextQuestion ==
  /\ pc = "acted" /\ action # "await-human" /\ asks < MaxAsks
  /\ pc' = "idle"
  /\ UNCHANGED <<config, request, outcome, session, events, node, log,
                 notified, action, arrived, verdict, asks>>

Busy == {"tier0", "tier1", "tier2", "settled", "parked", "recorded"}

\* The process dies or the run is over, and another one starts: it runs every
\* node that is not done or failed, a parked one included.
Restart ==
  /\ pc \in {"rejected", "acted"} \cup Busy
  /\ pc' = "idle"
  /\ node' = "running"
  /\ outcome' = NotSettled /\ session' = "none" /\ action' = "none"
  /\ notified' = FALSE
  /\ UNCHANGED <<config, request, events, log, arrived, verdict, asks>>

Provide ==
  \/ Ask \/ Tier0Permission \/ Tier0Routing \/ ModelAnswers \/ ModelFails
  \/ InvestigationGoesOn \/ InvestigationAnswers \/ InvestigationFails
  \/ InvestigationRunsOut \/ Park \/ Record \/ Notify
  \/ Act \/ NextQuestion

Next == Provide \/ Restart

Spec == Init /\ [][Next]_vars

----------------------------------------------------------------------------
(* Properties *)

\* Every variable has its type, and what is settled has a tier.
TypeOK ==
  /\ profile \in [Domain -> Level] /\ baseline \in BOOLEAN /\ engine \in BOOLEAN
  /\ model \in BOOLEAN /\ notified \in BOOLEAN
  /\ pc \in {"idle", "rejected", "acted"} \cup Busy
  /\ outcome.tier \in 0..4 /\ (pc \in {"settled", "parked", "recorded", "acted"}
                               => outcome.tier \in 0..3)
  /\ session \in {"none", "live", "disposed"} /\ events \in 0..MaxEvents
  /\ node \in {"running", "awaiting-human"}
  /\ log \in Seq(0..3) /\ asks \in 0..MaxAsks

\* The provider and the supervisor weigh a child's question twice, each with
\* its own reading of the request: they agree on whether a human is needed.
\* (selectDecisionAction evaluates the threshold again on the enriched request.)
SupervisorAgrees ==
  pc = "acted" /\ request.surface = "routing"
    => (outcome.tier = 3 <=> action = "await-human")

\* A rule covers a tool call in the sense of what its pattern means, not of how
\* it is scanned; a text is contained in an argument that has it between two stars.
Covers(rule, q) ==
  /\ Names(rule.pattern, q.tool)
  /\ \A key \in DOMAIN rule.contains :
       key \in DOMAIN q.arguments /\ Names(<< <<>>, rule.contains[key], <<>> >>, q.arguments[key])
  /\ rule.scope = {} \/ \E prefix \in rule.scope, s \in q.owned : StartsWith(s, prefix)
  /\ rule.altitude \in {"any", q.altitude}
Covering == {i \in DOMAIN rules : Covers(rules[i], arrived)}
First == CHOOSE i \in Covering : \A j \in Covering : i <= j

\* The first rule that covers a tool call, its arguments, what its node owns and
\* its altitude has the last word.
RulesAreHonoured ==
  pc = "acted" /\ engine /\ request.surface = "permission" /\ Covering # {}
    => action = IF rules[First].effect = "allow" THEN "approve" ELSE "deny"

\* The engine never lets a routing decision through by itself when something it
\* changes and something a sibling owns or depends on can be the same thing, nor
\* when siblings are at work and nothing it changes can be read. A bare entry
\* beside one that can be read is outside of this: the engine does not see it.
NoOverlapUnnoticed ==
  /\ pc = "settled" /\ verdict # <<>>
  /\ arrived.surface # "permission" /\ verdict[1].outcome = "permit"
  => /\ arrived.siblings # {} => Changed(arrived) # {}
     /\ \A s \in arrived.siblings, a \in Changed(arrived) :
          \A b \in s.owns \cup s.dependsOn :
            a.kind = b.kind => ~Share(a.id, b.id, Texts)

\* A tier-3 decision enters the log only when the node is parked on disk: a
\* process that dies between the two leaves a parked node without a decision,
\* never a pending decision on a node that runs.
ParkedBeforeRecorded ==
  [][Len(log') > Len(log) /\ log'[Len(log')] = 3 => node' = "awaiting-human"]_vars

\* Whichever way an investigation ends, its worker session is disposed of.
SessionsAreDisposed ==
  [][pc = "tier2" /\ pc' \notin {"tier2", "idle"} => session' = "disposed"]_vars

\* The architecture record: past the threshold the run is parked for a human.
\* An escalated verdict keeps the choice it suggests, and a worker's question
\* is answered with it.
EscalationsWait ==
  pc = "acted" /\ outcome.tier = 3 => action # "choose_option"
=============================================================================
