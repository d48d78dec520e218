--------------------------- MODULE DecisionPolicy ---------------------------
(***************************************************************************)
(* The Decision Policy Engine as operators: static permission rules, the    *)
(* classification of a request, the conflict with siblings, the autonomy    *)
(* threshold, and the verdict the engine makes of them.                     *)
(***************************************************************************)
EXTENDS Wildcards, Integers

Domain == {"engineering", "product", "design"}
Scope == {"local", "moderate", "major"}
Level == {"always_in_loop", "big_questions_only", "delegate"}
Kind == {"file", "interface", "workflow", "data", "config", "schema", "governance"}

(* A request: what its context states (or leaves "unstated"), the surfaces   *)
(* it touches or owns (owned and seen: the entries of ownership_scope and of *)
(* touched_surfaces, which the classifier reads; reported: those only in a   *)
(* touch report or an ownership surface), the arguments of a tool call that  *)
(* are strings, by key, the siblings the supervisor passes along and those a *)
(* caller matched as dependencies.                                           *)
(*                                                                           *)
(* A surface is [kind, id], id a pattern.  An entry of a list whose text      *)
(* begins with no known kind is "bare"; the lists of files, interfaces and   *)
(* workflow steps, and all lists of a sibling, give their entries a kind.    *)
(* A sibling has what it owns and what it depends on.                        *)
(*                                                                           *)
(* A rule of the policy is [effect, pattern, contains, scope, altitude]:     *)
(* contains has the texts that arguments must contain, by key, scope is {}    *)
(* or has the one prefix that an entry of ownership_scope must begin with, a  *)
(* kind (or "bare") and the beginning of an identifier.                      *)

----------------------------------------------------------------------------
(* Classification *)

ClassifyDomain(q) ==
  CASE q.domain # "unstated" -> q.domain
    [] OTHER -> IF q.family # "none" THEN q.family ELSE "engineering"

MajorAltitude == {"initiative", "epic", "strategy", "vision", "root"}

Governs(s) == s.kind = "governance" \/ (s.kind = "config" /\ HasStar(s.id))
SharedContract(s) == s.kind \in {"interface", "config", "schema"}
TaskOwned(s) == s.kind \in {"file", "workflow"}

Listed(q) == q.owned \cup q.seen

\* The scope rules in their order; the first that matches decides.
ClassifyScope(q) ==
  IF q.scope # "unstated" THEN q.scope
  ELSE IF q.altitude \in MajorAltitude \/ \E s \in Listed(q) : Governs(s)
       THEN "major"
  ELSE IF q.altitude = "task" /\ Listed(q) # {} /\ \A s \in Listed(q) : TaskOwned(s)
       THEN "local"
  ELSE "moderate"

RiskForLevel ==
  [low |-> 2, medium |-> 5, high |-> 8, critical |-> 10, unstated |-> 5]

ClassifyRisk(q) ==
  IF q.risk \in 0..10 THEN q.risk ELSE RiskForLevel[q.riskLevel]

ClassifyDecision(q) ==
  [domain |-> ClassifyDomain(q), scope |-> ClassifyScope(q), risk |-> ClassifyRisk(q)]

----------------------------------------------------------------------------
(* The autonomy threshold: a policy context (domain, level, scope, whether    *)
(* the product baseline is approved) and a verdict                            *)

Escalates(policy, v) ==
  \/ v.type = "human"
  \/ v.block
  \/ /\ policy.domain = "product" /\ policy.level = "delegate"
     /\ ~policy.baseline /\ policy.scope # "local"
  \/ /\ policy.level = "always_in_loop"
     /\ policy.scope # "local" \/ v.risk >= 4 \/ v.confidence <= 6
  \/ /\ policy.level = "big_questions_only"
     /\ policy.scope = "major" \/ v.risk >= 7 \/ v.confidence <= 4
  \/ /\ policy.level = "delegate"
     /\ v.risk >= 9 \/ v.confidence <= 2

----------------------------------------------------------------------------
(* Conflict with siblings *)

SurfacesOverlap(a, b) == a.kind = b.kind /\ IdentifiersOverlap(a.id, b.id)
SurfacesIntersect(as, bs) == \E a \in as, b \in bs : SurfacesOverlap(a, b)

\* A sibling that comes in a context always has its four lists, so it is
\* incomplete only when it declares nothing at all.
Incomplete(sibling) == sibling.owns = {} /\ sibling.dependsOn = {}

\* The surfaces whose kind can be told: a bare entry is dropped without a word.
Changed(q) == {s \in Listed(q) \cup q.reported : s.kind # "bare"}

AssessConflict(q) ==
  LET known == {s.id : s \in q.siblings}
      hard == \/ Changed(q) = {}
              \/ \E s \in q.siblings : Incomplete(s)
              \/ ~(q.matched \subseteq known)
              \/ \E s \in q.siblings : SurfacesIntersect(Changed(q), s.owns)
      soft == \/ \E s \in q.siblings : SurfacesIntersect(Changed(q), s.dependsOn)
              \/ q.matched # {}
  IN  CASE q.siblings = {} -> "no_conflict"
        [] q.siblings # {} /\ hard -> "hard_conflict"
        [] OTHER -> IF soft THEN "soft_conflict" ELSE "no_conflict"

----------------------------------------------------------------------------
(* The engine *)

ArgumentContains(v, text) == Occurrences(text, v, 0) # {}

ArgumentsContain(rule, q) ==
  \A key \in DOMAIN rule.contains :
    key \in DOMAIN q.arguments /\ ArgumentContains(q.arguments[key], rule.contains[key])

StartsWith(s, prefix) == s.kind = prefix.kind /\ IsPrefix(prefix.text, Text(s.id))

OwnershipScopeMatches(rule, q) ==
  \A prefix \in rule.scope : \E s \in q.owned : StartsWith(s, prefix)

RuleMatches(rule, q) ==
  /\ WildcardMatches(rule.pattern, q.tool)
  /\ ArgumentsContain(rule, q)
  /\ OwnershipScopeMatches(rule, q)
  /\ rule.altitude \in {"any", q.altitude}

\* The first rule that matches wins.
StaticRule(rules, q) ==
  LET hit == SelectInSeq(rules, LAMBDA r : RuleMatches(r, q))
  IN  IF hit = 0 THEN "none" ELSE rules[hit].effect

PolicyVerdict(outcome, conflict, review, c, byRule) ==
  [outcome |-> outcome, conflict |-> conflict, review |-> review,
   domain |-> c.domain, scope |-> c.scope, byRule |-> byRule]

EvaluatePermission(rules, q) ==
  LET c == ClassifyDecision(q)
      rule == StaticRule(rules, q)
  IN  CASE rule = "allow" -> PolicyVerdict("permit", "no_conflict", FALSE, c, TRUE)
        [] rule = "deny"  -> PolicyVerdict("stop", "no_conflict", TRUE, c, TRUE)
        [] OTHER -> PolicyVerdict("route", "no_conflict", TRUE, c, FALSE)

EvaluateRouting(profile, baseline, q) ==
  LET c == ClassifyDecision(q)
      conflict == AssessConflict(q)
      escalates ==
        Escalates([domain |-> c.domain, scope |-> c.scope, baseline |-> baseline,
                   level |-> profile[c.domain]],
                  [type |-> "decision", confidence |-> 10, risk |-> c.risk,
                   block |-> FALSE])
  IN  IF escalates THEN PolicyVerdict("stop", conflict, TRUE, c, FALSE)
      ELSE IF conflict = "no_conflict" THEN PolicyVerdict("permit", conflict, FALSE, c, FALSE)
      ELSE PolicyVerdict("route", conflict, FALSE, c, FALSE)

RiskOfScope == [local |-> 2, moderate |-> 5, major |-> 8]

\* Mutation: what is permitted is rated like a hard conflict.
RiskOneMore(v) == IF v.outcome = "permit" THEN RiskOfScope[v.scope] + 1 ELSE 10

RiskFromPolicyVerdict(v) ==
  IF v.outcome = "stop" \/ v.review THEN 10
  ELSE IF v.conflict = "hard_conflict" THEN 9
  ELSE IF v.conflict = "soft_conflict" THEN 6
  ELSE RiskOfScope[v.scope]
=============================================================================
