----------------------------- MODULE MCJudgments -----------------------------
(***************************************************************************)
(* The four of Judgments side by side: a behaviour is one of one side, the    *)
(* others rest.                                                              *)
(*                                                                          *)
(* Validation: three calls, of every kind of command, timeout and model.      *)
(* Roles: what a role is asked for, as it should be and with each part amiss; *)
(* the shipped cases, two cases of one role, and others of one's own.         *)
(* Proof: a story that an impact can miss in each way, and one that asks for  *)
(* a decision; a second run over the files of the first.                      *)
(***************************************************************************)
EXTENDS MCDecisions, RoleFixtures, Judgments

CONSTANTS s1, r1, p1, p2

VARIABLE side

-----------------------------------------------------------------------------
WellFormed ==
  {[role |-> "architect", version |-> 1, operation |-> "assess_architecture_impact",
    expects |-> {"ArchitectureImpact"}, tiers |-> {"standard"}],
   [role |-> "planner", version |-> 1, operation |-> "decompose_initiative",
    expects |-> {"PlanProposal", "ReviewJudgment"}, tiers |-> {"none", "frontier"}],
   [role |-> "quality_governor", version |-> 1, operation |-> "review_artifact",
    expects |-> {"ReviewJudgment"}, tiers |-> {"small"}]}
RoleAsks ==
  WellFormed \cup UNION {{[a EXCEPT !.role = "unknown"], [a EXCEPT !.version = 2],
                          [a EXCEPT !.operation = "other"], [a EXCEPT !.expects = {}],
                          [a EXCEPT !.tiers = {"none"}]} : a \in WellFormed}

Case(name, text, id) == [role |-> name, artifact |-> PlannerFixture(text), id |-> id]
RoleCases ==
  {V1Cases("a"),
   <<Case("planner", "a", 1), Case("planner", "a", 2)>>,
   <<Case("planner", "a", 1), Case("planner", "b", 2), Case("architect", "b", 3)>>}

MCWording == {"a", "b"}

RolesRest ==
  /\ caller = "none" /\ cases = <<>> /\ asked = <<>> /\ inv = <<>> /\ rolePc = "idle"
  /\ held = <<>> /\ sunk = <<>> /\ start = 0 /\ result = <<>> /\ flows = <<>> /\ plan = <<>>
  /\ file = <<>> /\ roleExit = "none" /\ evidence = <<>> /\ runs = 0

-----------------------------------------------------------------------------
MCNamed == {s1}
MCReason == {r1}
MCPrimitive == {p1, p2}
MCStories ==
  {[surfaces |-> {s1}, reasons |-> {r1}, primitives |-> {p1}, changes |-> 1, decision |-> FALSE],
   [surfaces |-> {}, reasons |-> {r1}, primitives |-> {p1}, changes |-> 0, decision |-> TRUE]}

ProofRest ==
  /\ proofPc = "idle" /\ proofExit = 0 /\ run = 0 /\ proofStory = <<>> /\ role = <<>>
  /\ impact = <<>> /\ report = <<>> /\ next = 1 /\ files = <<>> /\ summary = Proof!NoSummary

-----------------------------------------------------------------------------
ASSUME JudgmentsAssumption

ValidationRest ==
  /\ declared = Validated!NoCommand /\ validated = "leaf" /\ client = "structured"
  /\ valPc = "idle" /\ late = FALSE /\ status = "fail"
  /\ reports = {} /\ records = {} /\ answer = <<>> /\ calls = 0

DecisionsRest ==
  /\ profile = <<>> /\ rules = <<>> /\ baseline = FALSE /\ engine = FALSE /\ model = FALSE
  /\ request = Plain /\ arrived = Plain
  /\ pc = "idle" /\ outcome = NotSettled /\ session = "none" /\ events = 0
  /\ node = "running" /\ log = <<>> /\ notified = FALSE /\ action = "none"
  /\ verdict = <<>> /\ asks = 0

MCInit ==
  \/ side = "decisions" /\ Init /\ ValidationRest /\ RolesRest /\ ProofRest
  \/ side = "validation" /\ DecisionsRest /\ Validated!Init /\ RolesRest /\ ProofRest
  \/ side = "roles" /\ DecisionsRest /\ ValidationRest /\ Flow!Init /\ ProofRest
  \/ side = "proof" /\ DecisionsRest /\ ValidationRest /\ RolesRest /\ Proof!Init

MCNext ==
  /\ UNCHANGED side
  /\ \/ side = "decisions" /\ Next /\ UNCHANGED <<valVars, roleVars, proofVars>>
     \/ side = "validation" /\ Validated!Next /\ UNCHANGED <<vars, roleVars, proofVars>>
     \/ side = "roles" /\ Flow!Next /\ UNCHANGED <<vars, valVars, proofVars>>
     \/ side = "proof" /\ Proof!Next /\ UNCHANGED <<vars, valVars, roleVars>>

MCSpec == MCInit /\ [][MCNext]_<<side, vars, valVars, roleVars, proofVars>>
=============================================================================
