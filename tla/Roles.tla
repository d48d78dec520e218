------------------------------- MODULE Roles -------------------------------
(***************************************************************************)
(* A role is a versioned contract around one model call.  The runner finds  *)
(* the role in a registry, skips what it is not asked for, calls the model,  *)
(* makes the answer its own, hands the artifact to the caller's sink and     *)
(* returns an envelope that refers to it.  Four callers: a program with a    *)
(* sink of its own, the command line (which has none and writes the          *)
(* envelope to a file), the planning adapter of the supervisor, and the      *)
(* harness that runs the shipped roles one after the other, against answers  *)
(* of its own or, in the dogfood program, one role against a live model with  *)
(* the evidence written to files.                                            *)
(***************************************************************************)
EXTENDS RoleFixtures, Naturals, Sequences

CONSTANTS Wording,     \* what an artifact may say, beside what is modelled
          Asks,        \* invocations, without their ids
          Cases,       \* lists of cases a harness may be given
          MaxRuns      \* bound: invocations, or commands, of one caller

RolesAssumption ==
  /\ Wording # {} /\ MaxRuns \in Nat \ {0}
  /\ \A cs \in Cases : \A k \in DOMAIN cs :
       /\ cs[k].role \in {"architect", "planner", "quality_governor"}
       /\ cs[k].artifact.payload.text \in Wording

VARIABLES caller,      \* "embedder", "cli", "planning", "harness" or "dogfood"
          cases,       \* the harness's cases
          asked,       \* what the supervisor asks of the planning adapter
          inv,         \* the invocation under way
          pc,
          held,        \* the artifact between the model and the result
          sunk,        \* artifacts the sink has kept, oldest first
          start,       \* how many there were when the invocation began
          result,      \* <<envelope>> of the last invocation, or <<>>
          flows,       \* the harness's flows
          plan,        \* <<what planning returned>>, or <<>>
          file,        \* what the command line's output path holds
          exit,        \* the last command's exit code
          evidence,    \* the dogfood program's files, by the run that wrote them
          runs

outside == <<caller, cases>>
vars == <<outside, asked, inv, pc, held, sunk, start, result, flows, plan,
          file, exit, evidence, runs>>

----------------------------------------------------------------------------
(* The shipped roles *)

ArchitectRole ==
  [role |-> "architect", version |-> 1, output |-> "ArchitectureImpact",
   operations |-> {"assess_architecture_impact", "architecture_impact"}]
PlannerRole ==
  [role |-> "planner", version |-> 1, output |-> "PlanProposal",
   operations |-> {"propose_plan", "decompose_initiative"}]
QualityGovernorRole ==
  [role |-> "quality_governor", version |-> 1, output |-> "ReviewJudgment",
   operations |-> {"review_artifact", "govern_quality"}]

Shipped == {ArchitectRole, PlannerRole, QualityGovernorRole}
Registry ==
  CASE caller = "planning" -> {PlannerRole}
    [] caller = "dogfood" -> {ArchitectRole}
    [] OTHER -> Shipped

\* resolve: an unknown role, or a version nobody registered, is a miss.
Resolve(registry, i) == {d \in registry : d.role = i.role /\ d.version = i.version}

\* `expects` holds the artifacts an invocation requires.
InvocationOf(a, id) ==
  [id |-> id, role |-> a.role, version |-> a.version, operation |-> a.operation,
   expects |-> a.expects, tiers |-> a.tiers]

\* skipReasonFor and expectsRequiredOutput.
SkipReason(d, i) ==
  IF i.operation \notin d.operations THEN "unsupported_operation"
  ELSE IF d.output \notin i.expects THEN "no_required_output"
  ELSE "none"

\* allowsModelBackedCall
AllowsModelBackedCall(i) == i.tiers \cap {"small", "standard", "frontier"} # {}

\* What a model writes: a review asked for in the envelope, one asked for inside
\* the payload, and the questions it would like decided.
Payload == [text : Wording, review : BOOLEAN, requests : 0..1]
Answer == [payload : Payload, review : BOOLEAN]

\* normalize: the artifact becomes the invocation's; its id is a digest of its
\* type, of the clock (one instant here, the worst case) and of its payload.
Normalized(d, i, a) ==
  [id |-> <<d.output, a.payload>>, type |-> d.output, by |-> i.id,
   payload |-> a.payload, review |-> a.review]

\* The envelopes.  A result that needs a human always asks for a review.
Envelope(i, status, review, output, retry) ==
  [by |-> i.id, status |-> status, review |-> review, output |-> output,
   retry |-> retry,
   diagnostics |-> IF status = "needs_human" THEN "blocked" ELSE status]
ProducedResult(i, artifact) ==
  Envelope(i, "produced", artifact.review, <<artifact.type, artifact.id>>, FALSE)
SkippedResult(i) == Envelope(i, "skipped", FALSE, <<>>, FALSE)
NeedsHumanResult(i) == Envelope(i, "needs_human", TRUE, <<>>, FALSE)
BlockedResult(i) == Envelope(i, "blocked", FALSE, <<>>, TRUE)

----------------------------------------------------------------------------
(* The runner *)

\* run, up to the model call.
Begin(i) ==
  LET found == Resolve(Registry, i)
      d == CHOOSE d \in found : TRUE
  IN  /\ inv' = i /\ start' = Len(sunk) /\ runs' = runs + 1 /\ held' = <<>>
      /\ IF found = {} \/ (found # {} /\ SkipReason(d, i) # "none")
         THEN result' = <<SkippedResult(i)>> /\ pc' = "done"
         ELSE IF ~AllowsModelBackedCall(i)
              THEN result' = <<NeedsHumanResult(i)>> /\ pc' = "done"
         ELSE result' = <<>> /\ pc' = "model"

Finish(r) == result' = <<r>> /\ pc' = "done"

Running == CHOOSE d \in Resolve(Registry, inv) : TRUE

\* Mutation: the result is returned without waiting for the sink.
FinishEarly(a) == held' = <<Normalized(Running, inv, a)>>
                  /\ Finish(ProducedResult(inv, Normalized(Running, inv, a)))

\* A valid artifact goes to the sink before there is a result.
HandToSink(a) ==
  /\ held' = <<Normalized(Running, inv, a)>> /\ pc' = "sink"
  /\ UNCHANGED result

\* forCases: the harness's own model answers by the name of the output, so the
\* last case of a role answers for every case of that role.
CannedAnswer(d) ==
  LET of == {k \in DOMAIN cases : cases[k].role = d.role}
  IN  cases[CHOOSE k \in of : \A j \in of : j <= k].artifact

ModelAnswers ==
  /\ pc = "model"
  /\ \E a \in Answer :
       /\ caller = "harness" => a = CannedAnswer(Running)
       /\ HandToSink(a)
  /\ UNCHANGED <<outside, asked, inv, sunk, start, flows, plan, file, exit, evidence, runs>>

\* No credentials: a human has to see to it.
ModelUnavailable ==
  /\ pc = "model" /\ caller # "harness"
  /\ Finish(NeedsHumanResult(inv))
  /\ UNCHANGED <<outside, asked, inv, held, sunk, start, flows, plan, file, exit, evidence, runs>>

\* The call fails, or the artifact does not satisfy its schema: try again.
ModelFails ==
  /\ pc = "model" /\ caller # "harness"
  /\ Finish(BlockedResult(inv))
  /\ UNCHANGED <<outside, asked, inv, held, sunk, start, flows, plan, file, exit, evidence, runs>>

\* The command line has no sink: the artifact is dropped here.
SinkTakes ==
  /\ pc = "sink"
  /\ sunk' = IF caller = "cli" THEN sunk ELSE sunk \o held
  /\ Finish(ProducedResult(inv, held[1]))
  /\ UNCHANGED <<outside, asked, inv, held, start, flows, plan, file, exit, evidence, runs>>

\* A sink of the caller's own rejects, having kept the artifact or not.
SinkFails ==
  /\ pc = "sink" /\ caller = "embedder"
  /\ sunk' \in {sunk, sunk \o held}
  /\ Finish(BlockedResult(inv))
  /\ UNCHANGED <<outside, asked, inv, held, start, flows, plan, file, exit, evidence, runs>>

Return ==
  /\ pc = "done" /\ caller = "embedder"
  /\ pc' = "idle"
  /\ UNCHANGED <<outside, asked, inv, held, sunk, start, result, flows, plan,
                 file, exit, evidence, runs>>

Invoke ==
  /\ pc = "idle" /\ caller = "embedder" /\ runs < MaxRuns
  /\ \E a \in Asks : Begin(InvocationOf(a, runs))
  /\ UNCHANGED <<outside, asked, sunk, flows, plan, file, exit, evidence>>

----------------------------------------------------------------------------
(* The planning adapter *)

\* What the context of a planning request may state: a risk and scopes.
PlanningRequest ==
  [risk : {2, 9, 99}, scope : {"unstated", "local", "major"},
   scopeType : {"patch", "task", "initiative"}]

\* roleInvocationFor
PlanningInvocation ==
  [id |-> runs, role |-> "planner", version |-> 1, operation |-> "propose_plan",
   expects |-> {"PlanProposal"}, tiers |-> {"standard", "frontier"}]

AskForPlan ==
  /\ pc = "idle" /\ caller = "planning" /\ runs < MaxRuns
  /\ asked' \in PlanningRequest
  /\ Begin(PlanningInvocation)
  /\ UNCHANGED <<outside, sunk, flows, plan, file, exit, evidence>>

\* declaredRiskFor: an explicit risk wins over what a review implies.
DeclaredRisk(review) ==
  CASE asked.risk \in 0..10 -> asked.risk
    [] asked.risk \notin 0..10 -> IF review THEN 5 ELSE 2

\* decisionScopeFor
DecisionScope ==
  CASE asked.scope # "unstated" -> asked.scope
    [] asked.scope = "unstated" /\ asked.scopeType = "patch" -> "local"
    [] asked.scope = "unstated" /\ asked.scopeType = "task" -> "moderate"
    [] asked.scope = "unstated" /\ asked.scopeType = "initiative" -> "major"

\* reviewDecisionFor and decisionWithAutonomyContext: the adapter's reading of
\* the request replaces whatever risk, scope and domain the planner had given.
DecisionOf(kind, review) ==
  [kind |-> kind, domain |-> "engineering", scope |-> DecisionScope,
   risk |-> DeclaredRisk(review), review |-> review,
   options |-> IF kind = "review" THEN <<"proceed", "request-human-review">> ELSE <<>>]

\* Mutation: only the envelope is asked whether a human should look.
EnvelopeReview(r, artifact) == r.review

ReviewRequired(r, artifact) == r.review \/ artifact.payload.review

\* plan: the decisions lead with the review, if one is required.
PlanOf(r, artifact) ==
  LET review == ReviewRequired(r, artifact)
  IN  [tasks |-> artifact.payload.text,
       decisions |-> (IF review THEN <<DecisionOf("review", TRUE)>> ELSE <<>>)
                     \o [k \in 1..artifact.payload.requests |->
                           DecisionOf("request", review)]]

\* The proposal is what the sink was given during this invocation; without one a
\* review stands in for it, or the supervisor gets an error.
ReturnPlan ==
  /\ pc = "done" /\ caller = "planning"
  /\ \/ /\ Len(sunk) > start
        /\ plan' = <<PlanOf(result[1], sunk[Len(sunk)])>> /\ pc' = "idle"
     \/ /\ Len(sunk) = start /\ result[1].review
        /\ plan' = <<[tasks |-> "none", decisions |-> <<DecisionOf("review", TRUE)>>]>>
        /\ pc' = "idle"
     \/ /\ Len(sunk) = start /\ ~result[1].review
        /\ plan' = <<>> /\ pc' = "thrown"
  /\ UNCHANGED <<outside, asked, inv, held, sunk, start, result, flows,
                 file, exit, evidence, runs>>

----------------------------------------------------------------------------
(* The harness *)

DefinitionOf(role) == CHOOSE d \in Shipped : d.role = role

\* createHarnessRoleInvocation
HarnessInvocation(case) ==
  [id |-> case.id, role |-> case.role, version |-> 1,
   operation |-> CHOOSE o \in DefinitionOf(case.role).operations : TRUE,
   expects |-> {DefinitionOf(case.role).output}, tiers |-> {"standard", "frontier"}]

InHarness == caller \in {"harness", "dogfood"}

RunCase ==
  /\ pc = "idle" /\ caller = "harness" /\ Len(flows) < Len(cases)
  /\ Begin(HarnessInvocation(cases[Len(flows) + 1]))
  /\ UNCHANGED <<outside, asked, sunk, flows, plan, file, exit, evidence>>

ProducedArtifact == sunk[start + 1]

\* assertProducedArtifact
Matches(r, artifact) == r.output = <<artifact.type, artifact.id>>

RecordFlow ==
  /\ pc = "done" /\ InHarness
  /\ IF /\ result[1].status = "produced" /\ Len(sunk) > start
        /\ Matches(result[1], ProducedArtifact)
     THEN /\ flows' = Append(flows, [case |-> cases[Len(flows) + 1],
                                     result |-> result[1],
                                     artifact |-> ProducedArtifact])
          /\ pc' = IF caller = "dogfood" THEN "writing" ELSE "idle"
     ELSE flows' = flows /\ pc' = "thrown"
  /\ UNCHANGED <<outside, asked, inv, held, sunk, start, result, plan,
                 file, exit, evidence, runs>>

(* The dogfood program: every run has a harness of its own and writes over the *)
(* evidence of the one before.                                                 *)

Over == pc' = "idle" /\ sunk' = <<>> /\ flows' = <<>> /\ start' = 0
Summary(status) == [evidence EXCEPT !.summary = runs, !.status = status]

\* The flag is not set or there is no key: only the summary is written.
SkipDogfood ==
  /\ pc = "idle" /\ caller = "dogfood" /\ runs < MaxRuns
  /\ runs' = runs + 1
  /\ evidence' = [evidence EXCEPT !.summary = runs + 1, !.status = "skipped"]
  /\ UNCHANGED <<outside, asked, inv, pc, held, sunk, start, result, flows,
                 plan, file, exit>>

RunDogfood ==
  /\ pc = "idle" /\ caller = "dogfood" /\ runs < MaxRuns
  /\ Begin(HarnessInvocation(cases[1]))
  /\ UNCHANGED <<outside, asked, sunk, flows, plan, file, exit, evidence>>

EvidenceOrder == <<"invocation", "result", "artifact", "summary">>

Unwritten == {k \in DOMAIN EvidenceOrder : evidence[EvidenceOrder[k]] # runs}

WriteEvidence ==
  /\ pc = "writing"
  /\ LET next == EvidenceOrder[CHOOSE k \in Unwritten : \A j \in Unwritten : k <= j]
     IN  evidence' = IF next = "summary" THEN Summary("completed")
                     ELSE [evidence EXCEPT ![next] = runs]
  /\ IF \A f \in {"invocation", "result", "artifact", "summary"} : evidence'[f] = runs
     THEN Over ELSE UNCHANGED <<pc, sunk, flows, start>>
  /\ UNCHANGED <<outside, asked, inv, held, result, plan, file, exit, runs>>

\* A file cannot be written, or the harness threw: the summary says so, if it
\* can be written itself.
DogfoodFails ==
  /\ caller = "dogfood" /\ pc \in {"writing", "thrown"}
  /\ evidence' \in {evidence, Summary("failed")}
  /\ Over
  /\ UNCHANGED <<outside, asked, inv, held, result, plan, file, exit, runs>>

\* The process is killed.
Killed ==
  /\ caller = "dogfood" /\ pc \in {"model", "writing"}
  /\ Over
  /\ UNCHANGED <<outside, asked, inv, held, result, plan, file, exit, evidence, runs>>

----------------------------------------------------------------------------
(* The command line *)

\* A command that cannot be parsed leaves the output path alone.
RejectUsage ==
  /\ pc = "idle" /\ caller = "cli" /\ runs < MaxRuns
  /\ exit' = "usage" /\ runs' = runs + 1
  /\ UNCHANGED <<outside, asked, inv, pc, held, sunk, start, result, flows,
                 plan, file, evidence>>

\* The input cannot be read, or is no invocation of the role that was named, or
\* the context is no object: the failure is reported to the output path.
RejectInput ==
  /\ pc = "idle" /\ caller = "cli" /\ runs < MaxRuns
  /\ exit' \in {"invalid", "io"}
  /\ pc' = "reporting" /\ runs' = runs + 1
  /\ UNCHANGED <<outside, asked, inv, held, sunk, start, result, flows, plan, file,
                 evidence>>

InvokeFromFile ==
  /\ pc = "idle" /\ caller = "cli" /\ runs < MaxRuns
  /\ \E a \in Asks : Begin(InvocationOf(a, runs))
  /\ exit' = "none"
  /\ UNCHANGED <<outside, asked, sunk, flows, plan, file, evidence>>

\* exitCodeForRoleResult
ExitCode(r) ==
  CASE r.status \in {"produced", "skipped"} -> "ok"
    [] r.status = "blocked" -> "blocked"
    [] r.status = "needs_human" -> "needs_human"

WriteResult ==
  /\ pc = "done" /\ caller = "cli"
  /\ file' = [run |-> runs, holds |-> result[1].status]
  /\ exit' = ExitCode(result[1])
  /\ pc' = "idle"
  /\ UNCHANGED <<outside, asked, inv, held, sunk, start, result, flows, plan, evidence, runs>>

\* What a write that fails leaves: the old content, or a part of the new one.
AfterFailedWrite == {file, [run |-> runs, holds |-> "torn"]}

\* Mutation: an error while writing the result is only printed.
GiveUp == exit' = "failed" /\ pc' = "idle"

\* The error lands in the same handler as every other.
ReportFailure == exit' = "failed" /\ pc' = "reporting"

ResultWriteFails ==
  /\ pc = "done" /\ caller = "cli"
  /\ file' \in AfterFailedWrite
  /\ ReportFailure
  /\ UNCHANGED <<outside, asked, inv, held, sunk, start, result, flows, plan, evidence, runs>>

WriteError ==
  /\ pc = "reporting"
  /\ file' = [run |-> runs, holds |-> "error"]
  /\ pc' = "idle"
  /\ UNCHANGED <<outside, asked, inv, held, sunk, start, result, flows, plan,
                 exit, evidence, runs>>

ErrorWriteFails ==
  /\ pc = "reporting"
  /\ file' \in AfterFailedWrite
  /\ exit' = "io" /\ pc' = "idle"
  /\ UNCHANGED <<outside, asked, inv, held, sunk, start, result, flows, plan, evidence, runs>>

----------------------------------------------------------------------------

NoInvocation ==
  [id |-> 0, role |-> "unknown", version |-> 1, operation |-> "propose_plan",
   expects |-> {}, tiers |-> {}]

Init ==
  /\ caller \in {"embedder", "cli", "planning", "harness", "dogfood"}
  /\ cases \in CASE caller = "harness" -> Cases
                 [] caller = "dogfood" -> {<<V1Cases(t)[1]>> : t \in Wording}
                 [] OTHER -> {<<>>}
  /\ asked = [risk |-> 99, scope |-> "unstated", scopeType |-> "task"]
  /\ inv = NoInvocation /\ pc = "idle" /\ held = <<>> /\ sunk = <<>> /\ start = 0
  /\ result = <<>> /\ flows = <<>> /\ plan = <<>>
  /\ file = [run |-> 0, holds |-> "nothing"] /\ exit = "none" /\ runs = 0
  /\ evidence = [invocation |-> 0, result |-> 0, artifact |-> 0, summary |-> 0,
                 status |-> "nothing"]

Next ==
  \/ ModelAnswers \/ ModelUnavailable \/ ModelFails \/ SinkTakes \/ SinkFails
  \/ Invoke \/ Return
  \/ AskForPlan \/ ReturnPlan
  \/ RunCase \/ RecordFlow
  \/ SkipDogfood \/ RunDogfood \/ WriteEvidence \/ DogfoodFails \/ Killed
  \/ RejectUsage \/ RejectInput \/ InvokeFromFile
  \/ WriteResult \/ ResultWriteFails \/ WriteError \/ ErrorWriteFails

Spec == Init /\ [][Next]_vars

----------------------------------------------------------------------------
(* Properties *)

\* Every variable has its type.
TypeOK ==
  /\ pc \in {"idle", "model", "sink", "done", "writing", "reporting", "thrown"}
  /\ held \in {<<>>} \cup {<<Normalized(d, i, a)>> :
                             d \in Shipped, i \in {inv}, a \in Answer}
  /\ start \in 0..Len(sunk) /\ runs \in Nat
  /\ pc = "done" => result # <<>>
  /\ exit \in {"none", "ok", "blocked", "needs_human", "usage", "invalid", "io", "failed"}

\* A result that says an artifact was produced refers to one that this very
\* invocation put into the sink, before the caller learns of it.
\* (run awaits the sink.  The command line, which has no sink, keeps none.)
ProducedIsSunk ==
  pc = "done" /\ caller # "cli" /\ result[1].status = "produced"
    => /\ Len(sunk) = start + 1
       /\ Matches(result[1], sunk[Len(sunk)])
       /\ sunk[Len(sunk)].by = inv.id /\ result[1].by = inv.id

ReviewWanted ==
  \/ result[1].review
  \/ Len(sunk) > start /\ sunk[Len(sunk)].payload.review

\* Whoever asks for a human's review of a plan, the model in the envelope or in
\* the payload or the runner because it may not call a model, the supervisor is
\* given it as the first decision, and every other decision is marked with it.
ReviewIsNotLost ==
  pc = "idle" /\ caller = "planning" /\ plan # <<>>
    => (ReviewWanted => /\ plan[1].decisions # <<>>
                        /\ plan[1].decisions[1].kind = "review"
                        /\ \A k \in DOMAIN plan[1].decisions : plan[1].decisions[k].review)

\* Each flow of the harness carries the artifact of its own case's invocation.
FlowsAreOwn ==
  \A k \in DOMAIN flows :
    /\ flows[k].artifact.by = flows[k].case.id /\ flows[k].result.by = flows[k].case.id
    /\ Matches(flows[k].result, flows[k].artifact)

\* The exit code tells what the output path holds: for a status, this command's
\* result with that status; for a failure that is reported, this command's error.
\* (After a usage or a file system error it may hold what an earlier one wrote.)
ExitTellsTheFile ==
  pc = "idle" /\ caller = "cli"
    => /\ exit \in {"ok", "blocked", "needs_human"} =>
            /\ file.run = runs /\ file.holds = result[1].status
            /\ ExitCode(result[1]) = exit
       /\ exit \in {"invalid", "failed"} => file = [run |-> runs, holds |-> "error"]

\* A summary that says a live run completed never stands beside evidence older
\* than it, though runs write over each other and may be killed at any write.
CompletedHasItsEvidence ==
  evidence.status = "completed"
    => \A f \in {"invocation", "result", "artifact"} : evidence[f] >= evidence.summary
=============================================================================
