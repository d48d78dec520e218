---------------------------- MODULE ProtocolProof ----------------------------
(***************************************************************************)
(* The protocol proof: one role (Architect) is invoked on one story, what it  *)
(* produces goes through the validation gate, and the dogfood script leaves   *)
(* the evidence in four files and a summary, run after run in one directory.  *)
(* The script may be killed between any two steps, and in the middle of a     *)
(* write; a write may fail, before it truncated the file or after.           *)
(***************************************************************************)
EXTENDS Naturals, FiniteSets

CONSTANTS Surface, Reason, Primitive, \* what an impact may name
          Stories,                   \* the intents that stories may state
          MaxRuns                    \* bound: runs of the script

Intent == [surfaces : SUBSET Surface, reasons : SUBSET Reason, primitives : SUBSET Primitive,
           changes : Nat, decision : BOOLEAN]
Impact == [surfaces : SUBSET Surface, reasons : SUBSET Reason, primitive : Primitive,
           changes : 0..1, decisions : 0..1]

ProofAssumption == Stories \subseteq Intent /\ MaxRuns \in Nat \ {0}

VARIABLES pc, exit,
          run,      \* runs so far: every file says which one wrote it
          story,
          role,     \* what the runner was last asked and what it answered
          sunk,     \* <<the impact that the sink got>>, or <<>>
          report,   \* what the gate says
          next,     \* the file that is to be written
          files,    \* the evidence
          summary

vars == <<pc, exit, run, story, role, sunk, report, next, files, summary>>
evidence == <<files, summary>>

-----------------------------------------------------------------------------
\* ArchitectRoleRunner.

\* What the runner looks at in an invocation.
Invocation == [mine : BOOLEAN, version : BOOLEAN, operation : BOOLEAN, expects : BOOLEAN,
               model : BOOLEAN]
ProofInvocation == [mine |-> TRUE, version |-> TRUE, operation |-> TRUE, expects |-> TRUE,
                    model |-> TRUE]

Skipped(inv) == ~ (inv.mine /\ inv.version /\ inv.operation /\ inv.expects)

\* The model call fails or its answer is not an impact; the envelope that the
\* runner puts around an answer that nobody parsed is not one.
Answer == {<<i>> : i \in Impact} \cup {<<>>}

RoleStatus(inv, answered, kept) ==
  CASE Skipped(inv) -> "skipped"
    [] ~ Skipped(inv) /\ ~ inv.model -> "needs_human"
    [] ~ Skipped(inv) /\ inv.model /\ ~ (answered /\ kept) -> "blocked"
    [] OTHER -> "produced"

-----------------------------------------------------------------------------
\* The validation gate.

FailedChecks(intent, candidate) ==
  IF candidate = <<>> THEN {"schema_valid"}
  ELSE LET i == candidate[1] IN
    {c \in {"required_surfaces", "required_reason_code", "required_primitive",
            "minimum_proposed_changes", "requires_decision"} :
       ~ CASE c = "required_surfaces" -> intent.surfaces \subseteq i.surfaces
           [] c = "required_reason_code" -> intent.reasons \cap i.reasons # {}
           [] c = "required_primitive" -> i.primitive \in intent.primitives
           [] c = "minimum_proposed_changes" -> i.changes >= intent.changes
           [] c = "requires_decision" -> intent.decision => i.decisions > 0}

\* The gate's command exits with 0 when no check failed; a parent's report that
\* fails says which ones did.
GateReport(intent, candidate) ==
  LET failed == FailedChecks(intent, candidate)
  IN [status |-> IF failed = {} THEN "pass" ELSE "fail", blocking |-> failed]

NoReport == [status |-> "none", blocking |-> {}]

-----------------------------------------------------------------------------
\* The evidence.

FileAt == <<"invocation", "result", "impact", "report">>
File == {"invocation", "result", "impact", "report"}
NoFile == [run |-> 0, whole |-> TRUE]
NoSummary == [run |-> 0, whole |-> TRUE, status |-> "none", validation |-> "none"]

\* A write succeeds, does not reach the file, or ends in the middle of it.
Outcome == {"ok", "unopened", "torn"}
Left(old, new, outcome) ==
  CASE outcome = "ok" -> new [] outcome = "unopened" -> old
    [] outcome = "torn" -> [new EXCEPT !.whole = FALSE]

Init ==
  /\ pc = "idle" /\ exit = 0 /\ run = 0 /\ story \in Stories
  /\ role = [inv |-> ProofInvocation, status |-> "none"] /\ sunk = <<>> /\ report = NoReport
  /\ next = 1 /\ files = [f \in File |-> NoFile] /\ summary = NoSummary

Free == pc \in {"idle", "ended", "cut"}

\* An embedder asks the runner, or the gate, and uses the answer itself.
EmbedRole(inv, answered, kept) ==
  /\ Free /\ run = 0
  /\ role' = [inv |-> inv, status |-> RoleStatus(inv, answered, kept)]
  /\ UNCHANGED <<pc, exit, run, story, sunk, report, next, evidence>>

EmbedGate(candidate) ==
  /\ Free /\ run = 0
  /\ report' = GateReport(story, candidate)
  /\ UNCHANGED <<pc, exit, run, story, role, sunk, next, evidence>>

\* The dogfood script, with its flag set. What happens before the try block is
\* not in the summary, unless credentials are missing.
Start(intent, prepared, credentials) ==
  /\ Free /\ run < MaxRuns
  /\ run' = run + 1 /\ story' = intent /\ exit' = 1
  /\ sunk' = <<>> /\ report' = NoReport /\ next' = 1
  /\ pc' = CASE ~ prepared -> "ended" [] prepared /\ ~ credentials -> "failing"
             [] prepared /\ credentials -> "role"
  /\ UNCHANGED <<role, evidence>>

\* The harness's sink keeps everything; without an artifact the harness throws.
RunRole(answer) ==
  /\ pc = "role"
  /\ role' = [inv |-> ProofInvocation, status |-> RoleStatus(ProofInvocation, answer # <<>>, TRUE)]
  /\ sunk' = answer
  /\ pc' = IF answer = <<>> THEN "failing" ELSE "gate"
  /\ UNCHANGED <<exit, run, story, report, next, evidence>>

RunGate ==
  /\ pc = "gate"
  /\ report' = GateReport(story, sunk) /\ pc' = "write"
  /\ UNCHANGED <<exit, run, story, role, sunk, next, evidence>>

Write(outcome) ==
  /\ pc = "write"
  /\ files' = [files EXCEPT ![FileAt[next]] = Left(@, [run |-> run, whole |-> TRUE], outcome)]
  /\ IF outcome # "ok" THEN pc' = "failing" /\ next' = next
     ELSE /\ pc' = IF next = 4 THEN "summary" ELSE "write"
          /\ next' = IF next = 4 THEN next ELSE next + 1
  /\ UNCHANGED <<exit, run, story, role, sunk, report, summary>>

Summarise(status, outcome) ==
  summary' = Left(summary, [run |-> run, whole |-> TRUE, status |-> status,
                            validation |-> report.status], outcome)

\* Mutation: a report that fails is thrown on after the try block.
CompleteOutside(outcome) ==
  /\ pc = "summary" /\ Summarise("completed", outcome)
  /\ IF outcome = "ok" THEN pc' = "ended" /\ exit' = IF report.status = "pass" THEN 0 ELSE 1
     ELSE pc' = "failing" /\ exit' = exit
  /\ UNCHANGED <<run, story, role, sunk, report, next, files>>

\* The summary first says completed, whatever the report says.
Complete(outcome) ==
  /\ pc = "summary" /\ Summarise("completed", outcome)
  /\ IF outcome = "ok" /\ report.status = "pass" THEN pc' = "ended" /\ exit' = 0
     ELSE pc' = "failing" /\ exit' = exit
  /\ UNCHANGED <<run, story, role, sunk, report, next, files>>

\* The catch block. Cut: killed, or its end could not be written.
Fail(outcome) ==
  /\ pc = "failing" /\ Summarise("failed", outcome)
  /\ pc' = IF outcome = "ok" THEN "ended" ELSE "cut"
  /\ UNCHANGED <<exit, run, story, role, sunk, report, next, files>>

\* What is being written when the process ends may be torn.
Killed(torn) ==
  /\ ~ Free
  /\ pc' = "cut"
  /\ files' = IF torn /\ pc = "write" THEN [files EXCEPT ![FileAt[next]] = [run |-> run, whole |-> FALSE]]
              ELSE files
  /\ summary' = IF torn /\ pc \in {"summary", "failing"}
                THEN [summary EXCEPT !.run = run, !.whole = FALSE] ELSE summary
  /\ UNCHANGED <<exit, run, story, role, sunk, report, next>>

Next ==
  \/ \E inv \in Invocation, answered, kept \in BOOLEAN : EmbedRole(inv, answered, kept)
  \/ \E a \in Answer : EmbedGate(a)
  \/ \E intent \in Stories, prepared, credentials \in BOOLEAN : Start(intent, prepared, credentials)
  \/ \E a \in Answer : RunRole(a)
  \/ RunGate
  \/ \E o \in Outcome : Write(o) \/ Complete(o) \/ Fail(o)
  \/ \E torn \in BOOLEAN : Killed(torn)

Spec == Init /\ [][Next]_vars
-----------------------------------------------------------------------------
Statuses == {"none", "pass", "fail"}

TypeOK ==
  /\ pc \in {"idle", "role", "gate", "write", "summary", "failing", "ended", "cut"}
  /\ exit \in 0..1 /\ run \in 0..MaxRuns /\ story \in Stories /\ sunk \in Answer /\ next \in 1..4
  /\ role \in [inv : Invocation, status : {"none", "skipped", "needs_human", "blocked", "produced"}]
  /\ report.status \in Statuses
  /\ files \in [File -> [run : 0..MaxRuns, whole : BOOLEAN]]
  /\ summary \in [run : 0..MaxRuns, whole : BOOLEAN, status : {"none", "completed", "failed"},
                  validation : Statuses]

\* A script that ended by itself left a summary that says how, wherever it was
\* cut short and whatever earlier runs left in the directory: an exit code of 0
\* stands for a completed run that passes, whose four files are of that run; any
\* other code stands for no completed summary of the run; and a completed
\* summary never stands on a file that is older than it is, nor on one of its own
\* run's that is torn (a later run that is killed may leave a newer, torn file
\* beside it).
SummaryTellsTheRun ==
  /\ pc = "ended" /\ exit = 0 =>
       /\ summary = [run |-> run, whole |-> TRUE, status |-> "completed", validation |-> "pass"]
       /\ FailedChecks(story, sunk) = {}
       /\ \A f \in File : files[f] = [run |-> run, whole |-> TRUE]
  /\ pc = "ended" /\ exit = 1 /\ summary.run = run => summary.status = "failed"
  /\ summary.status = "completed" /\ summary.whole =>
       \A f \in File : /\ files[f].run >= summary.run
                       /\ files[f].run = summary.run => files[f].whole
=============================================================================
