------------------------------ MODULE Validation ------------------------------
(***************************************************************************)
(* BuiltInValidation: is the work on a task accepted?  By the command that   *)
(* the task declares, run without a shell, or by a model that is asked; the   *)
(* judgment is written to the execution store, first a report and then the   *)
(* evidence that refers to it, and only then given to the supervisor.        *)
(*                                                                          *)
(* One node, which is validated again and again; the process may be killed   *)
(* and started again between any two steps.                                 *)
(***************************************************************************)
EXTENDS Naturals

CONSTANTS MaxCalls \* bound: calls of validate

ValidationAssumption == MaxCalls \in Nat \ {0}

VARIABLES declared, \* what the metadata of the task declares
          scope,    \* what the call is for
          client,   \* which model client the engine was given
          pc,
          late,     \* the timeout of the command has fired
          status,   \* the judgment, when there is one
          reports,  \* validation reports of the execution store
          evidence, \* refs of the reports that evidence in the store refers to
          answer,   \* <<what validate returned>>, or <<>>
          calls     \* calls so far, by which a report is named

vars == <<declared, scope, client, pc, late, status, reports, evidence, answer, calls>>

\* What a command does: it ends by itself; it runs on, and SIGTERM ends it; it
\* handles SIGTERM, and ends with a code of its own; it ignores SIGTERM, or leaves
\* its output to a child that does, for which "close" waits; it
\* cannot be started.
Nature == {"ends", "runs_on", "handles", "ignores", "unknown"}
Command == [kind : {"command"}, nature : Nature, timeout : BOOLEAN]
NoCommand == [kind |-> "none"]
Malformed == [kind |-> "malformed"]
Declared == Command \cup {NoCommand, Malformed}

Scope == {"leaf", "parent"}

\* Only a parent's validation may complete anything: a leaf's is a claim.
ReportOf(ref, of, s) ==
  [ref |-> ref, scope |-> of, status |-> s, strength |-> declared.kind,
   canMarkComplete |-> of = "parent" /\ s = "pass"]

TypeOK ==
  /\ declared \in Declared /\ scope \in Scope /\ client \in {"structured", "anthropic"}
  /\ pc \in {"idle", "command", "model", "record", "append", "returned", "threw"}
  /\ late \in BOOLEAN /\ status \in {"pass", "fail"}
  /\ reports \subseteq [ref : 1..MaxCalls, scope : Scope, status : {"pass", "fail"},
                        strength : {"command", "none"}, canMarkComplete : BOOLEAN]
  /\ evidence \subseteq 1..MaxCalls
  /\ answer \in {<<>>} \cup {<<a>> : a \in [ref : 1..MaxCalls, status : {"pass", "fail"}]}
  /\ calls \in 0..MaxCalls

Init ==
  /\ declared \in Declared /\ scope \in Scope /\ client \in {"structured", "anthropic"}
  /\ pc = "idle" /\ late = FALSE /\ status = "fail"
  /\ reports = {} /\ evidence = {} /\ answer = <<>> /\ calls = 0

given == <<declared, client>>
stored == <<reports, evidence>>

-----------------------------------------------------------------------------
\* validate.

Validate(s) ==
  /\ pc \in {"idle", "returned", "threw"} /\ calls < MaxCalls
  /\ calls' = calls + 1 /\ scope' = s /\ late' = FALSE /\ status' = "fail" /\ answer' = <<>>
  /\ pc' = CASE declared = Malformed -> "threw" [] declared = NoCommand -> "model"
             [] OTHER -> "command"
  /\ UNCHANGED <<given, stored>>

Judge(s) == status' = s /\ pc' = "record" /\ UNCHANGED <<given, scope, late, stored, answer, calls>>

Throw == pc' = "threw" /\ UNCHANGED <<given, scope, late, status, stored, answer, calls>>

-----------------------------------------------------------------------------
\* runDeclaredCommand. A command that a signal ended has no code: 1.

Running == pc = "command" /\ declared.nature # "unknown"
Exits(code) == Judge(IF code = 0 THEN "pass" ELSE "fail")

CannotStart == pc = "command" /\ declared.nature = "unknown" /\ Exits(1)
Ends(code) == Running /\ declared.nature = "ends" /\ Exits(code)

\* SIGTERM, once.
Timeout ==
  /\ Running /\ declared.timeout /\ ~ late
  /\ late' = TRUE
  /\ UNCHANGED <<given, scope, pc, status, stored, answer, calls>>

\* Mutation: close without an exit code is not taken for an end.
SignalUnheard == Running /\ late /\ declared.nature \in {"ends", "runs_on"} /\ UNCHANGED vars

EndsOfSignal == Running /\ late /\ declared.nature \in {"ends", "runs_on"} /\ Exits(1)
HandlesSignal(code) == Running /\ late /\ declared.nature = "handles" /\ Exits(code)

-----------------------------------------------------------------------------
\* The model clients. Both give up after a time.

\* fenced: the JSON is wrapped in a Markdown fence; verbose: it is not JSON, or
\* not the JSON that was asked for; silent: there is no text.
Response == [ok : BOOLEAN, form : {"plain", "fenced", "verbose", "silent"}, long : BOOLEAN,
             pass : BOOLEAN, fail : BOOLEAN]

Understood(r) ==
  /\ r.ok
  /\ CASE client = "structured" -> r.form = "plain" /\ ~ r.long
       [] client = "anthropic" -> r.form \in {"plain", "fenced"}

ModelAnswers(r) ==
  /\ pc = "model"
  /\ IF Understood(r) THEN Judge(IF r.pass /\ ~ r.fail THEN "pass" ELSE "fail") ELSE Throw
ModelGivesUp == pc = "model" /\ Throw

-----------------------------------------------------------------------------
\* persistResult.

Step(at, next) == pc = at /\ pc' = next
Reply == answer' = <<[ref |-> calls, status |-> status]>>

\* Mutation: the evidence is written first, the report after it and unawaited.
RecordEvidence ==
  /\ Step("record", "append")
  /\ evidence' = evidence \cup {calls}
  /\ UNCHANGED <<given, scope, late, status, reports, answer, calls>>

RecordReport ==
  /\ Step("record", "append")
  /\ reports' = reports \cup {ReportOf(calls, scope, status)}
  /\ UNCHANGED <<given, scope, late, status, evidence, answer, calls>>

AppendEvidence ==
  /\ Step("append", "returned")
  /\ evidence' = evidence \cup {calls} /\ Reply
  /\ UNCHANGED <<given, scope, late, status, reports, calls>>

StoreFails == pc \in {"record", "append"} /\ Throw

\* The process ends, with the command or without it.
Killed ==
  /\ pc # "idle"
  /\ pc' = "idle" /\ answer' = <<>> /\ late' = FALSE /\ status' = "fail"
  /\ UNCHANGED <<given, scope, stored, calls>>

Settles ==
  \/ CannotStart \/ (\E code \in 0..1 : Ends(code)) \/ EndsOfSignal
  \/ (\E code \in 0..1 : HandlesSignal(code)) \/ ModelGivesUp

Next ==
  \/ \E s \in Scope : Validate(s)
  \/ Settles \/ Timeout
  \/ \E r \in Response : ModelAnswers(r)
  \/ RecordReport \/ AppendEvidence \/ StoreFails \/ Killed

\* Timers fire, files get written, and a process that has been sent a signal
\* that ends it ends.
Fairness == WF_vars(Settles) /\ WF_vars(Timeout) /\ WF_vars(RecordReport) /\ WF_vars(AppendEvidence)

Spec == Init /\ [][Next]_vars /\ Fairness
-----------------------------------------------------------------------------
\* Evidence in the store refers to a report that is there, whenever the process
\* was killed or a write failed; and what the supervisor is told, which it marks
\* work done on, is what the report of that name says.
JudgmentsAreOnRecord ==
  /\ \A ref \in evidence : \E r \in reports : r.ref = ref
  /\ \A r, q \in reports : r.ref = q.ref => r = q
  /\ answer # <<>> => /\ answer[1].ref \in evidence
                      /\ \E r \in reports : r.ref = answer[1].ref /\ r.status = answer[1].status

\* A command that ends by itself, or that has a timeout and does not ignore it.
Obeys == declared.kind # "command" \/ declared.nature \in {"ends", "unknown"}
         \/ (declared.timeout /\ declared.nature \in {"runs_on", "handles"})

\* "Bounded": a validation does not keep the supervisor waiting for ever, unless
\* its command ignores SIGTERM or was declared without a timeout.
ValidationsEnd ==
  (pc \in {"command", "model", "record", "append"} /\ Obeys) ~> pc \in {"idle", "returned", "threw"}

\* What a reader of timeoutMs would expect, and the code does not do: a command
\* that handles SIGTERM and exits with 0 passes.
LateCommandsFail == late /\ answer # <<>> => answer[1].status = "fail"
=============================================================================
