------------------------------ MODULE Judgments ------------------------------
(***************************************************************************)
(* Where work is decided on and judged: the decisions, the validation of      *)
(* what was done, the roles whose results plan and review it, and the         *)
(* protocol proof with its gate. They share nothing, and each has a           *)
(* behaviour of its own; here they stand side by side, for any parameters.    *)
(***************************************************************************)
EXTENDS Decisions

CONSTANTS Calls,                                      \* of Validation
          Wording, Asks, Cases, RoleRuns,             \* of Roles
          Named, Reason, Primitive, Stories, ProofRuns \* of ProtocolProof

VARIABLES declared, validated, client, valPc, late, status, reports, records, answer, calls,
          caller, cases, asked, inv, rolePc, held, sunk, start, result, flows, plan,
          file, roleExit, evidence, runs,
          proofPc, proofExit, run, proofStory, role, impact, report, next, files, summary

Validated == INSTANCE Validation
               WITH MaxCalls <- Calls, scope <- validated, pc <- valPc, evidence <- records

Flow == INSTANCE Roles WITH MaxRuns <- RoleRuns, pc <- rolePc, exit <- roleExit

Proof == INSTANCE ProtocolProof
           WITH Surface <- Named, MaxRuns <- ProofRuns, pc <- proofPc, exit <- proofExit,
                sunk <- impact, story <- proofStory

JudgmentsAssumption ==
  Validated!ValidationAssumption /\ Flow!RolesAssumption /\ Proof!ProofAssumption

valVars == <<declared, validated, client, valPc, late, status, reports, records, answer, calls>>
roleVars == <<caller, cases, asked, inv, rolePc, held, sunk, start, result, flows, plan,
              file, roleExit, evidence, runs>>
proofVars == <<proofPc, proofExit, run, proofStory, role, impact, report, next, files, summary>>

-----------------------------------------------------------------------------
\* Evidence in the store refers to a report that is there, and what the supervisor
\* is told is what the report of that name says.
JudgmentsAreOnRecord == Validated!JudgmentsAreOnRecord

\* A result that says an artifact was produced refers to one that this very
\* invocation put into the sink, before the caller learns of it.
ProducedIsSunk == Flow!ProducedIsSunk

\* Whoever asks for a human's review of a plan, the supervisor is given it as the
\* first decision, and every other decision is marked with it.
ReviewIsNotLost == Flow!ReviewIsNotLost

\* The exit code of roles invoke tells what its output path holds.
ExitTellsTheFile == Flow!ExitTellsTheFile

\* A script of the protocol proof that ended by itself left a summary that says
\* how, whatever earlier runs left in the directory.
SummaryTellsTheRun == Proof!SummaryTellsTheRun
=============================================================================
