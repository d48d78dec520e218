------------------------------ MODULE DevGenie ------------------------------
(***************************************************************************)
(* The two ways in which dev-genie writes into a repository: the installer   *)
(* engine, and the command that applies what a comparison found. Each has a  *)
(* behaviour of its own; here they stand side by side, for any parameters.    *)
(***************************************************************************)
EXTENDS Installer

CONSTANTS Rule, Option, Script, CriticalKey, OptionalKey, Order,  \* of ApplyFlow
          ApplyRepos, ApplyRuns, ApplyEdits

VARIABLES appliedRepo, applyPc, mode, found, group, quit, accepted, lifts, todo,
          applied, skipped, errors, record, written, locked, runsApplied, editsApplied

Apply == INSTANCE ApplyFlow
           WITH Repos <- ApplyRepos, MaxRuns <- ApplyRuns, MaxEdits <- ApplyEdits,
                repo <- appliedRepo, pc <- applyPc, wrote <- written,
                runs <- runsApplied, edits <- editsApplied

ASSUME ApplyAssumption == Apply!FlowAssumption /\ Apply!ReposAssumption

applyVars == <<appliedRepo, applyPc, mode, found, group, quit, accepted, lifts, todo,
               applied, skipped, errors, record, written, locked, runsApplied,
               editsApplied>>

-----------------------------------------------------------------------------
\* A run that ends reports every finding it was given, each in one list but for
\* those that are skipped in name only.
EveryFindingIsReported == Apply!EveryFindingIsReported

\* Applied, skipped and errors add up to the number of actionable findings.
CountsAddUp == Apply!CountsAddUp

\* What the user has in package.json is never replaced.
OwnEntriesSurvive == Apply!OwnEntriesSurvive
=============================================================================
