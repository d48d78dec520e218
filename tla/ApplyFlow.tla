----------------------------- MODULE ApplyFlow -----------------------------
(***************************************************************************)
(* dev-genie-init on an existing repository: the configuration is compared  *)
(* with an architecture's baseline, the findings are confirmed by the mode  *)
(* or by a user at the terminal, and the accepted ones are written.         *)
(*                                                                          *)
(* A finding is the rule, option, script or stage it is about.  The user    *)
(* may edit the repository at any moment, a prompt being open included, and *)
(* the process may be killed between two writes.                            *)
(***************************************************************************)
EXTENDS Naturals, Sequences, FiniteSets, SequencesExt

CONSTANTS Rule,         \* ESLint rules the baseline states
          Option,       \* compiler options it states
          Script,       \* package.json scripts it requires
          CriticalKey,  \* rules and options whose findings are critical
          OptionalKey,  \* rules whose findings are optional
          Order,        \* the order in which a comparison lists its findings
          Repos,        \* repositories a behaviour may start in
          MaxRuns,      \* bound: runs of the command
          MaxEdits      \* bound: edits by the user

Stage == {"pre-commit", "build", "ci"}
Finding == Rule \cup Option \cup Script \cup Stage

FlowAssumption ==
  /\ Rule \cap Option = {} /\ Rule \cap Script = {} /\ Option \cap Script = {}
  /\ Stage \cap (Rule \cup Option \cup Script) = {}
  /\ CriticalKey \subseteq Rule \cup Option
  /\ OptionalKey \subseteq Rule \ CriticalKey
  /\ Order \in Seq(Finding) /\ Range(Order) = Finding /\ IsInjective(Order)
  /\ MaxRuns \in Nat /\ MaxEdits \in Nat

Status == {"missing", "weaker", "conflicting", "present"}
Severity == <<"critical", "recommended", "optional">>
Mode == {"dry-run", "apply-all", "auto-critical", "interactive"}
Lockable == {"eslint.config.mjs", "tsconfig.json", "package.json"}

RepoState ==
  [entry    : {"none", "legacy", "ts", "flat", "proxy"},  \* the ESLint config
   rules    : [Rule -> Status],         \* what the user's own text of it states
   saved    : {<<>>} \cup {<<s>> : s \in [Rule -> Status]},  \* .dev-genie.bak
   layer    : SUBSET Rule,              \* eslint.config.guardrails.mjs
   tsconfig : {"absent", "parses", "broken"},
   options  : [Option -> Status],
   pkg      : {"absent", "object", "malformed"},
   scripts  : [Script -> {"none", "user", "baseline"}],
   build    : {"none", "user", "chains", "ours", "ours && user"},
   hook     : {"none", "user", "ours"}, \* package.json#simple-git-hooks
   staged   : {"none", "user", "ours"}, \* package.json#lint-staged
   husky    : BOOLEAN,                  \* any hook system kept in a file
   ci       : SUBSET {"guard-rails", "checks", "other"},  \* workflow files
   locks    : SUBSET Lockable]          \* stated in an agent file

ReposAssumption == Repos \subseteq RepoState

VARIABLES repo,
          pc,       \* where the process stands
          mode,
          found,    \* id |-> status, as the comparison saw it
          group,    \* the severity group the prompt is at
          quit,     \* has the user quit the prompt?
          accepted, \* findings to apply
          lifts,    \* locked paths whose lock is to be lifted for good
          todo,     \* accepted findings still to be written one by one
          applied, skipped, errors,   \* what the run reports
          record,   \* has a run been recorded in .dev-genie/?
          wrote,    \* findings this run has written
          locked,   \* findings whose lock this run was told to respect
          runs, edits

report == <<applied, skipped, errors>>
run == <<mode, found, group, quit, accepted, lifts, todo, report, wrote, locked>>
vars == <<repo, pc, run, record, runs, edits>>

----------------------------------------------------------------------------
(* Comparison *)

\* A config that cannot be loaded resolves to nothing.  The rewritten entry
\* imports the layered file, which imports the entry: that never loads.
Loads(r) == r.entry \in {"legacy", "ts", "flat"}

BuildStatus(r) ==
  IF r.pkg # "object" \/ r.build = "none" THEN "missing"
  ELSE IF r.build = "chains" THEN "present"
  ELSE "weaker"

CIStatus(r) ==
  CASE r.ci = {}         -> "missing"
    [] "checks" \in r.ci -> "present"
    [] OTHER             -> "weaker"

HookStatus(r) ==
  IF r.husky \/ (r.pkg = "object" /\ r.hook # "none") THEN "present"
  ELSE "missing"

\* tsc prints the options of a config it can parse.
Resolves(r) == r.tsconfig = "parses"

RuleStatus(r, f) == IF Loads(r) THEN r.rules[f] ELSE "missing"
OptionStatus(r, f) == IF Resolves(r) THEN r.options[f] ELSE "missing"

\* A script of any text satisfies the baseline.
ScriptStatus(r, f) ==
  IF r.pkg = "object" /\ r.scripts[f] # "none" THEN "present" ELSE "missing"

StatusOf(r, f) ==
  CASE f \in Rule       -> RuleStatus(r, f)
    [] f \in Option     -> OptionStatus(r, f)
    [] f \in Script     -> ScriptStatus(r, f)
    [] f = "pre-commit" -> HookStatus(r)
    [] f = "build"      -> BuildStatus(r)
    [] f = "ci"         -> CIStatus(r)

SeverityOf(f) ==
  CASE f \in CriticalKey \cup {"pre-commit"} -> "critical"
    [] f \in OptionalKey                     -> "optional"
    [] OTHER                                 -> "recommended"

\* The file whose lock covers a finding; the stages have none.
PathOf(f) ==
  CASE f \in Rule   -> "eslint.config.mjs"
    [] f \in Option -> "tsconfig.json"
    [] f \in Script -> "package.json"
    [] OTHER        -> "none"

Greenfield(r) ==
  /\ r.entry = "none" /\ r.tsconfig = "absent" /\ r.pkg = "absent"
  /\ ~r.husky

Actionable == {f \in Finding : found[f] # "present"}
Group(severity) == {f \in Actionable : SeverityOf(f) = severity}

----------------------------------------------------------------------------
(* Writers: the repository after a finding is applied, or Failed *)

Failed == <<>>

\* The rules of one run replace the layer; a backup is taken only once.
WriteLayer(r, rules) ==
  IF r.entry \notin {"flat", "proxy"} THEN Failed
  ELSE <<[r EXCEPT !.layer = rules, !.entry = "proxy",
                   !.saved = IF @ = <<>> THEN <<r.rules>> ELSE @]>>

SetOption(r, f) ==
  IF r.tsconfig # "parses" THEN Failed
  ELSE <<[r EXCEPT !.options[f] = "present"]>>

\* Mutation: an entry that is there is overwritten.
OverwriteScript(r, f) ==
  IF r.pkg # "object" THEN Failed
  ELSE <<[r EXCEPT !.scripts[f] = "baseline"]>>

\* A script that is there is kept, and counts as applied.
AddScript(r, f) ==
  IF r.pkg # "object" THEN Failed
  ELSE <<[r EXCEPT !.scripts[f] = IF @ = "none" THEN "baseline" ELSE @]>>

\* simple-git-hooks + lint-staged; without a package.json nothing is installed
\* and the finding still counts as applied.
InstallHook(r) ==
  CASE r.pkg = "absent"    -> <<r>>
    [] r.pkg = "malformed" -> Failed
    [] r.pkg = "object"    ->
         <<[r EXCEPT !.staged = IF @ = "none" THEN "ours" ELSE @,
                     !.hook = IF @ = "none" THEN "ours" ELSE @]>>

ChainBuild(r) ==
  IF r.pkg # "object" THEN Failed
  ELSE <<[r EXCEPT !.build = CASE @ = "none" -> "ours"
                               [] @ \in {"ours", "ours && user"} -> @
                               [] OTHER -> "ours && user"]>>

AddWorkflow(r) ==
  IF "guard-rails" \in r.ci THEN Failed
  ELSE <<[r EXCEPT !.ci = @ \cup {"guard-rails"}]>>

Apply(r, f) ==
  CASE f \in Option     -> SetOption(r, f)
    [] f \in Script     -> AddScript(r, f)
    [] f = "pre-commit" -> InstallHook(r)
    [] f = "build"      -> ChainBuild(r)
    [] f = "ci"         -> AddWorkflow(r)

----------------------------------------------------------------------------
Idle ==
  /\ pc = "idle" /\ mode = "dry-run" /\ group = 1 /\ quit = FALSE
  /\ found = [f \in Finding |-> "present"]
  /\ accepted = {} /\ lifts = {} /\ todo = {}
  /\ applied = {} /\ skipped = {} /\ errors = {}
  /\ wrote = {} /\ locked = {}

Init ==
  /\ repo \in Repos /\ record = FALSE
  /\ Idle
  /\ runs = 0 /\ edits = 0

Compare(m) ==
  /\ pc \in {"idle", "done"} /\ runs < MaxRuns
  /\ ~Greenfield(repo)
  /\ mode' = m
  /\ found' = [f \in Finding |-> StatusOf(repo, f)]
  /\ pc' = "confirm" /\ group' = 1 /\ quit' = FALSE
  /\ accepted' = {} /\ lifts' = {} /\ todo' = {}
  /\ applied' = {} /\ skipped' = {} /\ errors' = {}
  /\ wrote' = {} /\ locked' = {}
  /\ runs' = runs + 1
  /\ UNCHANGED <<repo, record, edits>>

\* dry-run reports everything as skipped and records nothing.
Preview ==
  /\ pc = "confirm" /\ mode = "dry-run"
  /\ skipped' = Actionable
  /\ pc' = "done"
  /\ UNCHANGED <<repo, mode, found, quit, group, accepted, lifts, todo, applied,
                 errors, wrote, locked, record, runs, edits>>

\* Nothing to do: the run returns at once, and is recorded.
NothingFound ==
  /\ pc = "confirm" /\ mode # "dry-run" /\ Actionable = {}
  /\ pc' = "done" /\ record' = TRUE
  /\ UNCHANGED <<repo, run, runs, edits>>

AcceptByMode ==
  /\ pc = "confirm" /\ mode \in {"apply-all", "auto-critical"}
  /\ Actionable # {}
  /\ accepted' = IF mode = "apply-all" THEN Actionable ELSE Group("critical")
  /\ skipped' = Actionable \ accepted'
  /\ pc' = "locks"
  /\ UNCHANGED <<repo, mode, found, quit, group, lifts, todo, applied, errors,
                 wrote, locked, record, runs, edits>>

\* Mutation: a group refused as a whole is forgotten.
ForgetGroup(taken) ==
  /\ accepted' = accepted \cup taken
  /\ skipped' = IF taken = {} THEN skipped
                ELSE skipped \cup (Group(Severity[group]) \ taken)

\* all, none or selected ones of a group
TakeOf(taken) ==
  /\ accepted' = accepted \cup taken
  /\ skipped' = skipped \cup (Group(Severity[group]) \ taken)

AnswerGroup ==
  /\ pc = "confirm" /\ mode = "interactive" /\ Actionable # {}
  /\ \E taken \in SUBSET Group(Severity[group]) : TakeOf(taken)
  /\ pc' = IF group = Len(Severity) THEN "locks" ELSE "confirm"
  /\ group' = IF group = Len(Severity) THEN group ELSE group + 1
  /\ UNCHANGED <<repo, mode, found, quit, lifts, todo, applied, errors, wrote,
                 locked, record, runs, edits>>

\* Quitting skips every other group as well, the accepted ones included, which
\* are applied all the same.
QuitPrompt ==
  /\ pc = "confirm" /\ mode = "interactive"
  /\ Group(Severity[group]) # {}
  /\ skipped' = Actionable /\ quit' = TRUE
  /\ pc' = "locks"
  /\ UNCHANGED <<repo, mode, found, group, accepted, lifts, todo, applied,
                 errors, wrote, locked, record, runs, edits>>

LockedFindings == {f \in accepted : PathOf(f) \in repo.locks}

\* The findings to write are taken from the accepted ones before the locks are
\* resolved; what a lock keeps back is reported as skipped and written anyway.
ResolveLocks ==
  /\ pc = "locks"
  /\ \E respected \in IF mode = "interactive" THEN SUBSET LockedFindings
                      ELSE {LockedFindings} :
       /\ skipped' = skipped \cup respected
       /\ locked' = respected
       /\ \E lifted \in SUBSET (LockedFindings \ respected) :
            /\ mode # "interactive" => lifted = {}
            /\ lifts' = {PathOf(f) : f \in lifted}
  /\ todo' = accepted \ Rule
  /\ pc' = "write"
  /\ UNCHANGED <<repo, mode, found, quit, group, accepted, applied, errors, wrote,
                 record, runs, edits>>

\* The rules go first, in one write, and are reported together.
WriteRules ==
  LET batch == accepted \cap Rule
      after == WriteLayer(repo, batch)
  IN  /\ pc = "write" /\ batch # {}
      /\ ~(batch \subseteq applied) /\ ~(batch \subseteq errors)
      /\ \/ /\ after = Failed
            /\ errors' = errors \cup batch
            /\ UNCHANGED <<repo, applied, wrote>>
         \/ /\ after # Failed
            /\ repo' = after[1]
            /\ applied' = applied \cup batch /\ wrote' = wrote \cup batch
            /\ UNCHANGED errors
      /\ UNCHANGED <<pc, mode, found, quit, group, accepted, lifts, todo, skipped,
                     locked, record, runs, edits>>

RulesDone == accepted \cap Rule \subseteq applied \cup errors

\* The others follow in the order of the comparison, or of the user's answers.
Position(f) == CHOOSE i \in DOMAIN Order : Order[i] = f
Level(f) == CHOOSE l \in DOMAIN Severity : Severity[l] = SeverityOf(f)
Turn(f) == IF mode = "interactive" THEN Level(f) * Len(Order) + Position(f)
           ELSE Position(f)
Foremost == CHOOSE f \in todo : \A g \in todo : Turn(f) <= Turn(g)

WriteNext ==
  /\ pc = "write" /\ RulesDone /\ todo # {}
  /\ LET f == Foremost
         after == Apply(repo, f)
     IN  \/ /\ after = Failed
            /\ errors' = errors \cup {f}
            /\ UNCHANGED <<repo, applied, wrote>>
         \/ /\ after # Failed
            /\ repo' = after[1]
            /\ applied' = applied \cup {f} /\ wrote' = wrote \cup {f}
            /\ UNCHANGED errors
  /\ todo' = todo \ {Foremost}
  /\ UNCHANGED <<pc, mode, found, quit, group, accepted, lifts, skipped, locked,
                 record, runs, edits>>

\* The lifted locks are taken out of the agent file, and the run is recorded.
Finish ==
  /\ pc = "write" /\ RulesDone /\ todo = {}
  /\ repo' = [repo EXCEPT !.locks = @ \ lifts]
  /\ record' = TRUE
  /\ pc' = "done"
  /\ UNCHANGED <<run, runs, edits>>

----------------------------------------------------------------------------
Killed ==
  /\ pc \notin {"idle", "done"}
  /\ pc' = "idle"
  /\ mode' = "dry-run" /\ group' = 1 /\ quit' = FALSE
  /\ found' = [f \in Finding |-> "present"]
  /\ accepted' = {} /\ lifts' = {} /\ todo' = {}
  /\ applied' = {} /\ skipped' = {} /\ errors' = {}
  /\ wrote' = {} /\ locked' = {}
  /\ UNCHANGED <<repo, record, runs, edits>>

EditsOf(r) ==
  {[r EXCEPT !.scripts[s] = "user"] :
     s \in {x \in Script : r.pkg = "object" /\ r.scripts[x] = "none"}}
  \cup (IF r.pkg = "object" /\ r.hook = "none" THEN {[r EXCEPT !.hook = "user"]}
        ELSE {})
  \cup (IF r.entry \in {"flat", "proxy"}
        THEN {[r EXCEPT !.entry = "flat", !.rules[f] = "present"] : f \in Rule}
        ELSE {})
  \cup {[r EXCEPT !.locks = @ \cup {p}] : p \in Lockable}

Edit ==
  /\ edits < MaxEdits
  /\ repo' \in EditsOf(repo)
  /\ edits' = edits + 1
  /\ UNCHANGED <<pc, run, record, runs>>

Next ==
  \/ \E m \in Mode : Compare(m)
  \/ Preview \/ NothingFound \/ AcceptByMode \/ AnswerGroup \/ QuitPrompt
  \/ ResolveLocks \/ WriteRules \/ WriteNext \/ Finish
  \/ Killed \/ Edit

Spec == Init /\ [][Next]_vars

----------------------------------------------------------------------------
(* Properties *)

\* Every variable has its type.
TypeOK ==
  /\ repo \in RepoState
  /\ pc \in {"idle", "confirm", "locks", "write", "done"}
  /\ mode \in Mode /\ found \in [Finding -> Status] /\ group \in 1..3
  /\ quit \in BOOLEAN
  /\ accepted \subseteq Finding /\ lifts \subseteq Lockable
  /\ todo \subseteq Finding
  /\ applied \subseteq Finding /\ skipped \subseteq Finding
  /\ errors \subseteq Finding
  /\ wrote \subseteq Finding /\ locked \subseteq Finding
  /\ record \in BOOLEAN /\ runs \in 0..MaxRuns /\ edits \in 0..MaxEdits

\* What a run lists as skipped although it writes it: what was accepted before the
\* user quit, and what a lock was to keep back.
SkippedInName == IF quit THEN accepted ELSE locked

\* A run that ends reports every finding it was given and nothing else, each in one
\* of applyFindings' three lists: no finding is both applied and an error, and those
\* that are skipped as well are the ones that were skipped in name only.
EveryFindingIsReported ==
  pc = "done" =>
    /\ applied \cup skipped \cup errors = Actionable
    /\ applied \cap errors = {}
    /\ skipped \cap (applied \cup errors) = SkippedInName

\* What the tests say of the summary: applied, skipped and errors add up to the
\* number of actionable findings.  A finding skipped in name only counts twice.
CountsAddUp ==
  pc = "done" => Cardinality(applied) + Cardinality(skipped) + Cardinality(errors)
                   = Cardinality(Actionable)

\* What the user has in package.json is never replaced: a script, a hook and a
\* lint-staged entry keep their text, and a build script stays part of the new
\* one, whatever the comparison had seen (addPackageScripts, installPreCommitHooks
\* and applyEnsure read the file again when they write).
OwnEntriesSurvive ==
  [][/\ \A s \in Script : repo.scripts[s] = "user" => repo'.scripts[s] = "user"
     /\ repo.hook = "user" => repo'.hook = "user"
     /\ repo.staged = "user" => repo'.staged = "user"
     /\ repo.build \in {"user", "ours && user"}
          => repo'.build \in {"user", "ours && user"}]_vars

\* A finding whose lock the run was told to respect is not written.  The code
\* splits off what it writes before it drops the locked findings, so it is.
LockedFindingsAreKept == wrote \cap locked = {}

\* While the entry is dev-genie's, the config the user wrote last is in the
\* backup.  A config restored after a first run is replaced without one.
OwnConfigIsSaved == repo.entry = "proxy" => repo.saved = <<repo.rules>>
=============================================================================
