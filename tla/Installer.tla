----------------------------- MODULE Installer -----------------------------
(***************************************************************************)
(* The Installer Engine: detect and plan, then apply the plan one mutation  *)
(* after the other and report (and record) the outcomes. Between any two    *)
(* writes a person may edit the repository or the process may die; a run    *)
(* that dies is started again from detection.                               *)
(*                                                                          *)
(* The locks the writers consult are read once per process and kept         *)
(* (_agentConfigCache), while the planner reads them anew for every plan.   *)
(***************************************************************************)
EXTENDS ManagedRepo

CONSTANTS Repos,      \* the repositories an installer may be let loose on
          Request,    \* the desired states a caller may ask for
          NoRequest,
          MaxRuns,    \* bound: runs started
          MaxEdits    \* bound: edits by a person

ASSUME InstallerAssumption ==
  /\ Repos \subseteq Repo
  /\ \A q \in Request : DOMAIN q \subseteq Target /\ \A t \in DOMAIN q :
       q[t] \in Wish /\ (q[t].source = "plugin" => PluginOf(t) # "none")
  /\ NoRequest \notin Request
  /\ MaxRuns \in Nat /\ MaxEdits \in Nat

VARIABLES repo,      \* the files, a member of Repo
          lastRun,   \* .dev-genie/init.last-run.json: plan and outcomes, or <<>>
          pc,        \* "idle", or where the run is
          plan,      \* the mutations of the running (or last) plan
          outcomes,  \* the status of each mutation done so far
          dry,       \* is this a dry run?
          wrote,     \* has the platform install under way changed a file?
          lockCache, \* <<>>, or the locks as this process first read them
          pending,   \* history: the request of the running (or last) run,
                     \* until an edit disturbs it
          planLocks, \* history: the locks when the plan was made
          settled,   \* history: the request of a whole real run that no edit
                     \* has disturbed since, or NoRequest
          runs, edits

vars == <<repo, lastRun, pc, plan, outcomes, dry, wrote, lockCache, pending,
          planLocks, settled, runs, edits>>

Status == {"applied", "skipped", "blocked", "conflict"}

\* The variables have their types; outcomes never outnumber mutations.
TypeOK ==
  /\ repo \in Repo
  /\ \/ lastRun = <<>>
     \/ lastRun \in [plan : Seq(Mutation), outcomes : Seq(Status)]
  /\ pc \in {"idle", "applying", "writing", "server", "block"}
  /\ plan \in Seq(Mutation)
  /\ outcomes \in Seq(Status)
  /\ Len(outcomes) <= Len(plan)
  /\ pc \in {"writing", "server", "block"} => Len(outcomes) < Len(plan)
  /\ dry \in BOOLEAN
  /\ wrote \in BOOLEAN
  /\ lockCache \in {<<>>} \cup {<<l>> : l \in SUBSET Path}
  /\ pending \in Request \cup {NoRequest}
  /\ planLocks \in SUBSET Path
  /\ settled \in Request \cup {NoRequest}
  /\ runs \in 0..MaxRuns
  /\ edits \in 0..MaxEdits

Init ==
  /\ repo \in Repos
  /\ lastRun = <<>>
  /\ pc = "idle"
  /\ plan = <<>>
  /\ outcomes = <<>>
  /\ dry = FALSE
  /\ wrote = FALSE
  /\ lockCache = <<>>
  /\ pending = NoRequest
  /\ planLocks = {}
  /\ settled = NoRequest
  /\ runs = 0
  /\ edits = 0

----------------------------------------------------------------------------
(* A run *)

\* detect, then plan: a snapshot of the repository decides every mutation.
StartRun(q, d) ==
  /\ pc = "idle" /\ runs < MaxRuns
  /\ plan' = PlanInstall(repo, lastRun # <<>>, q)
  /\ outcomes' = <<>>
  /\ pc' = "applying"
  /\ dry' = d
  /\ pending' = q
  /\ planLocks' = repo.locks
  /\ settled' = IF settled = q THEN settled ELSE NoRequest
  /\ runs' = runs + 1
  /\ UNCHANGED <<repo, lastRun, wrote, lockCache, edits>>

Working == pc = "applying" /\ Len(outcomes) < Len(plan)
Current == plan[Len(outcomes) + 1]
Finish(s) == outcomes' = Append(outcomes, s) /\ pc' = "applying"

\* findLock: a mutation the planner found locked is locked; for the others the
\* locks this process read first decide.
Locks == IF lockCache = <<>> THEN repo.locks ELSE lockCache[1]
\* Mutation: the planner's word on locks is not heeded.
BlockedByCache == PathOf(Current.target) \in Locks
Blocked == Current.reason = "locked" \/ PathOf(Current.target) \in Locks
LocksRead ==
  lockCache' = IF Current.reason = "locked" THEN lockCache ELSE <<Locks>>

Fixed == UNCHANGED <<lastRun, plan, dry, pending, planLocks, settled, runs, edits>>

\* A mutation the plan says is satisfied.
SkipSatisfied ==
  /\ Working /\ Current.action = "skip"
  /\ Finish("skipped")
  /\ Fixed /\ UNCHANGED <<repo, wrote, lockCache>>

SkipLocked ==
  /\ Working /\ Current.action # "skip" /\ Blocked
  /\ Finish("blocked")
  /\ LocksRead
  /\ Fixed /\ UNCHANGED <<repo, wrote>>

\* The mutation at hand goes to the writer of these targets.
Writable(targets) ==
  /\ Working /\ Current.action # "skip" /\ ~Blocked
  /\ Current.target \in targets
  /\ LocksRead
  /\ Fixed

SkipDryRun ==
  /\ Writable(Target \ RegionTarget) /\ dry
  /\ Finish("skipped")
  /\ UNCHANGED <<repo, wrote>>

\* applyManagedRegionMutation: compare the region with the body; no baseline
\* reaches it, so only the plan's word makes a region conflicting.
CompareRegion ==
  /\ Writable(RegionTarget)
  /\ CASE repo.region = Body -> Finish("skipped")
       [] repo.region \notin {NoContent, Body} /\ Current.reason = "conflicting" ->
            Finish("conflict")
       [] OTHER -> IF dry THEN Finish("skipped")
                   ELSE pc' = "writing" /\ UNCHANGED outcomes
  /\ UNCHANGED <<repo, wrote>>

\* writeManagedRegion, after an await: whatever the region now holds.
WriteRegion ==
  /\ pc = "writing"
  /\ repo' = WriteAgentBlock(repo)
  /\ Finish(IF repo.region = Body THEN "skipped" ELSE "applied")
  /\ Fixed /\ UNCHANGED <<wrote, lockCache>>

\* Without a flat ESLint config there is nothing to layer upon.
ApplyLayered ==
  /\ Writable({"eslint-managed-layer"}) /\ ~dry
  /\ IF repo.entry = "flat"
     THEN repo' = WriteLayered(repo) /\ Finish("applied")
     ELSE Finish("blocked") /\ UNCHANGED repo
  /\ UNCHANGED wrote

ApplySettings ==
  /\ Writable({"claude-settings-hooks"}) /\ ~dry
  /\ repo.settings # "malformed"
  /\ repo' = MergeHook(repo)
  /\ Finish(IF repo.hooks = 0 THEN "applied" ELSE "skipped")
  /\ UNCHANGED wrote

\* delegatePlatformInstall: both platform targets run the claude-code install.
ApplyPlatform ==
  /\ Writable(PlatformTarget) /\ ~dry
  /\ repo' = WritePlugin(repo)
  /\ wrote' = ~repo.plugin
  /\ pc' = "server"
  /\ UNCHANGED outcomes

InstallServer ==
  /\ pc = "server"
  /\ repo' = RegisterServer(repo)
  /\ wrote' = (wrote \/ repo' # repo)
  /\ pc' = "block"
  /\ Fixed /\ UNCHANGED <<outcomes, lockCache>>

InstallBlock ==
  /\ pc = "block" /\ repo.doc # "doubled"
  /\ repo' = InjectBlock(repo)
  /\ Finish(IF wrote \/ repo.doc = "none" THEN "applied" ELSE "skipped")
  /\ Fixed /\ UNCHANGED <<wrote, lockCache>>

\* A writer throws: malformed settings, doubled markers, and the audit writer
\* always, as no components reach it. The whole apply is rejected.
Throws ==
  \/ Writable({"audit-baseline"}) /\ ~dry
  \/ Writable({"claude-settings-hooks"}) /\ ~dry /\ repo.settings = "malformed"
  \/ pc = "block" /\ repo.doc = "doubled" /\ Fixed /\ UNCHANGED lockCache

Reject ==
  /\ Throws
  /\ pc' = "idle"
  /\ UNCHANGED <<repo, outcomes, wrote>>

\* Mutation: the record is written as the last mutation begins.
FinishRunEarly ==
  /\ pc = "applying" /\ Len(outcomes) + 1 >= Len(plan)
  /\ lastRun' = IF ~dry /\ "applied" \in Range(outcomes)
                THEN [plan |-> plan, outcomes |-> outcomes]
                ELSE lastRun
  /\ pc' = "idle"
  /\ UNCHANGED <<repo, plan, outcomes, dry, wrote, lockCache, pending,
                 planLocks, settled, runs, edits>>

\* The end of the plan: a real run that applied something leaves a record.
FinishRun ==
  /\ pc = "applying" /\ Len(outcomes) = Len(plan)
  /\ lastRun' = IF ~dry /\ "applied" \in Range(outcomes)
                THEN [plan |-> plan, outcomes |-> outcomes]
                ELSE lastRun
  /\ settled' = IF dry THEN settled
                ELSE IF lockCache \in {<<>>, <<repo.locks>>} THEN pending
                ELSE NoRequest
  /\ pc' = "idle"
  /\ UNCHANGED <<repo, plan, outcomes, dry, wrote, lockCache, pending,
                 planLocks, runs, edits>>

Run == \/ \E q \in Request, d \in BOOLEAN : StartRun(q, d)
       \/ SkipSatisfied \/ SkipLocked \/ SkipDryRun
       \/ CompareRegion \/ WriteRegion \/ ApplyLayered \/ ApplySettings
       \/ ApplyPlatform \/ InstallServer \/ InstallBlock
       \/ Reject \/ FinishRun

----------------------------------------------------------------------------
(* Around the run *)

\* The process ends, or dies in the middle; the next one has read no locks.
Restart ==
  /\ lockCache # <<>> \/ pc # "idle"
  /\ pc' = "idle"
  /\ lockCache' = <<>>
  /\ UNCHANGED <<repo, lastRun, plan, outcomes, dry, wrote, pending, planLocks,
                 settled, runs, edits>>

\* What a person does to the repository meanwhile.
EditsOf(r) ==
  {[r EXCEPT !.region = c] : c \in Content \cup {NoContent}}
  \cup {[r EXCEPT !.locks = @ \cup {p}] : p \in Path}
  \cup {[r EXCEPT !.locks = @ \ {p}] : p \in Path}
  \cup {[r EXCEPT !.settings = IF @ = "absent" THEN @ ELSE "malformed"],
        [r EXCEPT !.doc = IF @ = "block" THEN "doubled" ELSE @],
        Uninstall(r)}

Edit ==
  /\ edits < MaxEdits
  /\ repo' \in EditsOf(repo) \ {repo}
  /\ edits' = edits + 1
  /\ pending' = NoRequest
  /\ settled' = NoRequest
  /\ UNCHANGED <<lastRun, pc, plan, outcomes, dry, wrote, lockCache,
                 planLocks, runs>>

Next == Run \/ Restart \/ Edit

Spec == Init /\ [][Next]_vars

----------------------------------------------------------------------------
(* Properties *)

\* The part of the repository a mutation of this path is about.
FileAt(r, p) ==
  CASE p = "CLAUDE.md"                       -> r.region
    [] p = "eslint.config.guardrails.mjs"    -> r.layered
    [] p = ".claude/settings.json"           -> <<r.settings, r.hooks>>
    [] p = ".audit/audit.config.json"        -> r.audit
    [] p = ".mcp.json"                       -> <<r.mcp, r.servers>>

\* The installer changes a file only in a real run, and never one that was
\* locked when its plan was made or when this process first read the locks:
\* each of the two checks makes up for what the other sees too late.
LocksHonoured ==
  [][edits' = edits =>
       \A p \in Path : FileAt(repo', p) # FileAt(repo, p) =>
         /\ ~dry
         /\ p \notin planLocks
         /\ lockCache # <<>> => p \notin lockCache[1]]_vars

\* A last-run record tells of a whole run: one outcome per mutation, blocked
\* where the plan says locked, skipped where it says satisfied, and something
\* applied. A run that is rejected or dies leaves the record as it was.
RecordIsWhole ==
  lastRun # <<>> =>
    /\ Len(lastRun.outcomes) = Len(lastRun.plan)
    /\ "applied" \in Range(lastRun.outcomes)
    /\ \A i \in DOMAIN lastRun.plan :
         /\ lastRun.plan[i].reason = "locked" => lastRun.outcomes[i] = "blocked"
         /\ lastRun.plan[i].action = "skip" => lastRun.outcomes[i] = "skipped"

\* Once a whole run of a request is done and nobody edits the repository, any
\* further run of that request, whole, rejected or cut short, changes no file:
\* even where the plan asks for the same mutation for ever (a stated status, a
\* daimyo server nobody registers). The locks the run saw must be the present
\* ones.
RerunIsNoOp ==
  [][settled # NoRequest /\ settled' # NoRequest => repo' = repo]_vars

\* The design note of the Installer Engine: a managed region somebody edited is
\* reported as a conflict, never silently overwritten. The baseline a request
\* states ends in the planner, so an edit the plan did not see is overwritten.
EditedRegionIsKept ==
  [][pc = "applying" /\ pc' = "writing" /\ repo.region # NoContent
       => \E q \in Request : /\ Current.target \in DOMAIN q
                             /\ repo.region = q[Current.target].baseline]_vars
=============================================================================
