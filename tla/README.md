# A verification project for dev-genie: Daimyo, and what it governs

This directory holds TLA+ models of the parts of this repository whose
correctness depends on order, failure and time, the TLC configurations that
check them, and proofs that TLAPS checks. They follow the code from the durable
supervisor of coding agents (`src/daimyo`) to what it stands on and works with:
the decision policy and the installer (`src/engines`), the workflow and the
documents of `src/katana`, the roles (`src/roles`), the protocol proof and
`src/dev-genie`.

Contents: the system; the modules and how they correspond to the code; what is
checked, with which bounds and fairness; what is proved; where the code does
something else than its documents say; what is not modelled; the plan.

## 1. The system

The repository is a family of tools around coding agents.

| Component | State it keeps | Operations | Interacts with |
| --- | --- | --- | --- |
| **execution store** `daimyo/src/core/jsonl-execution-store.ts` | one JSONL log per task; the snapshot is a projection of it | `upsertNode`, `recordDecision`, `recordValidationReport`, `appendEvidence`, `setCursor`, `invalidateResumeToken`, `load` | called by the supervisor only, one call at a time |
| **checkpoint reconciliation** `daimyo/src/core/reconciliation.ts` | none: a plan from two snapshots | `reconcileCheckpoints` | supervisor applies the plan |
| **supervisor** `daimyo/src/supervisor/supervisor.ts` | locals of a run: wave, active workers, claims, retries in the store | `run`, `executeNode`, `executeLeafNode`, `executeChildWave`, `reconcileAtCheckpoint`, ... | every other part, through ports |
| **agent transport** `daimyo/src/adapters/claude-sdk-agent-transport.ts` | per session: event queue, waiting readers, the pending question, two timers | `spawnSession`, `readEvent`, `sendCommand`, `interruptSession`, `disposeSession` | SDK stream and callbacks on one side, supervisor on the other |
| **work sources** `json-work-source.ts`, `markdown-checklist-work-source.ts` | the human's task list, a file | `listTasks`, `getTask`, `markStatus`, `patchTask`, `createTask` | supervisor and the human write to the same file |
| **validation** `daimyo/src/validation`, `engine/shell-runner.ts` | reports and evidence in the store | `validate`: a command with a timeout, or a model | supervisor, child processes, store |
| **decision provider** `daimyo/src/decision` | none of its own; parks nodes in the store | rules, a bounded model call, a read-only session, a human | supervisor, store, transport, notifier |
| **decision policy** `engines/src/decision-policy` | none: a pure function of a request | classify, match rules, find conflicts, enrich the request | wraps the decision provider |
| **installer** `engines/src/installer` | managed regions and files in a repository, a last-run record | detect, plan, apply, record | the user's working tree, katana's own installer |
| **apply flow** `dev-genie/lib/apply-flow.js` | the accepted, skipped and applied findings of a run | compare, confirm, lift locks, write | terminal, the user's configuration |
| **katana: workflow loop and gates** `katana/src/workflow`, `gates` | the document a call holds | `runLoop`, `assertCanStart`, the gates | a dispatcher (a model), the documents, people |
| **katana: documents** `katana/src/storage` | SQLite rows beside Markdown files, short-code counters, phases | create, edit, transition, archive, sync | MCP tools, git, editors |
| **roles** `roles/src` | none; what a sink keeps | invoke one versioned role around one model call | CLI, supervisor's planning, harness |
| **protocol proof** `protocol-proof/src` | evidence files and a summary | one story through one role and the gate | roles, validation gate |
| protocol, guardrails, audit, scripts, docs | none at run time | schemas, configuration, reports | - |

What is hard about it, and where the models are aimed:

* **Two sources of truth.** The WorkSource holds what should be done and is
  edited by a human at any time; the store holds what was done. Checkpoints
  compare the two while workers run. Both are written by separate awaits, and a
  kill may fall between any two.
* **Files without locks.** The log, the WorkSource's file, the repository an
  installer works on and the evidence of a proof are written piecemeal, beside
  people with editors; a kill may cut any write short.
* **A wave of siblings.** Workers finish, fail, ask and get in each other's way
  in any order, while the supervisor reads one at a time and executes reworked
  and resumed children apart from the pool.
* **Sessions and timers.** Questions, late answers, requests that are given up,
  stalls, interrupts that are ignored, commands that outlive their timeout:
  callbacks of the SDK, of timers and of child processes interleave at every await.
* **Judgments that travel.** A request is classified, enriched, weighed, settled,
  recorded and weighed again by different parts; a review is wrapped, translated
  and gated. It has to mean in the end what it meant at first.
* **A document held across an await.** The workflow loop writes back the document
  it took before a model went to work, whatever has become of it meanwhile.

What makes each component correct: a load never fails and never loses what was
acknowledged (store; up to what section 5 tells of its repair); a call changes the one task it names (work sources); a
checkpoint leaves nothing to do, keeps one node per task, work products and retry
counts (reconciliation, leaf run); no child is lost, completion only goes upward,
workers are bounded, runs end (wave); an answer reaches its question, a reader is
woken, an interrupted session ends (transport); a judgment is on record before
anybody acts on it (validation, decisions); rules mean what they say, and provider
and supervisor agree (policy); a locked file is not written and a settled request
changes nothing (installer); a finding is accounted for, the user's entries stay
(apply flow); low passes rest on completed scaffolds, what is finished passed its
gates, a call takes back no document that it alone works on (workflow loop); rows and files agree (documents); an artifact that is
reported is kept, a review is not lost on the way (roles); a summary tells what the
run did (protocol proof).

## 2. Modules

`PROJECT.json` maps every definition to the lines it stands for. In a
definition's comment, "Mutation:" marks a changed version of the definition
after it; the runs' properties must fail for it.

### The supervisor and what it keeps

**DurableLog** is the abstract promise of the store: operations become visible
whole, and an acknowledged one stays.

**TaskLog** is the file behind it. `file` is what a read returns, `disk` what a
power loss cannot take; both are sequences of pieces, a whole line or a torn
run of bytes. One action per await of `appendEvent`: `Begin`,
`RepairPartialTail` (truncate, not synced), `WriteLine`, `Sync`, `Return`, and
`Interrupted`, `PowerLoss` at any point. The supervisor awaits each operation,
so there is one writer. `ShortWrites` says whether `write(2)` may accept part of
a line without an error. The repair looks for the last newline in the decoded
string and truncates at that offset in bytes: if a complete line has a character
outside ASCII (`Wide`), too few bytes are kept (`Truncated`, `CutInto`), and a piece of
an acknowledged line is left, to which the next line is glued. `clipped` is history:
a repair has met a torn tail behind such a line. Until then TaskLog implements
DurableLog with `log <- Decode(file)`, `acked <- Len(promised)`.

**Projection** is `projectEvents`: one operator per kind of event, and the loop
over the log as a recursive function, `Snapshots`, of which `Project` takes the last
value. Payloads are ids and refs; the order and uniqueness that the code
maintains are kept.

**Reconciliation** holds the rules of `reconcileCheckpoints` as operators:
`Action(task, nodes)`, `Throws`, `NeedsReplacement`, and which node counts for
a task (`Active`, the ones not retired). LeafRun and Wave extend it.

**LeafRun** is `Supervisor.run` for a task with neither parent nor children,
await by await: list, read the definitions, apply the plan action by action
(`Interrupt`, `Supersede`, `Replace` are separate writes), a second checkpoint,
`ensureNode`, `markStatus`, spawn or resume, watch, and the ways a turn ends.
`ws` and `nodes` are durable, `live` is the transport's session map; `Restart`
clears what the process holds. `Edit` is the human: definition, status,
removal, re-creation.

**Wave** is `executeInnerNode` and `executeChildWave` for one parent and leaf
children. A checkpoint, and the start or end of a worker, is one step here, as
LeafRun takes those apart. The wave's loop is action by action: `Fill`,
`WorkerDone` with the sibling impact it is judged to have, `Rework`,
`FailChild`, `WorkerAsks`, `ShareContext`, `Quiesce`, `ResolveConflict`, the
three decision actions, `Settle`, the leaf executed apart (`StartLeaf`,
`LeafDone`, ...), `Validate`, `RejectClaims`, `Report`, `ReportParent`.

**AgentSession** is one session of `ClaudeSdkAgentTransport`. The agent may
talk, ask, give up a request, end its turn or its stream at any time; the two
timers count units of time and go off before more time passes; the client is
the supervisor's loop (read, handle, send the command, dispose), which may take
any time between two steps, and `Resume`, which the port offers as well.

**WorkSourceFile** is both work sources: a call reads the file (`Read`), and writes
back what it made of it (`Write`), with edits by hand and kills in between
(`Edit`, `Killed`, `Repair`). The Markdown list is a sequence of lines (items,
comments that decode or not, others), because ids follow from titles and places; a
title of several lines is written as it is, so that its rest comes between item and
comment. The JSON list is a sequence of records, in which people may have copied a
record with its id: every record of the id becomes what the first becomes.

**Validation** is `BuiltInValidation` with `ShellRunner`: which command, under
which timeout, what becomes of a process that ends, obeys SIGTERM or ignores it
(`Settles`, `Timeout`), the model instead of a command, then `RecordReport`,
`AppendEvidence`, and the answer.

### Decisions

**Wildcards** has the two matchers of the engine as they scan, and what a pattern
means (`Names`, `Share`), against which they are checked. A scan takes each segment
where it first occurs and never goes back; it is stated as the functions that give
each segment an end in this way, so that it can be reasoned about without recursion. **DecisionPolicy** is the
engine: rules with all that they may ask (the tool's pattern, texts that arguments
must contain, prefixes of surfaces that the node owns, the altitude), classification,
conflicts over the surfaces as `normalizeSurface` reads them (an entry without the
prefix of a kind is dropped from the lists whose entries need one: kind "bare"), the
threshold (`Escalates`), and the verdict, as operators. **Decisions** is a request on its way: `Ask` (the policy
provider), the tiers of `TieredDecisionProvider` one action per tier and answer,
`Park`, `Record`, `Notify`, and `Act`, which is the supervisor's second weighing of
the enriched request. A kill may fall between any two.

### Katana

**DocumentStore** is katana's storage: `files` is the tree under `.katana`, `rows`
the table `documents`, `counter` the next short code of a level, `asked` what a
`transition_phase` has read before its await. A `better-sqlite3` transaction and
a whole `syncWorkspace` are synchronous and one step each (`Create`, `Edit`,
`Transition`, `Sync`); `KilledIn*` is a process that dies in one, which leaves
the file it was writing whole, cut or torn, and no trace in the database. Nothing
in this repository calls `syncWorkspace` yet, so a sync may come at any time.
`FileEdited`, `FileAdded`, `FileSpoiled`, `FileRemoved`, `FileMoved` and
`FileBroughtBack` are people, with an editor or with git; `Collaborators` says
whether there are any. `clean` and `back` are history: whether the last that
wrote a path was a call or a sync that succeeded, and whether a file was put back
to what the hash in its row is of. A hash is modelled by what was hashed. The
column `archived` is taken from the frontmatter by a sync that takes a file over and by
a patch, and set by a sync that finds no file.

**Gates** has the document as gates see it (frontmatter, state of the sections,
checklist, children), the phases of every level, and every built-in gate as a
predicate. **WorkflowLoop** is `runLoop`: `Take` a document, `Started` (the handoff
guard), `Promote`, `Begin` a dispatch, `Work` or `DispatchFails`, `Advance` through
the gates or `TryAgain` or `GiveUp`, and `Return`. Calls interleave at the await of
the dispatcher, on different documents or on one: nothing in `loop.ts` keeps a second
call from a document that is being worked on. `TransitionByHand` is the MCP tool,
`EditByHand` people, `Killed` the end of the process. A write puts the document that the
call holds, patched. `byHand` and `shared` are history: which documents people changed,
and which a call took while another was at work on them.

### Installing

**ManagedRepo** is a repository as the detector reads it and as each writer leaves
it, and the planner (`PlanInstall`) as an operator. **Installer** is a run: detect and
plan in one step, as nothing is awaited between them, then one mutation per step
with its writer's outcomes, the record at the end, kills and edits by hand between
any two.
**ApplyFlow** is `applyFindings` in its three modes: compare, preview, confirm by mode
or group by group, locks, rules, options, scripts, stages and the hook, and the three
lists of results as the code fills them: what a prompt that is quit had accepted, and
what a lock was to keep back, is listed as skipped and written all the same.

### Roles

**Roles** is the runner with its four callers: a program with a sink, the command
line, the supervisor's planning, and the harness over **RoleFixtures** or a live
model. **ProtocolProof** is the harness that takes one story through the architect
role and the gate, and the script that leaves four files and a summary.

### Instances

The `MC*` modules give the constants values; `*Proofs` hold theorems. Four modules set
components side by side that share nothing, for any parameters: **ExecutionStore**
(TaskLog, and instances of Projection and WorkSourceFile), **Judgments**
(Decisions, and instances of Validation, Roles and ProtocolProof), **DevGenie**
(Installer, and an instance of ApplyFlow) and **Katana** (WorkflowLoop, and an instance
of DocumentStore: the loop writes through an interface of its own, to which nothing
connects the store yet). They name the properties of the instances, and the theorems
about all of them are in `ExecutionStoreProofs`, `JudgmentsProofs` and `DevGenieProofs`;
those about the loop are in `WorkflowLoopProofs`, about the store in
`DocumentStoreProofs`. Five
instances check several components in one run of TLC: `MCExecutionStore`,
`MCRuns` (AgentSession, Wave, LeafRun, Validation), `MCJudgments`, `MCDevGenie` and
`MCKatana`. `side` says whose behaviour it is; the variables of the other
sides keep one value. The states of such a run are the sum of those of
its sides, and a property of one side is what it is alone. TLC reports the
coverage of such a next-state relation by side.

### Abstractions shared by the modules

* A revision is compared for equality only, a definition stands for the
  fingerprint of acceptance criteria and dependencies. Every write of the
  WorkSource takes a revision that nothing in use has.
* In LeafRun and Wave an edit is one that a checkpoint can see, and verdicts
  (validation, policy, which decision action) are open choices: the properties
  hold whatever they are. WorkSourceFile, Validation and Decisions take these apart.
* What a model answers is an open choice among the shapes that its schema, and the
  code behind it, tell apart. In Decisions a verdict's risk and confidence take
  the values on each side of the thresholds.
* Text is a name for what it is, except where code scans it: patterns of rules and
  surfaces are sequences of segments, Markdown lists sequences of lines.
* A document's body, for the gates, is the worst state of the sections that its
  template requires, exit criteria and children among them.
* In DocumentStore a file is named after the code of its document, as `create`
  names it; a body is one that `serialize` and `readMarkdown` return as it was
  (one that begins with a newline loses it); and no two writes share a time stamp.
* The cursor, wording, notification and evidence texts are left out; whether the
  work product of an interrupted worker is on record is kept.


## 3. What is checked

| Run | Instance and bounds | What it shows |
| --- | --- | --- |
| `execution_store` | MCExecutionStore. Log: 2 operations, one with a character outside ASCII, 4 lines, no short writes. Projection: 2 nodes, 2 refs, 4 events. WorkSource: 2 tasks, 2 titles, one of two lines, 1 edit | until a repair meets a torn tail behind a line with such a character, what was acknowledged survives any kill and power loss and the file implements DurableLog; loads throw on dangling events only, history survives upserts; a call changes the one task it names |
| `leaf_run` | MCLeafRun: 1 task, 2 edits, 1 kill, 1 retry, event budget | one node counts, running nodes have sessions, work products are kept, a checkpoint reaches a fixpoint |
| `runs_end` | MCRuns. Session: stall after 3 units, interrupt timeout 2, 2 messages. Wave: 2 children, one of them a follow-up of the other, one worker at a time, 1 retry. Leaf: 2 kills, 1 retry, event budget. Validation: 3 calls | answers reach their question, a waiting client is woken, stalls mean silence, interrupted sessions end; every run of a parent ends; a task is brought to an outcome through kills; a validation ends |
| `wave` | MCWave: 2 children at once, a follow-up asked for; a retry and an event budget, or 1 kill, or 1 edit or removal (`OneAtATime`) | no child is lost, never a worker too many; while nobody edits, workers in memory are those on disk, completion goes upward only, what is reported done is done |
| `katana` | MCKatana. Loop: a story, a scaffold and the task that fills it in; 2 calls at a time on any documents, 3 in all, 2 iterations, 1 hand. Store: 1 code, 2 directories, 2 phases, 2 transitions at a time, 3 writes with a time stamp | low passes rest on completed scaffolds; what a loop completed passed its gates; no loop takes a document back that only loops have written, one call at a time; row and file agree after every call or sync that succeeded; a second sync does nothing |
| `judgments` | MCJudgments. Decisions: every profile, rule list and request of MCDecisions, 1 event of an investigation, 2 questions. Validation: 3 calls. Roles: 2 runs. Proof: 2 stories, 2 runs | provider and supervisor agree; rules mean what they say; no overlap that can be read goes unnoticed; a node is parked before the record says so; what the supervisor is told of a validation is on record; produced artifacts are kept; reviews are not lost; exit codes and summaries tell what is on disk |
| `dev_genie` | MCDevGenie. Installer: 8 repositories, 3 runs, 1 edit. Apply: 6 repositories, 2 runs, 1 edit | locked files are not written; a run's record is whole; a settled request changes nothing; every finding is reported, in one list but for those skipped in name only; the user's own entries stay |
| `store_clipped` | MCExecutionStore | *violated*: see 5.1 |
| `restart_edited` | LeafRun: 1 edit, 1 kill | *violated*: see 5.2 |
| `decisions_escalated` | MCDecisions | *violated*: see 5.3 |
| `installer_edited` | MCInstaller: an upgrade, 1 edit | *violated*: see 5.4 |
| `apply_counts` | MCDevGenie | *violated*: see 5.5 |

Deadlock is checked in `leaf_run`, `wave` and `restart_edited`: a run can always be
started again. It is not in the other runs, where a side that has come to the
bound of its runs, calls or lines really stops.

Why the bounds are enough. Four lines let a torn tail follow acknowledged ones,
be repaired and be torn again. Four events hold an upsert, an event, a second
upsert and an event after it, on two nodes. Two titles, one of two lines, make
tasks that are told apart by their place only and one that reads back as another.
In LeafRun two edits make a checkpoint's plan stale while it is applied and bring
a retired node id back to life; one kill may fall at any await of either
checkpoint. In Wave two children are what a sibling relation needs; with room for one, a
follow-up is created, and waits, while the child that asked for it is at work. In
`wave` a retry, a kill and an edit come in different behaviours: a checkpoint that
supersedes a sibling at work needs the edit only, a run that goes on where another
was killed the kill only; LeafRun has them together. In
Validation a first report is still there when a second and a third are made. In
AgentSession two messages make a question and a second one that an answer to the first,
given up meanwhile, could reach, or a stall with a message in its way and another stall;
the three safety properties are proved for any number. In DocumentStore codes share nothing but the counter and the
table's UNIQUE: one code in two directories makes duplicates, moves and an
exhausted counter. Three time stamps hold a create, a patch that leaves the hash
behind, and one more content of the file. In WorkflowLoop two calls are a holder
of a document and whoever changes it meanwhile, a second holder too; a third call lets
two finish the scaffold while another begins the task over it; two iterations are a first
answer and a better one. In Decisions the rules have each kind of
condition, met and not met, and a list of surfaces has entries that can be read and bare
ones; a request goes through every tier once, and a second
question finds the node and the log as the first left them; risks and confidences
take a value on each side of every threshold. In Installer the first run installs,
the second meets an edit or a kill's remains, the third is the one that must find
nothing to do. Revisions and sessions are as many as can be in use at a time.

Fairness. Runs are assumed to go on while the process lives (weak fairness of
the steps of the run). In LeafRun a worker's turn ends if it is watched again
and again (strong fairness of `TurnEnds`: a resumed session continues where it
was), which in the code is the agent's doing, or the stall timer's; and whoever
started a run that was cut short starts it again (`Run`). In Wave every worker
that is read ends its turn in some way. In AgentSession time passes, timers go
off, the client goes on, and `query.interrupt()` settles; the agent owes
nothing, and says a bounded number of things. In Validation a timer that is armed
goes off, a child process that was sent SIGTERM and obeys it settles, and the store
answers; a command that ignores SIGTERM, or has no timeout, owes nothing.

## 4. What is proved

`ExecutionStoreProofs`, for any operations, nodes, tasks and bounds. Of the log's file:

* `TypeCorrect`, of whatever the repair leaves. `LoadsNeverFail`: with or without short
  writes, until a repair miscounts. The inductive invariant `ShapeInv` says that only the last piece of file and medium is ever
  torn and that nothing is written behind a torn piece. `LoadNeverFails` is not
  inductive by itself: without knowing that the repair has been done when the
  line is written, an append could bury a torn piece.
* `PromisesAreDurable`, `FileImplementsDurableLog`: until then, assuming `~ ShortWrites`.
* `AsciiLogsAreNotCorrupted`: assuming `~ ShortWrites` and that every line is ASCII
  (`Wide = {}`), `KillsCorruptNothing` holds without exception: the miscount is all that
  stands between the store and what DGOS-T-0003 asks of it.
  `PromiseInv` adds what was promised by the time of each await: a prefix of the
  medium while idle, of the file in flight.

Of the projection, from one inductive invariant, `LogInv`: of every log that can be
written, a snapshot says "failed" exactly when some event of the log dangles, and
otherwise has exactly the nodes the log upserted, each with the history and the
session that the log tells of it (`Good`, `Reads`).

* `OnlyDanglingEventsFail`, `UpsertsKeepHistory`, `SnapshotsAreWellFormed` and
  `InvalidatedTokensRest` (an invalidated token stays so until the next upsert) follow,
  and so does the action property `PlacesAreKept` (a node keeps its place in a load).
* They rest on what one more event does to a snapshot (`ProjectAppend`). A recursive
  function is a CHOICE of one that solves its equation, so it has to be shown first that
  there is one for a log of any length: `LoopEnds`, by a least counterexample
  (`LeastOfAll`). What the log tells of a node ("what was reported since the last
  upsert") is then compared event by event; the lemmas come in pairs of what an event
  about another node leaves alone and what one about this node adds.

Of the work sources:

* `CallsLeaveOthersAlone`. `SourceInv` says that a file that can be read is a checklist
  or a list of distinct ids, whatever kills and people did to it, and that a call under
  way found its task, or room for one. That an id names one entry is a fact of its
  own in either format. In the checklist an id is a title and its number among the
  items of that title, counted up to the line (`MarkdownIdsDiffer`), and
  lines put in between move entries without renaming them (`MovedIds`). In the list, the
  id of a new entry is free as there are more numbers to try than entries
  (`FreeIdIsFree`).

`LeafRunProofs`, for any tasks, revisions, definitions, sessions and bounds:
`TypeCorrect`, `OneActiveNodePerTask`, `RunningNodesHaveSessions`,
`WorkProductIsKept`, `ReturnedRunsLeaveNoWorker`, `RetriesAreKept`,
`CheckpointsSettle`. Every step
changes at most one node, and only as `Allowed` says (`NodeStep`, one lemma per
action); that is true because of what the run's locals still know about the
store (`LocalsInv`: the node being executed is active, the one being superseded
has its work product, the one superseded no longer counts). The store's
invariants, the types and `LocalsInv` are inductive together and none of them
alone. On top of them `FixpointInv` says that while a checkpoint is applied every
task outside its plan is settled, and that a run comes back to `ensureNode` only
when its task has a revision that no checkpoint has listed.

`WaveProofs`, for any children, any number of workers and any bounds:
`ChildrenAreKept`, `WorkersAreBounded`. `PlaceInv` says that a child of the wave is
in one place: not started, with a worker, executed apart, or finished; a child that
is moved leaves the place it was in. `SlackInv` says that whoever has left the main
loop to execute a child apart has a worker less, which is why that child makes none
too many. The loop takes the least child first; that there is one is the
well-foundedness of the naturals.

`PlanAndStoreAgree` is about plans that nobody edits: what the store, the WorkSource
and the workers say of every task agrees at every step, through kills and restarts,
reworks, follow-ups and rejected waves (`Undisturbed`). `WorkersAreOnDisk`,
`ParentsAreDoneLast` and `ReportsAreTrue` follow from it; none of the three is
inductive. A task then has one node, the one with the default id (`OneNode`), because
only an edit makes a checkpoint supersede one; two tasks never share a session
(`OwnSessions`), so that a worker that ends takes no other's session with it; a worker
in memory has its node, session and task on disk as it captured them (`BusyInv`,
`HeldInv`); a claim is made over a node that is done (`ClaimInv`); and a task that is
reported has a node that is done (`ChildInv`). They assume `EndlessSessions`:
finitely many children, and a transport that never gives a session id twice, which
is what its UUIDs are for. `ReportsAreTrue` assumes as well that all children
were planned (`Planned = Child`): a follow-up closes the child that asked for it
before the parent validates, see section 5. TLC has checked `Undisturbed` on the
instance of `wave`, on one with follow-ups and kills, and on one with edits.

`AgentSessionProofs`, for any timeouts and any number of messages:
`TypeCorrect`, `AnswersAreNotMixedUp`, `WaitingIsWatched`, `SessionsExitOnce`,
`DisposedSessionsAreSilent`, `StallsAreSilence`. The invariant is about what the
client has before it, the queue and the event in its hands (`Known`): an open
question is among it (`PendingInv`), so is the end of a session (`ExitInv`), an id
names one event of it (`IdInv`), and while no timer runs and no question is open
there is an event in it whose command will be rejected (`TimerInv`). A client that
waits has nothing before it, hence a timer runs. `quiet + stalledIn` only grows
while the timer is not restarted (`StallInv`), hence a stall means silence.

`DocumentStoreProofs`, for any numbers of codes, phases, directories and requests:
`TypeCorrect`, `FilesAndRowsAgree`, `SyncIsIdempotent`. `StoresAgree` is not
inductive, as `patchFrontmatter` leaves `file_hash` behind and a sync goes by it.
`HashInv` says that a hash which is not that of the row's document is older than
it, `PastInv` that nothing on disk is newer than now, and `SkipInv` that where a
sync would skip a file the row has what is in it: anything that gets into a file
is newer than a hash that lags, unless people bring it back (`back`).

`WorkflowLoopProofs`, for any documents, bodies, gate configurations and numbers of
calls: `TypeCorrect`, `HandoffIsKept`, `CompletionIsJustified`, `NoLoopTakesBack`.
Each write puts the whole document that a call holds, and still takes nothing back of a
document that one call at a time works on (`OwnInv`: two calls on one document make it
shared): what is held is what is stored, as far as neither people nor another call have
changed it (`HeldInv`). What holds of shared documents too does not come from that. A
low-pass that is held past todo passed the handoff, in this call or in the one that left
it so; hence the low-pass of `HandoffIsKept` may be shared, only its scaffold may not.
And the body that a call completes its document with is the one that its own gates were
asked about (`JudgedInv`), so that `CompletionIsJustified` has no exception for shared
documents. `ScaffoldInv` adds to the handoff that a scaffold is a high-pass task:
completed is its last phase, which no loop that is alone with it takes it out of. TLC
finds both other properties violated without their exception: see section 5.

`JudgmentsProofs`, for any profiles, rules, requests, calls, roles and stories:

* `ProviderAndSupervisorAgree`, `ParkedFirst`, `InvestigationsEndDisposed`. The
  supervisor weighs the request that the engine has enriched. Whoever settled a
  request weighed it as the supervisor will (`Weighed`), as the engine writes its
  classification into the request and the supervisor reads the same risk back from it.
  `ParkInv` says that what waits for a person has its node parked, until the
  supervisor acts on the record.
* `ScanIsTheMeaning`: the greedy scan matches a text exactly when the text can be cut
  into the pattern's segments somehow. If it can, then moving each cut to the
  segment's first occurrence after the one before still leaves room for the rest; the
  argument is a least counterexample among the segments. `FirstRuleHasTheLastWord`
  rests on it: the first rule that covers a tool call, its arguments and what the node owns decides
  it, past all tiers (`RuleInv`). `OverlapsAreNoticed` has a sibling whose surface shares a
  name with one of the worker's that can be read among the conflicts, and is that of
  a worker none of whose surfaces can be read. Both assume what requests and rules are: patterns
  as `split("*")` writes them out, and texts (`WrittenOut`).
* `JudgmentsRecorded`. `NameInv` says that the name of a call is no report's until the
  call records its own, so that the answer cannot be contradicted by a later report
  of the same name.
* `SummariesTell`: a script that is under way has not written its summary yet, and
  the four files become its own one after the other (`UnderWay`), so that what an
  earlier run left is never taken for its result.
* `ProducedResultsAreSunk`, `ReviewsReachTheSupervisor`, `CodesTellTheFile`. `SinkInv`
  says that what a sink holds is the invocation's own, and `OutcomeInv` which
  envelopes and exit codes the runner leaves to whom.

`DevGenieProofs`, for any repositories, requests, baselines, locks, edits and kills:

* `RecordsAreWhole`, `LocksAreHonoured`, `RerunsChangeNothing`, from `InstallerInv`.
  Every step of a run is an `Advance`: it writes to the file of the mutation at
  hand, which neither the plan nor the locks this process has read are against
  (`WholeInv`), and what was there is there still (`Grown`). `RerunIsNoOp` is not
  inductive: after one whole run it has to be known of every target why the next
  will leave it alone. `Quiet` lists the reasons: the planner skips it, its writer has
  nothing to do, its file is locked, or it is refused as a conflict. A write may turn
  one reason into another and takes none away (`QuietStays`), as it only adds the
  signs that the detector looks for; a plan that was made before the write still fits
  (`Stands`). `RunningInv` has this of the targets a run went through with the
  present locks, and `SettledInv` of a settled request.
* `FindingsAreReported`, `OwnEntriesAreKept`, from `FlowInv`. The three lists are told
  apart exactly: what is skipped as well is what was accepted before the prompt was quit,
  or what a lock was to keep back, and nothing else. A finding that is neither
  applied, skipped nor failed is open for a reason: its group has not been asked about
  (`AnsweredGroups`), or it is accepted and not written yet (`AccountInv`). That one
  finding comes first in each step of the writers is the well-foundedness of their
  order.

The proofs assume what the modules assume of their constants (`ASSUME`): that default
ids, revisions and "none" are distinct, that bounds are numbers, that requests and
repositories are such; and beyond that `EndlessSessions` and `Planned = Child` where
a theorem states them.

Each inductive invariant was checked by TLC on the instances of section 3 before it was
proved. Two things that reasoning needed showed where the model was not yet exact:
guards of a CASE that overlapped (`TargetPresent`, `BuildStatus`), where the code takes
the first, and the order of the writes in the interactive mode, which is by group.

Only model-checked: liveness (`RunsEnd`, `TasksReachAnOutcome`, `ValidationsEnd`,
`InterruptedSessionsEnd`), which is out of the prover's reach, as ENABLED is, and the
violations of section 5. What a
recursive function computes is proved here for the loop over a log, by least
counterexample; the library's induction theorems cannot be used, as they take an
operator as a parameter.

## 5. Where the code does not keep what its documents say

With a run that shows it:

1. **A repair cuts into acknowledged lines** (`store_clipped`,
   `KillsCorruptNothing`). `repairPartialTail` looks for the last newline in a decoded
   string, whose offsets count UTF-16 units, and truncates the file at that many bytes.
   If any line before the torn one has a character outside ASCII, the cut falls into the
   complete lines, and the next append is glued to what is left of one: that line no
   longer decodes, and no later load of the task succeeds. DGOS-T-0003 asks that a kill
   in the middle of a write does not corrupt the store.
2. **A kill and one edit block a task for good** (`restart_edited`,
   `TasksReachAnOutcome`). The next checkpoint interrupts a session that the
   new process does not know; the transport throws before anything is recorded,
   and so does every later run. DGOS-T-0008 asks that a killed supervisor
   resumes from disk.
3. **A worker goes on while a human is asked** (`decisions_escalated`,
   `EscalationsWait`). Past the threshold the provider turns a verdict into a human's
   and keeps the choice that came with it; the supervisor parks the node, and sends
   the worker that choice. `DGOS-A-0005.md:64` has the run parked until a person decides.
4. **A region edited between plan and write is overwritten** (`installer_edited`,
   `EditedRegionIsKept`). The planner leaves the baseline out of the mutation, and the
   applier compares with nothing. DGOS-I-0016 promises "never a silent overwrite".
5. **Applied, skipped and errors do not add up** (`apply_counts`, `CountsAddUp`). What is
   to be written is split off the accepted findings before their locks are resolved, so
   that a locked finding is listed as skipped, written, and listed as applied; and a
   prompt that is quit lists groups as skipped that were accepted and are applied.
   `apply-flow-counts.test.mjs:3-5` says that the three MUST equal the number of
   actionable findings.

Without a run of their own. Where a property is named, it is stated at the end of
its module, and adding it to the configuration named here shows the steps (for Wave
with MCRuns' children, `Child = {1, 2}`, and without the constraint `OneAtATime`).

Supervisor and store:

* `TaskLog!PromisedIsDurable` with `ShortWrites = TRUE`: `appendEvent` ignores
  `bytesWritten`, acknowledges a torn line, and the next append cuts it off.
* `LeafRun!DoneIsReported`, one kill: between the node's `done` and the
  WorkSource's. The next run finds the node done and returns without a report.
* `LeafRun!WorkerOnRecordedDefinition`, one edit: between `run`'s `getTask` and
  the second checkpoint. The node records the new definition, the worker is
  prompted with the old one.
* `LeafRun!ActiveNodesKnowTheirRevision`: `parkAwaitingHuman` upserts the node
  without revision and fingerprint; the next checkpoint takes any definition for
  an unchanged one.
* `Wave!InnerNeverWorked`, one kill between the last child's and the parent's
  `markStatus`: the next run sees no undone child and gives the parent a worker.
* `Wave!WorkersAreRecycled`: `handleChildFailure` does not dispose of the session
  that failed, unlike `handleLeafFailure`.
* `Wave!DoneChildrenStayDone`, one kill: the next wave starts a worker for a child
  whose node is done but whose task is not yet reported.
* `Wave!FailuresAreEscalated`: a rework that fails for good returns through the
  wave without marking the parent or asking anybody.
* `Wave!DoneIsReported` with the children among `Target`: a run for a child alone
  ends done, and its task stays active.
* `Wave!ReportedDoneIsDone` with an unplanned child (`Planned = {1}`): a follow-up
  closes the child that asked for it before the parent validates; the validation
  may still fail its node.
* `Wave!CheckpointNeverThrows` with one edit of the parent, or, without any, with a
  follow-up (`Planned = {1}`) and one kill: the node of a parent at work is running
  without a session. `reconcileCheckpoints` throws for it, in this run and in every
  later one. DGOS-T-0010 says of such a diff that the worker is interrupted and the
  node superseded.
* `AgentSession!StalledOnlyWhenQuiet`: a question leaves the running stalled timer
  alone; if the agent gives the request up, the timer from before it goes off too
  early.
* `AgentSession!OneQuestionAtATime`: a log, or a request given up, clears the
  pending question while its event is still unread, and a second one is emitted.
  The client's command for the first is rejected, which ends the supervisor's run.
* `AgentSession!InterruptedSessionsEnd` with `InterruptHangs = TRUE`: the interrupt
  timer is armed after `query.interrupt()` has settled. With `StallAfter` below
  `InterruptTimeout` (not the defaults), reads restart the stalled timer, and each
  new stall the interrupt timer, without end (nor does TLC come to one there, as every
  stall takes a correlation id of its own).

Work sources and validation:

* `WorkSourceFile!CreatedIsVisible`: the Markdown list writes a title of two lines
  as it is and reads back its first, so that the task created is not found under the
  id returned. The port asks that it be visible to the next `listTasks`.
* The JSON source returns the revision that is stored, and does not see an edit by
  hand that leaves it alone; the Markdown list's revision is the whole file's, so that
  any edit is one of every task. Ids follow titles and places: an item that is put
  before one of the same title takes its id, one put between an item and its comment
  takes the comment. An empty JSON file reads as no tasks, and a checkpoint cancels all
  nodes; a torn one throws; a torn list loses tasks silently. A JSON id is used
  again once its task is removed. Every call reads, changes and writes the whole file:
  what a human saved in between is lost.
* `Validation!LateCommandsFail`: a command that handles SIGTERM and exits with 0
  passes although it ran out of time.
* A leaf's report that passes says `can_mark_complete: false`, and the supervisor marks
  a leaf without a parent done on it. A report's ref is unique per millisecond only.

Decisions:

* An entry of `changed_files` and the like that has no prefix of a kind is dropped before
  surfaces are compared (`conflict.ts:225-256`): a sibling that owns the same file is not
  seen, as long as another entry can be read. `NoOverlapUnnoticed` speaks of those.
* A hard conflict whose domains are all delegated and local is settled by the inner
  provider at tier 0, although `engine.ts:104` says that it requires routing to the
  parent's loop and a quiesce of the siblings.
* `engine.ts:76` lets an unlisted permission fall through to a human's review; the inner
  provider denies it at tier 0 unless it is delegated.
* A permission that goes to a human parks the node, while the worker is told "deny" and
  goes on. A leaf's parked node is executed again by the next run, without an answer.

Installer and apply flow:

* A lock on `CLAUDE.md` holds off the installer's own region; the delegated install of
  katana writes its block there all the same.
* `ApplyFlow!LockedFindingsAreKept`: rules are collected for the batch before locks are
  resolved, so that a finding reported as skipped is written (`apply-flow.js:488-490`
  says "never silently lift a lock").
* `ApplyFlow!OwnConfigIsSaved`: the backup of the user's configuration is taken once, so
  that the one replaced later is not saved (`eslint-layered-writer.js:10-11`).
* The script that is written for the build stage calls `npm run npm run verify`, so that
  build and CI are found missing again and the workflow is reported as existing. A hook
  counts as applied when there is no `package.json`. A proxied ESLint entry re-exports the file
  that imports it: the configuration no longer loads, and every rule is missing next time.

Katana:

* `DocumentStore!CodesAreNotReused` with `LastCode = 2`, `Collaborators = FALSE`: a kill
  after `create` has written the file rolls the counter back; a sync takes the file
  over, and the next `create` writes over it and fails on UNIQUE, as does every one
  after it. `docs/schema/short-codes.md` says that a numeric tail is never reassigned.
* `DocumentStore!PhasesMoveForward` with `LastPhase = 3`, two requests: both read
  the document in its first phase; one takes it to the third, the other, allowed by
  what it read, to the second, without force.
* `DocumentStore!HashIsOfTheFile`: `patchFrontmatter` does not write the column
  `file_hash`, which `types/document.ts` calls the hash of the file on disk.
* `DocumentStore!StoresAgree` without `~ back[p]`: a file is removed, a sync archives
  its row, git brings the file back; every later sync skips it and the document
  stays archived. In the same way a file that is checked out as it was before a
  transition keeps the row of after it.
* A file that is moved to another directory is reported as an error (UNIQUE) while
  its row is archived; `edit` and `transition_phase` write over a change of the file
  that was not synced yet. No document promises otherwise.
* `WorkflowLoop!LoopsOnlyAdvance` without `shared'`: two calls take one document; one
  completes it, the other writes it back as it holds it, active. `LowPassRestsOnItsScaffold`
  without `shared`: the document is a scaffold, and between the two a third call begins
  the low-pass over it, which goes on over a scaffold that is active again. The
  header of `loop.ts` says "One task document at a time", which is what one call does:
  nothing in lines 44-129 keeps a second one away.
* `WorkflowLoop!OnePhasePerCall`: one call takes a document from todo to active and from
  active to completed (`loop.ts:12`). A call on a document in its last phase rewrites
  its body, asks no gate and answers "completed". A missing tier throws after the
  document was promoted. The document that a call holds is written over what others
  made of it meanwhile.
* `store.write` leaves the tag `#phase/` as it was. The gates' copy of `parseSections`
  reads a section whose text is below a deeper heading as empty. Gates that are unknown
  or disabled are dropped silently; unchecked exit criteria pass while
  `exit_criteria_met` is false. `handoff.ts` says that `transition_phase` asks
  `assertCanStart`, which it does not. `runLoop` is called from tests only, and nothing
  ends a dispatch that hangs.

Roles and protocol proof:

* The command line passes no sink: a result that says "produced" names an artifact that
  is written nowhere (`role-invoke.ts:143-149`). An output path may hold an older result
  after an exit for usage or input; a result asks for a retry though the sink has kept
  its artifact.
* In the supervisor's planning, the autonomy context replaces the risk and scope of the
  planner; the decision to review has risk 5 and "proceed" first among its options, so
  that the policy settles it. Nobody in `daimyo` calls that planning yet. A result that is
  read back loses its risk.
* Two cases of one role in the harness share the last canned answer. Nobody enforces
  the `timeout_ms` of an invocation. A role that is unavailable needs a human in `roles`
  and is blocked in `protocol-proof`.
* The proof's summary says "completed" before it says "failed" when the report does not
  pass; what fails before the `try` leaves the older summary; a role result that
  asks for a human's review passes the gate; `report_ref` is the same in every run.

## 6. Not modelled

Waves within waves; sessions resumed beside their former selves, which count
correlation ids from 1 again; in Wave, the await-by-await steps of checkpoints
and workers and the permission questions, which are LeafRun's; follow-ups for
callers other than a decision. Of Wave's invariants three are about plans that nobody
edits: a checkpoint supersedes the node of a sibling at work and leaves the worker in
the wave, a child that is removed while the wave reports is neither done nor in the
way of the parent, and people report what they like. In DocumentStore, levels side by side (they share the
table only), lists and search, the tables of tags and blockers, a code that is
changed inside a file, `decompose_document`. Gates that run a command, and how gate
configurations are read. The audit that makes ApplyFlow's findings, beyond what each
of them says of the repository.

`PROJECT.json` lists every component with its status and reason. Pure I/O and
wiring (CLI, MCP servers, notification, model calls), generated code and schemas
are left out for good.

## 7. Plan

The order is by how much depends on a part and how hard it is to test.

1. *Done*: every module of section 2, and the proofs of section 4.
2. AgentSession with resumption, in a run of its own with more messages, composed with the watching part of LeafRun.
3. Proofs: that a log of the file and a snapshot of the projection go together, by
   TaskLog's lines as Projection's events; what `Undisturbed` becomes when people edit a
   plan while a wave is at work.
4. Waves within waves: a wave as the child of a wave, through the promise that
   `Wave!ReturnOutcome` makes to its caller.
5. Gates that run a command, with their timeouts, as in Validation.
