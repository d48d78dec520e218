-------------------------------- MODULE Wave --------------------------------
(***************************************************************************)
(* Supervisor.run on a plan of one parent and its children: executeInnerNode *)
(* and executeChildWave. Workers run side by side, the Supervisor reads one  *)
(* at a time, reworks what failed, routes what needs a decision, quiesces    *)
(* siblings that a change touches, validates in the end, and only then tells *)
(* the WorkSource.                                                          *)
(*                                                                          *)
(* LeafRun takes a leaf and a checkpoint apart, down to the single write; a  *)
(* checkpoint, and the start or the end of a worker, is one step here. The   *)
(* children have no children of their own.                                  *)
(***************************************************************************)
EXTENDS Reconciliation, FiniteSets, Sequences

CONSTANTS Child,           \* the tasks below the parent, by the order of their ids
          Planned,         \* the children that are in the plan from the start
          Target,          \* the tasks that runs are started for
          MaxConcurrency,  \* SupervisorOptions.maxConcurrency
          MaxRetries,      \* SupervisorOptions.maxRetries
          EventBudget,     \* is the run limited by maxEvents?
          MaxEdits,        \* bound: edits the human makes
          MaxCrashes       \* bound: runs cut short by a kill

ASSUME WaveAssumption ==
  /\ Child \subseteq Nat \ {0} /\ Planned \subseteq Child
  /\ Target \subseteq {0} \cup Child
  /\ MaxConcurrency \in Nat \ {0} /\ MaxRetries \in Nat
  /\ EventBudget \in BOOLEAN /\ MaxEdits \in Nat /\ MaxCrashes \in Nat
  /\ Revision # {} /\ Definition # {}

Parent == 0
Task == {Parent} \cup Child

VARIABLES ws, nodes, live,    \* as in LeafRun: WorkSource, store, transport
          pc, then,           \* the step under way, and the one after a checkpoint
          target,             \* the task the run is for
          parentNode,         \* the parent's node, as captured before it ran
          members, remaining, \* the children of this wave, and those not started
          active,             \* activeBySession: the worker each child has
          completed,          \* the children that claim to be done, in order
          affected, quiesced, \* a sibling impact, and the siblings stopped for it
          doing, at, mine,    \* the child dealt with apart, its node id, its worker
          caller,             \* what it is dealt with for
          outcome, result,    \* how that ended, and how the last run ended
          edits, crashes

wave == <<parentNode, members, remaining, active, completed>>
impact == <<affected, quiesced>>
nested == <<doing, at, mine, caller>>
bounds == <<edits, crashes>>
vars == <<ws, nodes, live, pc, then, target, wave, impact, nested, outcome,
          result, bounds>>

Worker == [at : NodeId, node : Node]
NoWorker == [at |-> DefaultId, node |-> AbsentNode]
Outcome == {"none", "done", "failed", "needs-decision", "paused"}

TypeOK ==
  /\ ws \in [Task -> WorkTask]
  /\ nodes \in [Task -> [NodeId -> Node]]
  /\ live \subseteq Session
  /\ pc \in {"idle", "checkpoint", "descend", "mark active", "wave", "soft", "hard",
             "decide", "bubble", "escalate", "ensure", "watch", "settle",
             "reject claims", "report", "report parent", "return"}
  /\ then \in {"descend", "ensure", "settle", "return"}
  /\ target \in Task
  /\ parentNode \in Worker
  /\ remaining \subseteq members /\ members \subseteq Child
  /\ active \in [Child -> Worker]
  /\ completed \in Seq([task : Child, at : NodeId])
  /\ affected \subseteq Child /\ quiesced \subseteq Child
  /\ doing \in Task /\ at \in NodeId /\ mine \in Node
  /\ caller \in {"root", "rework", "decision", "conflict"}
  /\ outcome \in Outcome /\ result \in Outcome \cup {"rejected"}
  /\ edits \in Nat /\ crashes \in Nat

FirstRevision == CHOOSE r \in Revision : TRUE
FirstDefinition == CHOOSE d \in Definition : TRUE

Init ==
  /\ ws = [t \in Task |->
             [status |-> IF t \in Child \ Planned THEN "missing" ELSE "todo",
              rev |-> FirstRevision, def |-> FirstDefinition]]
  /\ nodes = [t \in Task |-> [n \in NodeId |-> AbsentNode]]
  /\ live = {}
  /\ pc = "idle" /\ then = "descend" /\ target = Parent
  /\ parentNode = NoWorker
  /\ members = {} /\ remaining = {}
  /\ active = [c \in Child |-> NoWorker]
  /\ completed = <<>>
  /\ affected = {} /\ quiesced = {}
  /\ doing = Parent /\ at = DefaultId /\ mine = AbsentNode /\ caller = "root"
  /\ outcome = "none" /\ result = "none"
  /\ edits = 0 /\ crashes = 0

-----------------------------------------------------------------------------
Present(t) == ws[t].status # "missing"
Busy == {c \in Child : active[c].node.status # "absent"}
First(S) == CHOOSE c \in S : \A d \in S : c <= d
Claimed == {completed[i].task : i \in DOMAIN completed}

\* The run is over; its locals are gone, the sessions are not.
Finish(r) ==
  /\ pc' = "idle" /\ result' = r /\ then' = "descend"
  /\ parentNode' = NoWorker
  /\ members' = {} /\ remaining' = {}
  /\ active' = [c \in Child |-> NoWorker]
  /\ completed' = <<>>
  /\ affected' = {} /\ quiesced' = {}
  /\ doing' = Parent /\ at' = DefaultId /\ mine' = AbsentNode /\ caller' = "root"
  /\ outcome' = "none"
  /\ UNCHANGED <<target, bounds>>

Goto(step) == pc' = step /\ UNCHANGED <<then, target, result, bounds>>

\* A checkpoint, and what comes after it.
Reconcile(next) ==
  /\ pc' = "checkpoint" /\ then' = next
  /\ UNCHANGED <<target, result, bounds>>

\* An upsert leaves the evidence of the node alone (Projection).
Upserted(t, n, node) ==
  [nodes[t] EXCEPT ![n] = [node EXCEPT !.work = nodes[t][n].work]]

\* markNode: all but these three comes from the node as captured.
Marked(t, n, captured, status, retry, session) ==
  Upserted(t, n, [captured EXCEPT !.status = status, !.retry = retry,
                    !.session = session, !.resumable = session # None])

MarkNode(t, n, captured, status, retry, session) ==
  nodes' = [nodes EXCEPT ![t] = Marked(t, n, captured, status, retry, session)]

MarkParent(status) ==
  MarkNode(Parent, parentNode.at, parentNode.node, status,
           parentNode.node.retry, None)

Pending(t) ==
  [AbsentNode EXCEPT !.status = "pending", !.rev = ws[t].rev, !.def = ws[t].def]

\* ensureNode: the nodes of a task once one of them counts.
Ensured(t) ==
  IF Active(nodes[t]) = {} THEN Upserted(t, DefaultId, Pending(t)) ELSE nodes[t]

\* A revision of a task that nothing in use has: markStatus, patchTask and
\* every edit give the task such a one.
FreshRevision(t) ==
  LET used == {ws[t].rev, mine.rev, parentNode.node.rev}
              \cup {active[c].node.rev : c \in Busy}
              \cup {n \in NodeId : nodes[t][n].status # "absent"}
              \cup {nodes[t][n].rev : n \in Active(nodes[t])}
  IN CHOOSE r \in Revision : r \notin used

Written(t, status, def) == [status |-> status, def |-> def, rev |-> FreshRevision(t)]
Write(t, status) == ws' = [ws EXCEPT ![t] = Written(t, status, ws[t].def)]

FreshSession ==
  LET used == live \cup {active[c].node.session : c \in Busy}
              \cup UNION {{nodes[t][n].session : n \in Active(nodes[t])} : t \in Task}
  IN CHOOSE s \in Session : s \notin used

\* startLeafWorker and startWorkerSession: the task becomes active, the node's
\* session is resumed or a new one spawned, the node runs.
StartWorker(t) ==
  LET kept == Ensured(t)
      n == ActiveNode(kept)
      session == IF kept[n].session # None THEN kept[n].session ELSE FreshSession
      running == [kept[n] EXCEPT !.status = "running", !.session = session,
                                 !.resumable = TRUE]
  IN /\ Write(t, "active")
     /\ nodes' = [nodes EXCEPT ![t] = [kept EXCEPT ![n] = running]]
     /\ live' = live \cup {session}

StartedAt(t) == ActiveNode(nodes'[t])
StartedWorker(t) == [at |-> StartedAt(t), node |-> nodes'[t][StartedAt(t)]]

-----------------------------------------------------------------------------
\* reconcileAtCheckpoint, in one step.

\* As from the command line: every run has a process of its own.
Run(t) ==
  /\ pc = "idle" /\ result = "none"
  /\ pc' = "checkpoint" /\ then' = "descend"
  /\ target' = t
  /\ UNCHANGED <<ws, nodes, live, result, wave, impact, nested, outcome, bounds>>

\* The nodes of a task once its action, if any, has been applied.
Reconciled(t) ==
  LET type == Action(ws[t], nodes[t])
      n == ActiveNode(nodes[t])
      old == nodes[t][n]
      observed == [old EXCEPT !.rev = ws[t].rev, !.def = ws[t].def]
      superseded == [nodes[t] EXCEPT ![n].status = "superseded", ![n].work = TRUE]
  IN CASE type = "none" -> nodes[t]
       [] type = "schedule-node" -> Upserted(t, DefaultId, Pending(t))
       [] type = "cancel-node" -> [nodes[t] EXCEPT ![n].status = "cancelled"]
       [] type = "drop-from-queue" ->
            [nodes[t] EXCEPT ![n] = [observed EXCEPT !.status = "done"]]
       [] type = "mark-stale" ->
            [nodes[t] EXCEPT ![n] = [observed EXCEPT !.status = "pending", !.retry = 0]]
       [] type = "refresh-observed-revision" -> [nodes[t] EXCEPT ![n] = observed]
       [] type = "interrupt-and-supersede" ->
            IF NeedsReplacement(ws[t])
            THEN [superseded EXCEPT ![ReplacementId(ws[t].rev)] = Pending(t)]
            ELSE superseded

ToInterrupt(S) == {t \in S : Action(ws[t], nodes[t]) = "interrupt-and-supersede"}
SessionOf(t) == nodes[t][ActiveNode(nodes[t])].session

\* The tasks whose worker should be interrupted but is not in this process.
Unreachable == {t \in ToInterrupt(Task) : SessionOf(t) \notin live}

Throwing == \E t \in Task : Throws(ws[t], nodes[t])

Apply(S) ==
  /\ nodes' = [t \in Task |-> IF t \in S THEN Reconciled(t) ELSE nodes[t]]
  /\ live' = live \ {SessionOf(t) : t \in ToInterrupt(S)}

Checkpoint ==
  /\ pc = "checkpoint"
  /\ ~ Throwing /\ Unreachable = {}
  /\ Apply(Task)
  /\ Goto(then)
  /\ UNCHANGED <<ws, wave, impact, nested, outcome>>

\* The plan fails as a whole, or it is carried out up to the first session
\* that is not there: any of the other actions may have come before it.
CheckpointRejected ==
  /\ pc = "checkpoint"
  /\ \/ Throwing /\ UNCHANGED <<nodes, live>>
     \/ /\ ~ Throwing /\ Unreachable # {}
        /\ \E S \in SUBSET (Task \ Unreachable) : Apply(S)
  /\ Finish("rejected")
  /\ UNCHANGED ws
-----------------------------------------------------------------------------
\* executeNode and executeInnerNode.

Undone == {c \in Child : ws[c].status \notin {"missing", "done"}}

\* getTask and childTasks: a task whose children are all done has none.
Descend ==
  /\ pc = "descend"
  /\ \/ ~ Present(target) /\ Finish("rejected") /\ UNCHANGED nodes
     \/ /\ Present(target) /\ (target # Parent \/ Undone = {})
        /\ doing' = target
        /\ Goto("ensure")
        /\ UNCHANGED <<nodes, wave, impact, at, mine, caller, outcome>>
     \/ /\ Present(target) /\ target = Parent /\ Undone # {}
        /\ LET kept == Ensured(Parent)
               n == ActiveNode(kept)
           IN /\ parentNode' = [at |-> n, node |-> kept[n]]
              /\ nodes' = [nodes EXCEPT ![Parent] =
                   [kept EXCEPT ![n] = [@ EXCEPT !.status = "running",
                                          !.session = None, !.resumable = FALSE]]]
        /\ members' = Undone
        /\ Goto("mark active")
        /\ UNCHANGED <<remaining, active, completed, impact, nested, outcome>>
  /\ UNCHANGED <<ws, live>>

\* markStatus, then a getTask of every child for its ownership surface.
MarkParentActive ==
  /\ pc = "mark active"
  /\ IF Present(Parent) THEN Write(Parent, "active") ELSE UNCHANGED ws
  /\ IF Present(Parent) /\ \A c \in members : Present(c)
     THEN /\ remaining' = members
          /\ Goto("wave")
          /\ UNCHANGED <<parentNode, members, active, completed, impact, nested, outcome>>
     ELSE Finish("rejected")
  /\ UNCHANGED <<nodes, live>>

-----------------------------------------------------------------------------
\* executeChildWave: the main loop.

Filling == remaining # {} /\ Cardinality(Busy) < MaxConcurrency
Reading == pc = "wave" /\ ~ Filling /\ Busy # {}
Read(c) == Reading /\ c = First(Busy)

\* Nothing looks at the status of the child's node before it is started.
Fill ==
  LET c == First(remaining)
  IN /\ pc = "wave" /\ Filling
     /\ IF Present(c)
        THEN /\ StartWorker(c)
             /\ active' = [active EXCEPT ![c] = StartedWorker(c)]
             /\ remaining' = remaining \ {c}
             /\ Goto("wave")
             /\ UNCHANGED <<parentNode, members, completed, impact, nested, outcome>>
        ELSE Finish("rejected") /\ UNCHANGED <<ws, nodes, live>>

\* The budget is spent: sessions and running nodes stay as they are.
Pause ==
  /\ Reading /\ EventBudget
  /\ Finish("paused")
  /\ UNCHANGED <<ws, nodes, live>>

\* readEvent on a session that a checkpoint of the rework has disposed of.
ReadRejected(c) ==
  /\ Read(c) /\ active[c].node.session \notin live
  /\ Finish("rejected")
  /\ UNCHANGED <<ws, nodes, live>>

Listening(c) == Read(c) /\ active[c].node.session \in live

\* Mutation: a worker whose turn has ended stays among the active ones.
StillActive(c) == UNCHANGED active

Stopped(c) == active' = [active EXCEPT ![c] = NoWorker]

\* Mutation: only the last claim is kept.
CompleteLast(c, n) == completed' = <<[task |-> c, at |-> n]>>

\* Map.set: a child that is there already keeps its place.
Complete(c, n) ==
  completed' = IF c \in Claimed
               THEN [i \in DOMAIN completed |->
                       IF completed[i].task = c THEN [task |-> c, at |-> n] ELSE completed[i]]
               ELSE Append(completed, [task |-> c, at |-> n])

\* A claim that leaf validation accepts. The WorkSource is not told yet. What
\* the worker touched decides which siblings are concerned, and how.
WorkerDone(c) ==
  LET w == active[c]
  IN /\ Listening(c)
     /\ MarkNode(c, w.at, w.node, "done", w.node.retry, None)
     /\ live' = live \ {w.node.session}
     /\ Stopped(c) /\ Complete(c, w.at)
     /\ \/ Goto("wave") /\ UNCHANGED affected
        \/ /\ affected' \in SUBSET (members \ {c}) /\ affected' # {}
           /\ Goto("soft") \/ Goto("hard")
     /\ UNCHANGED <<ws, parentNode, members, remaining, quiesced, nested, outcome>>

\* A failure that may be tried again: the node is reset, the child is executed
\* anew. The session of the failed worker is left alone.
Rework(c) ==
  LET n == active[c].at
      node == nodes[c][n]
  IN /\ Listening(c)
     /\ node.retry < MaxRetries
     /\ MarkNode(c, n, node, "pending", node.retry + 1, None)
     /\ Stopped(c)
     /\ doing' = c /\ at' = n /\ caller' = "rework"
     /\ Reconcile("ensure")
     /\ UNCHANGED <<ws, live, parentNode, members, remaining, completed, impact,
                    mine, outcome>>

\* No retry left, or the failure is final: the decision is recorded, whatever
\* it says the parent needs one.
FailChild(c) ==
  LET n == active[c].at
      node == nodes[c][n]
  IN /\ Listening(c)
     /\ MarkNode(c, n, node, "failed", node.retry, None)
     /\ Stopped(c)
     /\ Goto("escalate")
     /\ UNCHANGED <<ws, live, parentNode, members, remaining, completed, impact,
                    nested, outcome>>

Escalate ==
  /\ pc = "escalate"
  /\ MarkParent("needs-decision")
  /\ outcome' = "needs-decision"
  /\ Reconcile("return")
  /\ UNCHANGED <<ws, live, wave, impact, nested>>

\* The worker needs a decision, of this parent or of one further up.
WorkerAsks(c) ==
  LET w == active[c]
  IN /\ Listening(c)
     /\ MarkNode(c, w.at, w.node, "needs-decision", w.node.retry, None)
     /\ live' = live \ {w.node.session}
     /\ Stopped(c)
     /\ doing' = c /\ at' = w.at /\ caller' = "decision"
     /\ Goto("decide") \/ Goto("bubble")
     /\ UNCHANGED <<ws, parentNode, members, remaining, completed, impact,
                    mine, outcome>>

Bubble ==
  /\ pc = "bubble"
  /\ MarkParent("needs-decision")
  /\ Finish("needs-decision")
  /\ UNCHANGED <<ws, live>>

-----------------------------------------------------------------------------
\* Sibling impact: loadSiblingContext, quiesceAffectedSiblings,
\* handleHardConflict.

\* Context for one sibling: evidence, and a patch of its body.
ShareContext ==
  LET t == First(affected)
  IN /\ pc = "soft"
     /\ IF Present(t)
        THEN /\ Write(t, ws[t].status)
             /\ affected' = affected \ {t}
             /\ Goto(IF affected' = {} THEN "wave" ELSE "soft")
             /\ UNCHANGED <<wave, quiesced, nested, outcome>>
        ELSE Finish("rejected") /\ UNCHANGED ws
     /\ UNCHANGED <<nodes, live>>

\* One worker is stopped: its session is kept, to be resumed.
Quiesce ==
  LET c == First(affected \cap Busy)
      w == active[c]
  IN /\ pc = "hard" /\ affected \cap Busy # {}
     /\ IF w.node.session \in live
        THEN /\ nodes' = [nodes EXCEPT ![c] = [Marked(c, w.at, w.node, "pending",
                  w.node.retry, w.node.session) EXCEPT ![w.at].work = TRUE]]
             /\ Stopped(c)
             /\ quiesced' = quiesced \cup {c}
             /\ Goto("hard")
             /\ UNCHANGED <<parentNode, members, remaining, completed, affected,
                            nested, outcome>>
        ELSE Finish("rejected") /\ UNCHANGED nodes
     /\ UNCHANGED <<ws, live>>

\* Only if every affected sibling was at work can the conflict be resolved
\* here; one that has claimed to be done, or has not started, has no worker.
ResolveConflict ==
  /\ pc = "hard" /\ affected \cap Busy = {}
  /\ IF quiesced = affected
     THEN /\ doing' = First(quiesced) /\ at' = DefaultId /\ caller' = "conflict"
          /\ Goto("decide")
          /\ UNCHANGED <<nodes, wave, impact, mine, outcome>>
     ELSE MarkParent("needs-decision") /\ Finish("needs-decision")
  /\ UNCHANGED <<ws, live>>

-----------------------------------------------------------------------------
\* applyDecisionAction and handleRoutedAction.

DecideHuman ==
  /\ pc = "decide"
  /\ MarkParent("awaiting-human")
  /\ outcome' = "needs-decision"
  /\ Reconcile("return")
  /\ UNCHANGED <<ws, live, wave, impact, nested>>

\* A large decision becomes a task of its own, a sibling, and the child that
\* asked for it is done. A sibling conflict is never labelled large.
DecideFollowUp ==
  /\ pc = "decide" /\ caller = "decision"
  /\ Present(doing)
  /\ \E t \in Child \ Planned :
       /\ ws[t].status = "missing"
       /\ \A n \in NodeId : nodes[t][n].status = "absent"
       /\ ws' = [ws EXCEPT ![t] = Written(t, "todo", FirstDefinition),
                           ![doing] = Written(doing, "done", ws[doing].def)]
  /\ MarkNode(doing, at, nodes[doing][at], "done", 0, None)
  /\ outcome' = "done"
  /\ Reconcile("settle")
  /\ UNCHANGED <<live, wave, impact, nested>>

\* The decision is patched into the task, which is active again, and the node
\* starts over with a fresh count of retries and the session it has.
DecidePatch ==
  /\ pc = "decide"
  /\ Present(doing)
  /\ Write(doing, "active")
  /\ MarkNode(doing, at, nodes[doing][at], "pending", 0, nodes[doing][at].session)
  /\ Reconcile("ensure")
  /\ UNCHANGED <<live, wave, impact, nested, outcome>>

\* patchTask, or markStatus, on a child that is gone.
DecideRejected ==
  /\ pc = "decide" /\ ~ Present(doing)
  /\ Finish("rejected")
  /\ UNCHANGED <<ws, nodes, live>>

\* The child is dealt with: the wave goes on, or returns what it returned.
Settle ==
  /\ pc = "settle"
  /\ IF outcome # "done" THEN Finish(outcome)
     ELSE /\ Complete(doing, at)
          /\ quiesced' = quiesced \ {doing}
          /\ affected' = IF quiesced' = {} THEN {} ELSE affected
          /\ at' = DefaultId /\ mine' = AbsentNode /\ outcome' = "none"
          /\ IF quiesced' = {}
             THEN doing' = Parent /\ caller' = "root" /\ Goto("wave")
             ELSE doing' = First(quiesced') /\ UNCHANGED caller /\ Goto("decide")
          /\ UNCHANGED <<parentNode, members, remaining, active>>
  /\ UNCHANGED <<ws, nodes, live>>
-----------------------------------------------------------------------------
\* executeLeafNode, for a child dealt with apart or for the run's own task.

LeafReturn(o, n) ==
  IF caller = "root" THEN Finish(o)
  ELSE /\ outcome' = o /\ at' = n /\ mine' = AbsentNode
       /\ Reconcile("settle")
       /\ UNCHANGED <<wave, impact, doing, caller>>

StartLeaf ==
  LET kept == Ensured(doing)
      n == ActiveNode(kept)
  IN /\ pc = "ensure"
     /\ \/ /\ kept[n].status \in {"done", "failed"}
           /\ LeafReturn(kept[n].status, n)
           /\ UNCHANGED <<ws, nodes, live>>
        \/ /\ kept[n].status \notin {"done", "failed"}
           /\ ~ Present(doing)
           /\ nodes' = [nodes EXCEPT ![doing] = kept]
           /\ Finish("rejected")
           /\ UNCHANGED <<ws, live>>
        \/ /\ kept[n].status \notin {"done", "failed"}
           /\ Present(doing)
           /\ StartWorker(doing)
           /\ at' = n /\ mine' = nodes'[doing][n]
           /\ Goto("watch")
           /\ UNCHANGED <<wave, impact, doing, caller, outcome>>

\* Mutation: a child is reported as done before its parent has validated.
LeafDoneReported ==
  /\ pc = "watch" /\ Present(doing)
  /\ MarkNode(doing, at, mine, "done", mine.retry, None)
  /\ Write(doing, "done")
  /\ live' = live \ {mine.session}
  /\ LeafReturn("done", at)

\* Only a node without a parent tells the WorkSource that it is done.
LeafDone ==
  /\ pc = "watch"
  /\ MarkNode(doing, at, mine, "done", mine.retry, None)
  /\ \/ /\ doing # Parent
        /\ live' = live \ {mine.session}
        /\ LeafReturn("done", at) /\ UNCHANGED ws
     \/ /\ doing = Parent /\ Present(Parent)
        /\ Write(Parent, "done")
        /\ live' = live \ {mine.session}
        /\ LeafReturn("done", at)
     \/ /\ doing = Parent /\ ~ Present(Parent)
        /\ Finish("rejected") /\ UNCHANGED <<ws, live>>

LeafAsks ==
  /\ pc = "watch"
  /\ MarkNode(doing, at, mine, "needs-decision", mine.retry, None)
  /\ live' = live \ {mine.session}
  /\ LeafReturn("needs-decision", at)
  /\ UNCHANGED ws

LeafPauses ==
  /\ pc = "watch" /\ EventBudget
  /\ LeafReturn("paused", at)
  /\ UNCHANGED <<ws, nodes, live>>

\* Mutation: the count of retries is looked at but never written.
LeafRetriesUncounted ==
  /\ pc = "watch" /\ mine.retry <= MaxRetries
  /\ MarkNode(doing, at, mine, "pending", mine.retry, None)
  /\ live' = live \ {mine.session}
  /\ mine' = AbsentNode
  /\ Goto("ensure")
  /\ UNCHANGED <<ws, wave, impact, doing, at, caller, outcome>>

\* handleLeafFailure, with a retry: no checkpoint before the next attempt.
LeafRetries ==
  /\ pc = "watch" /\ mine.retry < MaxRetries
  /\ MarkNode(doing, at, mine, "pending", mine.retry + 1, None)
  /\ live' = live \ {mine.session}
  /\ mine' = AbsentNode
  /\ Goto("ensure")
  /\ UNCHANGED <<ws, wave, impact, doing, at, caller, outcome>>

\* handleLeafFailure without.
LeafFails ==
  /\ pc = "watch"
  /\ MarkNode(doing, at, mine, "failed", mine.retry, None)
  /\ live' = live \ {mine.session}
  /\ IF Present(doing) THEN Write(doing, "blocked") /\ LeafReturn("failed", at)
                       ELSE Finish("rejected") /\ UNCHANGED ws

-----------------------------------------------------------------------------
\* The end of the wave: parent-scope validation and what follows from it.

\* Mutation: the wave is over when the last child has been started.
ValidateEarly ==
  /\ pc = "wave" /\ remaining = {}
  /\ Goto("report") \/ Goto("reject claims")
  /\ UNCHANGED <<ws, nodes, live, wave, impact, nested, outcome>>

Validate ==
  /\ pc = "wave" /\ remaining = {} /\ Busy = {}
  /\ Goto("report") \/ Goto("reject claims")
  /\ UNCHANGED <<ws, nodes, live, wave, impact, nested, outcome>>

\* A rejected wave: the claims become failures one by one, then the parent
\* needs a decision.
RejectClaims ==
  /\ pc = "reject claims"
  /\ IF completed = <<>>
     THEN MarkParent("needs-decision") /\ Finish("needs-decision")
     ELSE LET c == Head(completed).task
              n == Head(completed).at
          IN IF Present(c)
             THEN /\ MarkNode(c, n, nodes[c][n], "failed", nodes[c][n].retry, None)
                  /\ completed' = Tail(completed)
                  /\ Goto("reject claims")
                  /\ UNCHANGED <<parentNode, members, remaining, active, impact,
                                 nested, outcome>>
             ELSE Finish("rejected") /\ UNCHANGED nodes
  /\ UNCHANGED <<ws, live>>

\* An accepted one: every child is reported, then the parent's node is done.
Report ==
  /\ pc = "report"
  /\ IF completed = <<>>
     THEN /\ MarkParent("done")
          /\ Goto("report parent")
          /\ UNCHANGED <<ws, wave, impact, nested, outcome>>
     ELSE LET c == Head(completed).task
          IN /\ IF Present(c)
                THEN /\ Write(c, "done")
                     /\ completed' = Tail(completed)
                     /\ Goto("report")
                     /\ UNCHANGED <<parentNode, members, remaining, active, impact,
                                    nested, outcome>>
                ELSE Finish("rejected") /\ UNCHANGED ws
             /\ UNCHANGED nodes
  /\ UNCHANGED live

ReportParent ==
  /\ pc = "report parent"
  /\ IF Present(Parent)
     THEN /\ Write(Parent, "done")
          /\ outcome' = "done"
          /\ Reconcile("return")
          /\ UNCHANGED <<wave, impact, nested>>
     ELSE Finish("rejected") /\ UNCHANGED ws
  /\ UNCHANGED <<nodes, live>>

ReturnOutcome ==
  /\ pc = "return"
  /\ Finish(outcome)
  /\ UNCHANGED <<ws, nodes, live>>

-----------------------------------------------------------------------------
\* The environment.

\* A human edits the WorkSource: definition, status, existence of a task.
Edit(t) ==
  /\ edits < MaxEdits /\ edits' = edits + 1
  /\ Present(t)
  /\ \/ \E d \in Definition \ {ws[t].def} :
          ws' = [ws EXCEPT ![t] = Written(t, ws[t].status, d)]
     \/ ws[t].status # "done" /\ Write(t, "done")
     \/ ws' = [ws EXCEPT ![t].status = "missing"]
  /\ UNCHANGED <<nodes, live, pc, then, target, wave, impact, nested, outcome,
                 result, crashes>>

\* The process ends with its run, or is killed in the middle of it, and
\* another starts.
Restart ==
  /\ pc = "idle" /\ result # "none"
  /\ live' = {} /\ result' = "none"
  /\ UNCHANGED <<ws, nodes, pc, then, target, wave, impact, nested, outcome, bounds>>

Crash ==
  /\ pc # "idle" /\ crashes < MaxCrashes
  /\ crashes' = crashes + 1
  /\ live' = {}
  /\ pc' = "idle" /\ result' = "none" /\ then' = "descend"
  /\ parentNode' = NoWorker
  /\ members' = {} /\ remaining' = {}
  /\ active' = [c \in Child |-> NoWorker]
  /\ completed' = <<>>
  /\ affected' = {} /\ quiesced' = {}
  /\ doing' = Parent /\ at' = DefaultId /\ mine' = AbsentNode /\ caller' = "root"
  /\ outcome' = "none"
  /\ UNCHANGED <<ws, nodes, target, edits>>

Work ==
  \/ Checkpoint \/ CheckpointRejected
  \/ Descend \/ MarkParentActive \/ Fill
  \/ \E c \in Child : \/ ReadRejected(c) \/ WorkerDone(c) \/ Rework(c)
                      \/ FailChild(c) \/ WorkerAsks(c)
  \/ Escalate \/ Bubble \/ ShareContext \/ Quiesce \/ ResolveConflict
  \/ DecideHuman \/ DecideFollowUp \/ DecidePatch \/ DecideRejected \/ Settle
  \/ StartLeaf \/ LeafDone \/ LeafAsks \/ LeafRetries \/ LeafFails
  \/ Validate \/ RejectClaims \/ Report \/ ReportParent \/ ReturnOutcome

Next ==
  \/ \E t \in Target : Run(t)
  \/ Work \/ Pause \/ LeafPauses
  \/ \E t \in Task : Edit(t)
  \/ Restart \/ Crash

Spec == Init /\ [][Next]_vars
FairSpec == Spec /\ WF_vars(Work)

-----------------------------------------------------------------------------
\* As long as nobody edits the plan, the workers the Supervisor holds in memory
\* are those the store says are running, with the sessions the store would
\* resume, and they are alive. (A checkpoint in the middle of a wave supersedes
\* the node of a sibling whose task was edited, and the wave keeps its worker.)
ActiveWorkersRunning ==
  edits = 0 =>
    \A c \in Busy :
      LET w == active[c]
      IN /\ w.node.session \in live
         /\ nodes[c][w.at].status = "running"
         /\ nodes[c][w.at].session = w.node.session

\* No child gets lost between the queue, the workers, the claims, the siblings
\* stopped for a conflict and the one dealt with apart; each is in one place.
NoChildIsLost ==
  pc \in {"wave", "soft", "hard", "decide", "ensure", "watch", "settle"}
          /\ members # {} =>
    LET apart == quiesced \cup (IF doing = Parent THEN {} ELSE {doing})
    IN /\ members = remaining \cup Busy \cup Claimed \cup apart
       /\ remaining \cap (Busy \cup Claimed \cup apart) = {}
       /\ Busy \cap (Claimed \cup apart) = {}
       /\ Claimed \cap apart = {}

\* Completion goes upward only: when the parent is about to be reported, and
\* nobody took a child away, all children of the wave are reported and their
\* nodes done.
ParentDoneOverDoneChildren ==
  edits = 0 /\ pc = "report parent" =>
    \A c \in members : /\ ws[c].status = "done"
                       /\ nodes[c][ActiveNode(nodes[c])].status = "done"

\* What the WorkSource is told is done, by the Supervisor and no one else, has
\* a node that is done.
ReportedDoneIsDone ==
  edits = 0 =>
    \A c \in Child :
      ws[c].status = "done" => nodes[c][ActiveNode(nodes[c])].status = "done"

\* However failures, reworks, patches and restarts follow each other, a node
\* is tried again at most maxRetries times in a row.
RetriesAreBounded ==
  \A t \in Task : \A n \in Active(nodes[t]) : nodes[t][n].retry <= MaxRetries

\* At most maxConcurrency workers are at work for a wave, the one dealt with
\* apart included.
ConcurrencyIsBounded ==
  Cardinality(Busy) + (IF pc = "watch" THEN 1 ELSE 0) <= MaxConcurrency

\* Every run comes to an end, whatever its workers return.
RunsEnd == pc # "idle" ~> pc = "idle"

-----------------------------------------------------------------------------
\* What documents of the project promise and this code does not keep; the
\* README tells the steps that lead there.

\* "Inner node: governs children, never edits code": the parent of children
\* has no worker of its own.
InnerNeverWorked ==
  pc = "watch" /\ doing = Parent => \A c \in Child : ~ Present(c)

\* "after a node completes/fails, its agent session is disposed": between two
\* events the only sessions alive are those of the workers of the wave.
WorkersAreRecycled ==
  pc = "wave" => live \subseteq {active[c].node.session : c \in Busy}

\* A checkpoint can always be planned.
CheckpointNeverThrows == pc = "checkpoint" => ~ Throwing

\* A child whose work was accepted is not worked on again, unless what is to
\* be done has changed: a restart goes on from what is on disk.
DoneChildrenStayDone ==
  [][ \A c \in Child : \A n \in NodeId :
        nodes[c][n].status = "done" /\ nodes'[c][n].status = "running" =>
          nodes'[c][n].def # nodes[c][n].def ]_vars

\* "Bounded retry policy for failed: ... then escalate (needs-decision/human)":
\* a wave that has failed leaves a parent that waits for a decision.
FailuresAreEscalated ==
  result = "failed" =>
    \A n \in Active(nodes[Parent]) : nodes[Parent][n].status # "running"

\* A run that returns done leaves its task done in the WorkSource.
DoneIsReported == result = "done" => ws[target].status = "done"
=============================================================================
