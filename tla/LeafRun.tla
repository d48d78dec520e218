------------------------------ MODULE LeafRun ------------------------------
(***************************************************************************)
(* Supervisor.run on a task that has neither children nor a parent: two     *)
(* checkpoints, then a worker that is started, watched, retried and         *)
(* retired, while a human edits the WorkSource and the process may be       *)
(* killed between any two writes. Runs follow each other, in one process or *)
(* in several.                                                              *)
(*                                                                          *)
(* Durable: ws (the WorkSource) and nodes (the execution store). Gone with  *)
(* the process: live (the transport's session map) and the local variables. *)
(* The cursor and the wording of evidence are left out: nothing reads them. *)
(***************************************************************************)
EXTENDS Reconciliation

CONSTANTS Task,
          MaxRetries,  \* SupervisorOptions.maxRetries
          EventBudget, \* is the run limited by maxEvents?
          MaxEdits,    \* bound: edits the human makes
          MaxCrashes   \* bound: runs cut short by a kill or a rejected command

ASSUME LeafRunAssumption ==
  /\ MaxRetries \in Nat /\ MaxEdits \in Nat /\ MaxCrashes \in Nat
  /\ EventBudget \in BOOLEAN
  /\ Revision # {} /\ Definition # {}

VARIABLES ws, nodes, live,
          pc,          \* the next await of the run, "idle" if none is under way
          target,      \* the task the run is for
          checkpoint,  \* which of run's two checkpoints: "run" or "node"
          seenTasks,   \* the tasks as the checkpoint read them
          todo,        \* the tasks whose action is still to be applied
          acting,      \* the task whose node is being superseded
          task,        \* the WorkTask that getTask returned
          at, session, \* the node being executed and its session
          result,      \* how the last run ended
          edits, crashes

plan == <<seenTasks, todo, acting>>
leaf == <<task, at, session>>
bounds == <<edits, crashes>>
vars == <<ws, nodes, live, pc, target, checkpoint, plan, leaf, result, bounds>>

FirstRevision == CHOOSE r \in Revision : TRUE
FirstDefinition == CHOOSE d \in Definition : TRUE

TypeOK ==
  /\ ws \in [Task -> WorkTask]
  /\ nodes \in [Task -> [NodeId -> Node]]
  /\ live \subseteq Session
  /\ pc \in {"idle", "list", "read", "apply", "supersede", "replace", "get",
             "ensure", "start", "spawn", "mark", "watch", "done", "report done",
             "park", "fail", "retry", "give up", "report blocked"}
  /\ target \in Task
  /\ checkpoint \in {"run", "node"}
  /\ seenTasks \in [Task -> WorkTask]
  /\ todo \subseteq Task
  /\ acting \in Task
  /\ task \in WorkTask
  /\ at \in NodeId
  /\ session \in Session \cup {None}
  /\ result \in {"none", "done", "failed", "needs-decision", "paused", "rejected"}
  /\ edits \in Nat /\ crashes \in Nat

Init ==
  /\ ws = [t \in Task |->
             [status |-> "todo", rev |-> FirstRevision, def |-> FirstDefinition]]
  /\ nodes = [t \in Task |-> [n \in NodeId |-> AbsentNode]]
  /\ live = {}
  /\ pc = "idle"
  /\ target \in Task
  /\ checkpoint = "run"
  /\ seenTasks = ws
  /\ todo = {} /\ acting = target
  /\ task = ws[target] /\ at = DefaultId /\ session = None
  /\ result = "none"
  /\ edits = 0 /\ crashes = 0

-----------------------------------------------------------------------------
\* Mutation: an upsert starts the evidence of the node afresh.
UpsertAfresh(t, n, node) == nodes' = [nodes EXCEPT ![t][n] = [node EXCEPT !.work = FALSE]]

\* An upsert leaves the evidence of the node alone (Projection).
Upsert(t, n, node) ==
  nodes' = [nodes EXCEPT ![t][n] = [node EXCEPT !.work = nodes[t][n].work]]

\* markNode: status, retry count and session change, the rest is the captured
\* node's; leaving the session out drops it.
MarkNode(status, retry, s) ==
  Upsert(target, at, [nodes[target][at] EXCEPT
                        !.status = status, !.retry = retry,
                        !.session = s, !.resumable = s # None])

\* The revisions of a task that are in use, and the node ids made of them.
UsedRevisions(t) ==
  {ws[t].rev, seenTasks[t].rev, task.rev}
  \cup {n \in NodeId : nodes[t][n].status # "absent"}
  \cup {nodes[t][n].rev : n \in Active(nodes[t])}

\* Every write to a task, by the human or by markStatus, gives it a revision
\* it never had: which one does not matter.
Write(t, status, def) ==
  /\ Revision \ UsedRevisions(t) # {}
  /\ ws' = [ws EXCEPT ![t] =
              [status |-> status, def |-> def,
               rev |-> CHOOSE r \in Revision : r \notin UsedRevisions(t)]]

Present(t) == ws[t].status # "missing"

\* run rejects: nothing is cleaned up, the sessions live as long as the process.
Reject ==
  /\ pc' = "idle"
  /\ result' = "rejected"
  /\ todo' = {}
  /\ UNCHANGED <<ws, nodes, live, target, checkpoint, seenTasks,
                 acting, leaf, bounds>>

Return(r) == pc' = "idle" /\ result' = r
-----------------------------------------------------------------------------
\* Checkpoints: reconcileAtCheckpoint and applyReconciliationAction.

\* The locals of an earlier run are gone.
Run(t) ==
  /\ pc = "idle"
  /\ pc' = "list"
  /\ target' = t
  /\ checkpoint' = "run"
  /\ result' = "none"
  /\ task' = ws[t] /\ at' = DefaultId /\ session' = None
  /\ seenTasks' = ws /\ acting' = t
  /\ UNCHANGED <<ws, nodes, live, todo, bounds>>

\* listTasks, and the loads of all tasks. Nothing but this process writes the
\* store, and no action touches another task's nodes: what was loaded for a
\* task is what the store still holds when its action is applied.
ListTasks ==
  /\ pc = "list"
  /\ seenTasks' = ws
  /\ pc' = "read"
  /\ UNCHANGED <<ws, nodes, live, target, checkpoint, todo, acting, leaf, result, bounds>>

\* workSourceSnapshot asks getTask for the definition only if the node does
\* not know the listed revision.
NeedsDefinition(t) ==
  /\ seenTasks[t].status # "missing"
  /\ Active(nodes[t]) # {} =>
       LET node == nodes[t][ActiveNode(nodes[t])]
       IN node.rev # seenTasks[t].rev \/ node.def = None

Definitions ==
  [t \in Task |->
    IF NeedsDefinition(t) THEN [seenTasks[t] EXCEPT !.def = ws[t].def]
    ELSE IF seenTasks[t].status = "missing" THEN seenTasks[t]
    ELSE [seenTasks[t] EXCEPT !.def = nodes[t][ActiveNode(nodes[t])].def]]

Continue == IF checkpoint = "run" THEN "get" ELSE "ensure"

\* The definitions are read after the list: a task may be gone by then.
ReadDefinitions ==
  /\ pc = "read"
  /\ \A t \in Task : NeedsDefinition(t) => Present(t)
  /\ \A t \in Task : ~ Throws(Definitions[t], nodes[t])
  /\ seenTasks' = Definitions
  /\ todo' = {t \in Task : Action(Definitions[t], nodes[t]) # "none"}
  /\ pc' = IF todo' = {} THEN Continue ELSE "apply"
  /\ UNCHANGED <<ws, nodes, live, target, checkpoint, acting, leaf, result, bounds>>

ReadRejected ==
  /\ pc = "read"
  /\ \/ \E t \in Task : NeedsDefinition(t) /\ ~ Present(t)
     \/ \E t \in Task : Throws(Definitions[t], nodes[t])
  /\ Reject

\* Actions for listed tasks come before those for missing ones.
Due(t) ==
  /\ t \in todo
  /\ seenTasks[t].status = "missing" => \A u \in todo : seenTasks[u].status = "missing"

\* One upsert, and a piece of evidence: every action but the last kind.
Apply(t) ==
  LET n == ActiveNode(nodes[t])
      old == nodes[t][n]
      observed == [old EXCEPT !.rev = seenTasks[t].rev, !.def = seenTasks[t].def]
      type == Action(seenTasks[t], nodes[t])
  IN /\ pc = "apply" /\ Due(t)
     /\ \/ /\ type = "schedule-node"
           /\ Upsert(t, DefaultId,
                     [AbsentNode EXCEPT !.status = "pending",
                        !.rev = seenTasks[t].rev, !.def = seenTasks[t].def])
        \/ type = "cancel-node" /\ Upsert(t, n, [old EXCEPT !.status = "cancelled"])
        \/ type = "drop-from-queue" /\ Upsert(t, n, [observed EXCEPT !.status = "done"])
        \/ /\ type = "mark-stale"
           /\ Upsert(t, n, [observed EXCEPT !.status = "pending", !.retry = 0])
        \/ type = "refresh-observed-revision" /\ Upsert(t, n, observed)
     /\ todo' = todo \ {t}
     /\ pc' = IF todo' = {} THEN Continue ELSE "apply"
     /\ UNCHANGED <<ws, live, target, checkpoint, seenTasks, acting,
                    leaf, result, bounds>>

\* interrupt-and-supersede, first the interrupt and its work product.
Interrupt(t) ==
  LET n == ActiveNode(nodes[t])
  IN /\ pc = "apply" /\ Due(t)
     /\ Action(seenTasks[t], nodes[t]) = "interrupt-and-supersede"
     /\ nodes[t][n].session \in live
     /\ nodes' = [nodes EXCEPT ![t][n].work = TRUE]
     /\ acting' = t
     /\ pc' = "supersede"
     /\ UNCHANGED <<ws, live, target, checkpoint, seenTasks, todo,
                    leaf, result, bounds>>

\* The transport knows only the sessions of its own process.
InterruptRejected(t) ==
  /\ pc = "apply" /\ Due(t)
  /\ Action(seenTasks[t], nodes[t]) = "interrupt-and-supersede"
  /\ nodes[t][ActiveNode(nodes[t])].session \notin live
  /\ Reject

\* Mutation: the worker is disposed of, the node stays as it is.
SupersedeUnrecorded ==
  /\ pc = "supersede"
  /\ live' = live \ {nodes[acting][ActiveNode(nodes[acting])].session}
  /\ pc' = "replace"
  /\ UNCHANGED <<ws, nodes, target, checkpoint, plan, leaf, result, bounds>>

\* The node becomes superseded, then disposeSession.
Supersede ==
  LET n == ActiveNode(nodes[acting])
  IN /\ pc = "supersede"
     /\ Upsert(acting, n, [nodes[acting][n] EXCEPT !.status = "superseded"])
     /\ live' = live \ {nodes[acting][n].session}
     /\ pc' = "replace"
     /\ UNCHANGED <<ws, target, checkpoint, plan, leaf, result, bounds>>

\* The replacement, if there is to be one.
Replace ==
  LET seen == seenTasks[acting]
  IN /\ pc = "replace"
     /\ IF NeedsReplacement(seen)
        THEN Upsert(acting, ReplacementId(seen.rev),
                    [AbsentNode EXCEPT !.status = "pending",
                       !.rev = seen.rev, !.def = seen.def])
        ELSE UNCHANGED nodes
     /\ todo' = todo \ {acting}
     /\ pc' = IF todo' = {} THEN Continue ELSE "apply"
     /\ UNCHANGED <<ws, live, target, checkpoint, seenTasks, acting, leaf, result, bounds>>
-----------------------------------------------------------------------------
\* The leaf: executeLeafNode, startLeafWorker, processLeafEvent,
\* handleLeafFailure.

\* run's own getTask, between the two checkpoints.
GetTask ==
  /\ pc = "get"
  /\ Present(target)
  /\ task' = ws[target]
  /\ checkpoint' = "node"
  /\ pc' = "list"
  /\ UNCHANGED <<ws, nodes, live, target, plan, at, session, result, bounds>>

GetTaskRejected == pc = "get" /\ ~ Present(target) /\ Reject

\* ensureNode, and the early returns of executeLeafNode.
EnsureNode ==
  /\ pc = "ensure"
  /\ IF Active(nodes[target]) = {}
     THEN /\ Upsert(target, DefaultId,
                    [AbsentNode EXCEPT !.status = "pending",
                       !.rev = task.rev, !.def = task.def])
          /\ at' = DefaultId
     ELSE at' = ActiveNode(nodes[target]) /\ UNCHANGED nodes
  /\ \/ nodes'[target][at'].status = "done" /\ Return("done")
     \/ nodes'[target][at'].status = "failed" /\ Return("failed")
     \/ /\ nodes'[target][at'].status \notin {"done", "failed"}
        /\ pc' = "start" /\ UNCHANGED result
  /\ UNCHANGED <<ws, live, target, checkpoint, plan, task, session, bounds>>

\* markStatus reads the task afresh: it keeps a definition edited meanwhile.
MarkActive ==
  /\ pc = "start"
  /\ Present(target)
  /\ Write(target, "active", ws[target].def)
  /\ pc' = "spawn"
  /\ UNCHANGED <<nodes, live, target, checkpoint, plan, leaf, result, bounds>>

\* markStatus on a task that is gone.
MarkStatusRejected ==
  pc \in {"start", "report done", "report blocked"} /\ ~ Present(target) /\ Reject

Resumes == nodes[target][at].session # None /\ nodes[target][at].resumable

UsedSessions ==
  live \cup UNION {{nodes[t][n].session : n \in Active(nodes[t])} : t \in Task}

\* spawnSession: the node's own session is resumed if there is one.
SpawnSession ==
  /\ pc = "spawn"
  /\ Resumes \/ Session \ UsedSessions # {}
  /\ session' = IF Resumes THEN nodes[target][at].session
                ELSE CHOOSE s \in Session : s \notin UsedSessions
  /\ live' = live \cup {session'}
  /\ pc' = "mark"
  /\ UNCHANGED <<ws, nodes, target, checkpoint, plan, task, at, result, bounds>>

\* The transport may refuse to resume a session of an earlier process; the
\* token is invalidated, and the next spawn starts afresh.
ResumeRejected ==
  /\ pc = "spawn"
  /\ Resumes /\ nodes[target][at].session \notin live
  /\ nodes' = [nodes EXCEPT ![target][at].resumable = FALSE]
  /\ UNCHANGED <<ws, live, pc, target, checkpoint, plan, leaf, result, bounds>>

\* Mutation: the session is kept in memory only.
MarkRunningWithoutSession ==
  /\ pc = "mark"
  /\ MarkNode("running", nodes[target][at].retry, None)
  /\ pc' = "watch"
  /\ UNCHANGED <<ws, live, target, checkpoint, plan, leaf, result, bounds>>

MarkRunning ==
  /\ pc = "mark"
  /\ MarkNode("running", nodes[target][at].retry, session)
  /\ pc' = "watch"
  /\ UNCHANGED <<ws, live, target, checkpoint, plan, leaf, result, bounds>>

\* A permission or a question that the decision provider leaves to a human:
\* parkAwaitingHuman rewrites the node without its revision and fingerprint,
\* the worker is answered and goes on.
ParkAwaitingHuman ==
  /\ pc = "watch"
  /\ Upsert(target, at, [nodes[target][at] EXCEPT
                           !.status = "awaiting-human", !.rev = None, !.def = None])
  /\ UNCHANGED <<ws, live, pc, target, checkpoint, plan, leaf, result, bounds>>

\* budgetExhausted: the run returns, node and session stay as they are.
Pause ==
  /\ pc = "watch"
  /\ EventBudget
  /\ Return("paused")
  /\ UNCHANGED <<ws, nodes, live, target, checkpoint, plan, leaf, bounds>>

\* A "done" claim that validation accepts, a "needs-decision", or a failure:
\* an exit, a rejected claim, a reported failure. Logs, questions and stalls
\* are answered and the watch goes on.
TurnEnds ==
  /\ pc = "watch"
  /\ pc' \in {"done", "park", "fail", "give up"}
  /\ UNCHANGED <<ws, nodes, live, target, checkpoint, plan, leaf, result, bounds>>

\* A command is refused because the event it answers is no longer pending, or
\* the worker's last words are not the JSON asked for: either makes run reject.
WatchRejected ==
  /\ pc = "watch" /\ crashes < MaxCrashes
  /\ crashes' = crashes + 1
  /\ pc' = "idle" /\ result' = "rejected" /\ todo' = {}
  /\ UNCHANGED <<ws, nodes, live, target, checkpoint, seenTasks,
                 acting, leaf, edits>>

MarkDone ==
  /\ pc = "done"
  /\ MarkNode("done", nodes[target][at].retry, None)
  /\ pc' = "report done"
  /\ UNCHANGED <<ws, live, target, checkpoint, plan, leaf, result, bounds>>

\* markStatus done, disposeSession and the return.
ReportDone ==
  /\ pc = "report done"
  /\ Present(target)
  /\ Write(target, "done", ws[target].def)
  /\ live' = live \ {session}
  /\ Return("done")
  /\ UNCHANGED <<nodes, target, checkpoint, plan, leaf, bounds>>

\* needs-decision goes back to the caller, who is the root.
Park ==
  /\ pc = "park"
  /\ MarkNode("needs-decision", nodes[target][at].retry, None)
  /\ live' = live \ {session}
  /\ Return("needs-decision")
  /\ UNCHANGED <<ws, target, checkpoint, plan, leaf, bounds>>

\* disposeSession; a retryable failure is tried again while retries are left.
Fail ==
  /\ pc = "fail"
  /\ live' = live \ {session}
  /\ pc' = IF nodes[target][at].retry < MaxRetries THEN "retry" ELSE "give up"
  /\ UNCHANGED <<ws, nodes, target, checkpoint, plan, leaf, result, bounds>>

\* The retry goes back to executeLeafNode: no checkpoint in between.
Retry ==
  /\ pc = "retry"
  /\ MarkNode("pending", nodes[target][at].retry + 1, None)
  /\ pc' = "ensure"
  /\ UNCHANGED <<ws, live, target, checkpoint, plan, leaf, result, bounds>>

GiveUp ==
  /\ pc = "give up"
  /\ live' = live \ {session}
  /\ MarkNode("failed", nodes[target][at].retry, None)
  /\ pc' = "report blocked"
  /\ UNCHANGED <<ws, target, checkpoint, plan, leaf, result, bounds>>

ReportBlocked ==
  /\ pc = "report blocked"
  /\ Present(target)
  /\ Write(target, "blocked", ws[target].def)
  /\ Return("failed")
  /\ UNCHANGED <<nodes, live, target, checkpoint, plan, leaf, bounds>>
-----------------------------------------------------------------------------
\* The environment.

\* A human edits the WorkSource: definition, status, existence of a task.
Edit(t) ==
  /\ edits < MaxEdits
  /\ edits' = edits + 1
  /\ \/ \E d \in Definition : Present(t) /\ d # ws[t].def /\ Write(t, ws[t].status, d)
     \/ Present(t) /\ ws[t].status # "done" /\ Write(t, "done", ws[t].def)
     \/ Present(t) /\ ws[t].status \in {"done", "blocked"} /\ Write(t, "todo", ws[t].def)
     \/ Present(t) /\ ws' = [ws EXCEPT ![t].status = "missing"]
     \/ ~ Present(t) /\ Write(t, "todo", ws[t].def)
  /\ UNCHANGED <<nodes, live, pc, target, checkpoint, plan, leaf, result, crashes>>

\* The process ends, by itself or in the middle of a run, and another starts.
Restart ==
  /\ \/ pc = "idle" /\ live # {} /\ UNCHANGED crashes
     \/ pc # "idle" /\ crashes < MaxCrashes /\ crashes' = crashes + 1
  /\ live' = {}
  /\ pc' = "idle"
  /\ result' = "none"
  /\ todo' = {}
  /\ session' = None
  /\ UNCHANGED <<ws, nodes, target, checkpoint, seenTasks, acting, task, at, edits>>

Checkpoint ==
  \/ ListTasks \/ ReadDefinitions \/ ReadRejected
  \/ \E t \in Task : Apply(t) \/ Interrupt(t) \/ InterruptRejected(t)
  \/ Supersede \/ Replace

Leaf ==
  \/ GetTask \/ GetTaskRejected \/ EnsureNode \/ MarkActive \/ MarkStatusRejected
  \/ SpawnSession \/ ResumeRejected \/ MarkRunning
  \/ MarkDone \/ ReportDone \/ Park \/ Fail \/ Retry \/ GiveUp \/ ReportBlocked

Next ==
  \/ \E t \in Task : Run(t)
  \/ Checkpoint
  \/ Leaf
  \/ TurnEnds \/ ParkAwaitingHuman \/ Pause \/ WatchRejected
  \/ \E t \in Task : Edit(t)
  \/ Restart

Spec == Init /\ [][Next]_vars
-----------------------------------------------------------------------------

\* At any time at most one node of a task counts: schedules, replacements,
\* retries and resurrected ids never leave two, whatever was edited or killed.
OneActiveNode ==
  \A t \in Task : \A m, n \in Active(nodes[t]) : m = n

\* A running node has a session, so that a checkpoint that must interrupt it
\* can be planned at all.
RunningHasSession ==
  \A t \in Task, n \in NodeId :
    nodes[t][n].status = "running" => nodes[t][n].session # None

\* "records what work product the interrupted worker had already produced":
\* it is on record before the node counts as superseded.
SupersededKeepsWorkProduct ==
  \A t \in Task, n \in NodeId :
    nodes[t][n].status = "superseded" => nodes[t][n].work

\* A run that came to an end of its own has disposed of its worker.
SessionDisposedOnReturn ==
  result \in {"done", "failed", "needs-decision"} => session \notin live

\* A finished checkpoint leaves nothing for another one to do, unless the
\* WorkSource has changed since it was listed.
CheckpointReachesFixpoint ==
  pc \in {"get", "ensure"}
  => \A t \in Task :
       (ws[t].status = seenTasks[t].status /\ ws[t].rev = seenTasks[t].rev)
         => Action(ws[t], nodes[t]) = "none"

\* The count of failed attempts survives restarts, resumptions and questions:
\* a node forgets it only when a checkpoint gives it another definition, or
\* schedules it anew.
RetriesForgottenOnlyOnChange ==
  [][ \A t \in Task, n \in NodeId :
        nodes'[t][n].retry < nodes[t][n].retry =>
          \/ Retired(nodes[t][n])
          \/ /\ nodes'[t][n].status = "pending"
             /\ nodes'[t][n].def # nodes[t][n].def ]_vars
-----------------------------------------------------------------------------
\* Liveness: a process that is not killed goes on, a worker's turn ends (a
\* stalled one is interrupted) though runs may pause before, as it goes on
\* where it was when it is resumed, and whoever started a run that was cut
\* short starts it again.
Fairness ==
  /\ WF_vars(Checkpoint) /\ WF_vars(Leaf) /\ SF_vars(TurnEnds)
  /\ \A t \in Task : SF_vars(Run(t))

FairSpec == Spec /\ Fairness

\* Every run comes to an end, however often its worker fails.
RunsEnd == pc # "idle" ~> pc = "idle"

\* "kills and restarts it mid-run and it resumes from disk": a task that is
\* not taken out of the WorkSource is brought to an outcome.
TasksReachAnOutcome ==
  \A t \in Task :
    \/ <>(\E n \in Active(nodes[t]) :
            nodes[t][n].status \in {"done", "failed", "needs-decision"})
    \/ <>(~ Present(t))

-----------------------------------------------------------------------------
\* What documents of the project promise and this code does not keep; the
\* README tells the steps that lead there.

\* What a run reports as done is done in the WorkSource, where the human and
\* the command line look for it.
DoneIsReported ==
  result = "done" => ws[target].status = "done"

\* The definition on record for a worker's node is the one the worker has.
WorkerOnRecordedDefinition ==
  pc = "watch" => nodes[target][at].def \in {None, task.def}

\* A node that counts knows the revision and the definition it was made for,
\* so that a checkpoint can tell whether they changed.
ActiveNodesKnowTheirRevision ==
  \A t \in Task : \A n \in Active(nodes[t]) :
    nodes[t][n].rev # None /\ nodes[t][n].def # None
=============================================================================
