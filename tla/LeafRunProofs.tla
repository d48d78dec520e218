--------------------------- MODULE LeafRunProofs ---------------------------
(***************************************************************************)
(* Theorems about LeafRun, for any tasks, revisions, definitions, sessions  *)
(* and bounds.                                                              *)
(*                                                                          *)
(* The argument has two halves. A step of the system changes at most one    *)
(* node, and only in a way (Allowed) that keeps a task at one active node,  *)
(* a running node at a session and a superseded one at its work product:    *)
(* NodeStep shows that for every action. What makes it true is what the     *)
(* local variables of the run still know about the store (LocalsInv): the   *)
(* node it works on is active, the one it has just superseded is not. With   *)
(* them a checkpoint is followed from its plan to its end (FixpointInv).     *)
(***************************************************************************)
EXTENDS LeafRun, TLAPS

OneActive(f) == \A m, n \in Active(f) : m = n

\* The points of a run at which it has a node of its own.
Executing == {"start", "spawn", "mark", "watch", "done", "park", "fail",
              "retry", "give up"}

\* The points at which no session was started yet.
Checking == {"list", "read", "apply", "supersede", "replace", "get"}

LocalsInv ==
  /\ pc \in Executing => at \in Active(nodes[target])
  /\ pc = "mark" => session # None
  /\ pc \in Checking => session = None
  /\ pc \in {"ensure", "retry", "report blocked"} => session \notin live
  /\ result \in {"done", "failed", "needs-decision"} => pc = "idle"
  /\ pc = "supersede" => /\ Active(nodes[acting]) # {}
                         /\ nodes[acting][ActiveNode(nodes[acting])].work
  /\ pc = "replace" => Active(nodes[acting]) = {}

IInv ==
  /\ TypeOK
  /\ OneActiveNode
  /\ RunningHasSession
  /\ SupersededKeepsWorkProduct
  /\ SessionDisposedOnReturn
  /\ LocalsInv

\* What a step may make of node n of task t.
Allowed(t, n, node) ==
  /\ node \in Node
  /\ Retired(node) \/ n \in Active(nodes[t]) \/ Active(nodes[t]) = {}
  /\ node.status = "running" => node.session # None
  /\ node.status = "superseded" => node.work
  /\ node.retry < nodes[t][n].retry =>
       \/ Retired(nodes[t][n])
       \/ node.status = "pending" /\ node.def # nodes[t][n].def

NodeStep ==
  \/ UNCHANGED nodes
  \/ \E t \in Task, n \in NodeId, node \in Node :
       /\ nodes' = [nodes EXCEPT ![t][n] = node]
       /\ Allowed(t, n, node)
-----------------------------------------------------------------------------
\* Facts about the nodes of one task.

LEMMA ActiveNodeIsActive ==
  ASSUME NEW f, Active(f) # {}
  PROVE  ActiveNode(f) \in Active(f)
BY DEF Active, ActiveNode

\* Where at most one node counts, latestActiveNodesByTask picks exactly it.
LEMMA OnlyActiveNode ==
  ASSUME NEW f, OneActive(f), NEW n \in Active(f)
  PROVE  ActiveNode(f) = n /\ Active(f) = {n}
BY ActiveNodeIsActive DEF OneActive

\* Writing one node changes the set of nodes that count by at most that node.
LEMMA ActiveAfter ==
  ASSUME NEW f \in [NodeId -> Node], NEW n \in NodeId, NEW node \in Node
  PROVE  Active([f EXCEPT ![n] = node])
           = IF Retired(node) THEN Active(f) \ {n} ELSE Active(f) \cup {n}
BY DEF Active, Retired

\* A node that counts is a node of the store whose status is not retired.
LEMMA ActiveInNodeId ==
  ASSUME NEW f, NEW n \in Active(f)
  PROVE  n \in NodeId /\ ~ Retired(f[n])
BY DEF Active

\* What the type of the planned action says about the nodes.
LEMMA ActionFacts ==
  ASSUME NEW t \in WorkTask, NEW f \in [NodeId -> Node]
  PROVE  /\ Action(t, f) = "schedule-node" => Active(f) = {}
         /\ Action(t, f) \in {"cancel-node", "drop-from-queue", "mark-stale",
                              "refresh-observed-revision",
                              "interrupt-and-supersede"} => Active(f) # {}
         /\ Action(t, f) = "mark-stale" => f[ActiveNode(f)].def # t.def
BY DEF Action

\* Every field of a node has its type.
LEMMA NodeFields ==
  ASSUME NEW node \in Node
  PROVE  /\ node.status \in NodeStatus \cup {"absent"}
         /\ node.retry \in Nat
         /\ node.session \in Session \cup {None}
         /\ node.resumable \in BOOLEAN
         /\ node.rev \in Revision \cup {None}
         /\ node.def \in Definition \cup {None}
         /\ node.work \in BOOLEAN
BY DEF Node
-----------------------------------------------------------------------------
\* NodeStep, action by action.

\* An upsert is a NodeStep when it writes the node that counts, or the first one
\* to count, or one that does not, and keeps session, work product and retries.
LEMMA UpsertStep ==
  ASSUME TypeOK, NEW t \in Task, NEW n \in NodeId, NEW node \in Node,
         Upsert(t, n, node),
         Retired(node) \/ n \in Active(nodes[t]) \/ Active(nodes[t]) = {},
         node.status = "running" => node.session # None,
         node.status = "superseded" => nodes[t][n].work,
         node.retry < nodes[t][n].retry =>
            \/ Retired(nodes[t][n])
            \/ node.status = "pending" /\ node.def # nodes[t][n].def
  PROVE  NodeStep
<1> DEFINE new == [node EXCEPT !.work = nodes[t][n].work]
<1>1. nodes[t][n] \in Node
  BY DEF TypeOK
<1>2. nodes[t][n].work \in BOOLEAN
  BY <1>1, NodeFields
<1>3. new \in Node
  BY <1>2 DEF Node
<1>4. /\ new.status = node.status /\ new.session = node.session
      /\ new.retry = node.retry /\ new.def = node.def
      /\ new.work = nodes[t][n].work
  BY DEF Node
<1>5. Retired(new) <=> Retired(node)
  BY <1>4 DEF Retired
<1>6. nodes' = [nodes EXCEPT ![t][n] = new]
  BY DEF Upsert
<1> HIDE DEF new
<1>7. Allowed(t, n, new)
  BY <1>3, <1>4, <1>5 DEF Allowed
<1> QED
  BY <1>3, <1>6, <1>7 DEF NodeStep

\* The node a run is executing, marked with any status but "superseded".
LEMMA MarkStep ==
  ASSUME IInv, pc \in Executing,
         NEW status \in NodeStatus \ {"superseded"}, NEW retry \in Nat,
         NEW s \in Session \cup {None},
         status = "running" => s # None,
         nodes[target][at].retry <= retry,
         MarkNode(status, retry, s)
  PROVE  NodeStep
<1> DEFINE old == nodes[target][at]
           new == [old EXCEPT !.status = status, !.retry = retry,
                              !.session = s, !.resumable = s # None]
<1>1. target \in Task /\ at \in NodeId /\ old \in Node
  BY DEF IInv, TypeOK
<1>2. at \in Active(nodes[target])
  BY DEF IInv, LocalsInv
<1>3. new \in Node
  BY <1>1 DEF Node
<1>4. new.status = status /\ new.session = s /\ new.retry = retry
  BY <1>1 DEF Node
<1>5. Upsert(target, at, new)
  BY DEF MarkNode
<1>6. ~ (retry < old.retry)
  <2>1. old.retry \in Nat
    BY <1>1, NodeFields
  <2> QED
    BY <2>1
<1> HIDE DEF old, new
<1>7. status # "superseded"
  OBVIOUS
<1>8. ~ (new.retry < nodes[target][at].retry)
  BY <1>4, <1>6 DEF old
<1>9. TypeOK
  BY DEF IInv
<1> QED
  BY <1>1, <1>2, <1>3, <1>4, <1>5, <1>7, <1>8, <1>9, UpsertStep

\* A node made for a task that has none.
LEMMA ScheduleStep ==
  ASSUME TypeOK, NEW t \in Task, NEW n \in NodeId, Active(nodes[t]) = {},
         NEW rev \in Revision, NEW def \in Definition,
         Upsert(t, n, [AbsentNode EXCEPT !.status = "pending",
                                         !.rev = rev, !.def = def])
  PROVE  NodeStep
<1> DEFINE new == [AbsentNode EXCEPT !.status = "pending", !.rev = rev, !.def = def]
<1>1. new \in Node /\ new.status = "pending"
  BY DEF AbsentNode, Node, NodeStatus
<1>2. Retired(nodes[t][n])
  BY DEF Active
<1> HIDE DEF new
<1> QED
  BY <1>1, <1>2, UpsertStep DEF new

\* The actions of a checkpoint that write one node: schedule, cancel, drop, mark
\* stale, refresh.
LEMMA ApplyStep ==
  ASSUME IInv, NEW t \in Task, Apply(t)
  PROVE  NodeStep
<1> DEFINE n == ActiveNode(nodes[t])
           old == nodes[t][n]
           seen == seenTasks[t]
           observed == [old EXCEPT !.rev = seen.rev, !.def = seen.def]
           type == Action(seen, nodes[t])
<1>1. TypeOK /\ seen \in WorkTask /\ nodes[t] \in [NodeId -> Node]
  BY DEF IInv, TypeOK
<1>2. seen.rev \in Revision /\ seen.def \in Definition
  BY <1>1 DEF WorkTask
<1>3. CASE type = "schedule-node"
  <2>1. Active(nodes[t]) = {}
    BY <1>1, <1>3, ActionFacts
  <2>2. Upsert(t, DefaultId, [AbsentNode EXCEPT !.status = "pending",
                                !.rev = seen.rev, !.def = seen.def])
    BY <1>3 DEF Apply
  <2> QED
    BY <1>1, <1>2, <2>1, <2>2, ScheduleStep DEF NodeId
<1>4. CASE type \in {"cancel-node", "drop-from-queue", "mark-stale",
                     "refresh-observed-revision"}
  <2>1. Active(nodes[t]) # {}
    BY <1>1, <1>4, ActionFacts
  <2>2. n \in Active(nodes[t]) /\ n \in NodeId /\ ~ Retired(old) /\ old \in Node
    BY <1>1, <2>1, ActiveNodeIsActive, ActiveInNodeId
  <2>3. old.status \notin {"absent", "superseded", "cancelled"}
    BY <2>2 DEF Retired
  <2>4. old.status = "running" => old.session # None
    BY <2>2 DEF IInv, RunningHasSession
  <2>5. old.retry \in Nat /\ ~ (old.retry < old.retry)
    BY <2>2, NodeFields
  <2>6. CASE type = "cancel-node"
    <3> DEFINE new == [old EXCEPT !.status = "cancelled"]
    <3>1. Upsert(t, n, new)
      BY <2>6 DEF Apply
    <3>2. new \in Node /\ new.status = "cancelled" /\ new.retry = old.retry
      BY <2>2 DEF Node, NodeStatus
    <3> HIDE DEF new
    <3>3. Retired(new)
      BY <3>2 DEF Retired
    <3> QED
      BY <1>1, <2>2, <2>5, <3>1, <3>2, <3>3, UpsertStep
  <2>7. CASE type = "drop-from-queue"
    <3> DEFINE new == [observed EXCEPT !.status = "done"]
    <3>1. Upsert(t, n, new)
      BY <2>7 DEF Apply
    <3>2. new \in Node /\ new.status = "done" /\ new.retry = old.retry
      BY <1>2, <2>2 DEF Node, NodeStatus
    <3> HIDE DEF new
    <3> QED
      BY <1>1, <2>2, <2>5, <3>1, <3>2, UpsertStep
  <2>8. CASE type = "mark-stale"
    <3> DEFINE new == [observed EXCEPT !.status = "pending", !.retry = 0]
    <3>1. Upsert(t, n, new)
      BY <2>8 DEF Apply
    <3>2. new \in Node /\ new.status = "pending" /\ new.def = seen.def
      BY <1>2, <2>2 DEF Node, NodeStatus
    <3>3. old.def # seen.def
      BY <1>1, <2>8, ActionFacts
    <3> HIDE DEF new
    <3> QED
      BY <1>1, <2>2, <3>1, <3>2, <3>3, UpsertStep
  <2>9. CASE type = "refresh-observed-revision"
    <3>1. Upsert(t, n, observed)
      BY <2>9 DEF Apply
    <3>2. /\ observed \in Node /\ observed.status = old.status
          /\ observed.retry = old.retry /\ observed.session = old.session
      BY <1>2, <2>2 DEF Node
    <3> HIDE DEF observed
    <3> QED
      BY <1>1, <2>2, <2>3, <2>4, <2>5, <3>1, <3>2, UpsertStep
  <2> QED
    BY <1>4, <2>6, <2>7, <2>8, <2>9
<1> QED
  BY <1>3, <1>4 DEF Apply

\* Interrupting a worker adds its work product to the node and nothing else.
LEMMA InterruptStep ==
  ASSUME IInv, NEW t \in Task, Interrupt(t)
  PROVE  NodeStep
<1> DEFINE n == ActiveNode(nodes[t])
           old == nodes[t][n]
           new == [old EXCEPT !.work = TRUE]
<1>1. /\ seenTasks[t] \in WorkTask /\ nodes[t] \in [NodeId -> Node]
      /\ nodes \in [Task -> [NodeId -> Node]]
  BY DEF IInv, TypeOK
<1>2. Active(nodes[t]) # {}
  BY <1>1, ActionFacts DEF Interrupt
<1>3. n \in Active(nodes[t]) /\ n \in NodeId /\ ~ Retired(old) /\ old \in Node
  BY <1>1, <1>2, ActiveNodeIsActive, ActiveInNodeId
<1>4. /\ new \in Node /\ new.status = old.status /\ new.session = old.session
      /\ new.retry = old.retry /\ new.work
  BY <1>3 DEF Node
<1>5. nodes' = [nodes EXCEPT ![t][n] = new]
  BY <1>1, <1>3 DEF Interrupt
<1>6. old.status = "running" => old.session # None
  BY <1>3 DEF IInv, RunningHasSession
<1>7. ~ (old.retry < old.retry)
  BY <1>3, NodeFields
<1> HIDE DEF new
<1>8. Allowed(t, n, new)
  BY <1>3, <1>4, <1>6, <1>7 DEF Allowed
<1> QED
  BY <1>3, <1>4, <1>5, <1>8 DEF NodeStep

\* Superseding retires the one node that counts, whose work product is on record.
LEMMA SupersedeStep ==
  ASSUME IInv, Supersede
  PROVE  NodeStep
<1> DEFINE n == ActiveNode(nodes[acting])
           old == nodes[acting][n]
           new == [old EXCEPT !.status = "superseded"]
<1>1. TypeOK /\ acting \in Task /\ nodes[acting] \in [NodeId -> Node]
  BY DEF IInv, TypeOK
<1>2. Active(nodes[acting]) # {} /\ old.work
  BY DEF IInv, LocalsInv, Supersede
<1>3. n \in Active(nodes[acting]) /\ n \in NodeId /\ old \in Node
  BY <1>1, <1>2, ActiveNodeIsActive, ActiveInNodeId
<1>4. new \in Node /\ new.status = "superseded" /\ new.retry = old.retry
  BY <1>3 DEF Node, NodeStatus
<1>5. ~ (old.retry < old.retry)
  BY <1>3, NodeFields
<1>6. Upsert(acting, n, new)
  BY DEF Supersede
<1> HIDE DEF new
<1> QED
  BY <1>1, <1>2, <1>3, <1>4, <1>5, <1>6, UpsertStep

\* The replacement is made after the node it replaces has been retired.
LEMMA ReplaceStep ==
  ASSUME IInv, Replace
  PROVE  NodeStep
<1>1. CASE NeedsReplacement(seenTasks[acting])
  <2> DEFINE seen == seenTasks[acting]
  <2>1. TypeOK /\ acting \in Task /\ seen \in WorkTask
    BY DEF IInv, TypeOK
  <2>2. seen.rev \in Revision /\ seen.def \in Definition
    BY <2>1 DEF WorkTask
  <2>3. ReplacementId(seen.rev) \in NodeId
    BY <2>2 DEF ReplacementId, NodeId
  <2>4. Active(nodes[acting]) = {}
    BY DEF IInv, LocalsInv, Replace
  <2>5. Upsert(acting, ReplacementId(seen.rev),
               [AbsentNode EXCEPT !.status = "pending",
                                  !.rev = seen.rev, !.def = seen.def])
    BY <1>1 DEF Replace
  <2> QED
    BY <2>1, <2>2, <2>3, <2>4, <2>5, ScheduleStep
<1>2. CASE ~ NeedsReplacement(seenTasks[acting])
  BY <1>2 DEF Replace, NodeStep
<1> QED
  BY <1>1, <1>2

\* ensureNode makes a node only for a task that has none.
LEMMA EnsureStep ==
  ASSUME IInv, EnsureNode
  PROVE  NodeStep
<1>1. CASE Active(nodes[target]) = {}
  <2>1. TypeOK /\ target \in Task /\ task \in WorkTask
    BY DEF IInv, TypeOK
  <2>2. task.rev \in Revision /\ task.def \in Definition
    BY <2>1 DEF WorkTask
  <2>3. Upsert(target, DefaultId, [AbsentNode EXCEPT !.status = "pending",
                                     !.rev = task.rev, !.def = task.def])
    BY <1>1 DEF EnsureNode
  <2> QED
    BY <1>1, <2>1, <2>2, <2>3, ScheduleStep DEF NodeId
<1>2. CASE Active(nodes[target]) # {}
  BY <1>2 DEF EnsureNode, NodeStep
<1> QED
  BY <1>1, <1>2

\* A rejected resume marks the token invalid and keeps the session.
LEMMA ResumeRejectedStep ==
  ASSUME IInv, ResumeRejected
  PROVE  NodeStep
<1> DEFINE old == nodes[target][at]
           new == [old EXCEPT !.resumable = FALSE]
<1>1. /\ target \in Task /\ at \in NodeId /\ old \in Node
      /\ nodes \in [Task -> [NodeId -> Node]]
  BY DEF IInv, TypeOK
<1>2. at \in Active(nodes[target])
  BY DEF IInv, LocalsInv, ResumeRejected, Executing
<1>3. /\ new \in Node /\ new.status = old.status /\ new.session = old.session
      /\ new.retry = old.retry
  BY <1>1 DEF Node
<1>4. nodes' = [nodes EXCEPT ![target][at] = new]
  BY <1>1 DEF ResumeRejected
<1>5. old.status = "running" => old.session # None
  BY <1>1 DEF IInv, RunningHasSession
<1>6. old.status # "superseded"
  BY <1>2 DEF Active, Retired
<1>7. ~ (old.retry < old.retry)
  BY <1>1, NodeFields
<1> HIDE DEF new
<1>8. Allowed(target, at, new)
  BY <1>2, <1>3, <1>5, <1>6, <1>7 DEF Allowed
<1> QED
  BY <1>1, <1>3, <1>4, <1>8 DEF NodeStep

\* A question left to a human keeps session and retries, and drops the revision.
LEMMA ParkAwaitingHumanStep ==
  ASSUME IInv, ParkAwaitingHuman
  PROVE  NodeStep
<1> DEFINE old == nodes[target][at]
           new == [old EXCEPT !.status = "awaiting-human", !.rev = None, !.def = None]
<1>1. TypeOK /\ target \in Task /\ at \in NodeId /\ old \in Node
  BY DEF IInv, TypeOK
<1>2. at \in Active(nodes[target])
  BY DEF IInv, LocalsInv, ParkAwaitingHuman, Executing
<1>3. new \in Node /\ new.status = "awaiting-human" /\ new.retry = old.retry
  BY <1>1 DEF Node, NodeStatus
<1>4. ~ (old.retry < old.retry)
  BY <1>1, NodeFields
<1>5. Upsert(target, at, new)
  BY DEF ParkAwaitingHuman
<1> HIDE DEF new
<1> QED
  BY <1>1, <1>2, <1>3, <1>4, <1>5, UpsertStep

\* The five calls of markNode on the node that the run executes.
LEMMA MarkingStep ==
  ASSUME IInv, MarkRunning \/ MarkDone \/ Park \/ Retry \/ GiveUp
  PROVE  NodeStep
<1> DEFINE retry == nodes[target][at].retry
<1>1. nodes[target][at] \in Node
  BY DEF IInv, TypeOK
<1>2. retry \in Nat
  BY <1>1, NodeFields
<1>3. retry <= retry /\ retry + 1 \in Nat /\ retry <= retry + 1
  BY <1>2
<1>4. None \in Session \cup {None} /\ session \in Session \cup {None}
  BY DEF IInv, TypeOK
<1> HIDE DEF retry
<1>5. CASE MarkRunning
  <2>1. MarkNode("running", retry, session) /\ pc \in Executing /\ session # None
    BY <1>5 DEF MarkRunning, Executing, IInv, LocalsInv, retry
  <2> QED
    BY <1>2, <1>3, <1>4, <2>1, MarkStep DEF NodeStatus, retry
<1>6. CASE MarkDone
  <2>1. MarkNode("done", retry, None) /\ pc \in Executing
    BY <1>6 DEF MarkDone, Executing, retry
  <2> QED
    BY <1>2, <1>3, <1>4, <2>1, MarkStep DEF NodeStatus, retry
<1>7. CASE Park
  <2>1. MarkNode("needs-decision", retry, None) /\ pc \in Executing
    BY <1>7 DEF Park, Executing, retry
  <2> QED
    BY <1>2, <1>3, <1>4, <2>1, MarkStep DEF NodeStatus, retry
<1>8. CASE Retry
  <2>1. MarkNode("pending", retry + 1, None) /\ pc \in Executing
    BY <1>8 DEF Retry, Executing, retry
  <2> QED
    BY <1>2, <1>3, <1>4, <2>1, MarkStep DEF NodeStatus, retry
<1>9. CASE GiveUp
  <2>1. MarkNode("failed", retry, None) /\ pc \in Executing
    BY <1>9 DEF GiveUp, Executing, retry
  <2> QED
    BY <1>2, <1>3, <1>4, <2>1, MarkStep DEF NodeStatus, retry
<1> QED
  BY <1>5, <1>6, <1>7, <1>8, <1>9

\* Every step of the specification treats the store as NodeStep says.
LEMMA EveryStepIsANodeStep ==
  ASSUME IInv, [Next]_vars
  PROVE  NodeStep
<1>1. CASE UNCHANGED vars
  BY <1>1 DEF vars, NodeStep
<1>2. CASE \E t \in Task : Run(t) \/ Edit(t)
  BY <1>2 DEF Run, Edit, NodeStep
<1>3. CASE Checkpoint
  <2>1. CASE ListTasks \/ ReadDefinitions \/ ReadRejected
    BY <2>1 DEF ListTasks, ReadDefinitions, ReadRejected, Reject, NodeStep
  <2>2. CASE \E t \in Task : InterruptRejected(t)
    BY <2>2 DEF InterruptRejected, Reject, NodeStep
  <2> QED
    BY <1>3, <2>1, <2>2, ApplyStep, InterruptStep, SupersedeStep, ReplaceStep
    DEF Checkpoint
<1>4. CASE Leaf
  <2>1. CASE \/ GetTask \/ GetTaskRejected \/ MarkActive \/ MarkStatusRejected
             \/ SpawnSession \/ ReportDone \/ Fail \/ ReportBlocked
    BY <2>1 DEF GetTask, GetTaskRejected, MarkActive, MarkStatusRejected,
                SpawnSession, ReportDone, Fail, ReportBlocked, Reject, NodeStep
  <2> QED
    BY <1>4, <2>1, EnsureStep, ResumeRejectedStep, MarkingStep DEF Leaf
<1>5. CASE TurnEnds \/ Pause \/ WatchRejected \/ Restart
  BY <1>5 DEF TurnEnds, Pause, WatchRejected, Restart, NodeStep
<1>6. CASE ParkAwaitingHuman
  BY <1>6, ParkAwaitingHumanStep
<1> QED
  BY <1>1, <1>2, <1>3, <1>4, <1>5, <1>6 DEF Next

-----------------------------------------------------------------------------
\* What a NodeStep leaves true of the store.

\* A NodeStep keeps the three invariants of the store, and its type.
LEMMA NodeStepKeepsStore ==
  ASSUME IInv, NodeStep
  PROVE  /\ nodes' \in [Task -> [NodeId -> Node]]
         /\ OneActiveNode'
         /\ RunningHasSession'
         /\ SupersededKeepsWorkProduct'
<1> USE DEF IInv
<1>1. CASE UNCHANGED nodes
  <2>1. nodes' \in [Task -> [NodeId -> Node]]
    BY <1>1 DEF TypeOK
  <2>2. OneActiveNode'
    BY <1>1 DEF OneActiveNode
  <2>3. RunningHasSession' /\ SupersededKeepsWorkProduct'
    BY <1>1 DEF RunningHasSession, SupersededKeepsWorkProduct
  <2> QED
    BY <2>1, <2>2, <2>3
<1>2. CASE \E t \in Task, n \in NodeId, node \in Node :
             /\ nodes' = [nodes EXCEPT ![t][n] = node]
             /\ Allowed(t, n, node)
  <2>1. PICK t \in Task, n \in NodeId, node \in Node :
               /\ nodes' = [nodes EXCEPT ![t][n] = node]
               /\ Allowed(t, n, node)
    BY <1>2
  <2>2. nodes \in [Task -> [NodeId -> Node]]
    BY DEF TypeOK
  <2>3. /\ nodes' \in [Task -> [NodeId -> Node]]
        /\ nodes'[t] = [nodes[t] EXCEPT ![n] = node]
        /\ \A u \in Task \ {t} : nodes'[u] = nodes[u]
    BY <2>1, <2>2
  <2>4. OneActiveNode'
    <3> SUFFICES ASSUME NEW u \in Task PROVE OneActive(nodes'[u])
      BY DEF OneActiveNode, OneActive, Active, Retired
    <3>1. CASE u = t
      <4>1. Active(nodes'[t]) = IF Retired(node) THEN Active(nodes[t]) \ {n}
                                ELSE Active(nodes[t]) \cup {n}
        <5>1. nodes[t] \in [NodeId -> Node]
          BY <2>2
        <5>2. Active([nodes[t] EXCEPT ![n] = node])
                = IF Retired(node) THEN Active(nodes[t]) \ {n}
                  ELSE Active(nodes[t]) \cup {n}
          BY <5>1, ActiveAfter
        <5> QED
          BY <2>3, <5>2
      <4>2. \A k, m \in Active(nodes[t]) : k = m
        BY DEF OneActiveNode
      <4>3. Retired(node) \/ n \in Active(nodes[t]) \/ Active(nodes[t]) = {}
        BY <2>1 DEF Allowed
      <4> QED
        BY <3>1, <4>1, <4>2, <4>3 DEF OneActive
    <3>2. CASE u # t
      BY <2>3, <3>2 DEF OneActiveNode, OneActive
    <3> QED
      BY <3>1, <3>2
  <2>5. \A u \in Task, k \in NodeId :
          \/ nodes'[u][k] = nodes[u][k]
          \/ nodes'[u][k] = node
    BY <2>2, <2>3
  <2>6. RunningHasSession' /\ SupersededKeepsWorkProduct'
    BY <2>1, <2>5 DEF Allowed, RunningHasSession, SupersededKeepsWorkProduct
  <2> QED
    BY <2>3, <2>4, <2>6
<1> QED
  BY <1>1, <1>2 DEF NodeStep
-----------------------------------------------------------------------------
\* The variables other than nodes keep their types.

\* markStatus gives the task a revision, and keeps its shape.
LEMMA WriteKeepsType ==
  ASSUME TypeOK, NEW t \in Task, NEW status \in WorkStatus,
         NEW def \in Definition, Write(t, status, def)
  PROVE  ws' \in [Task -> WorkTask]
<1> DEFINE rev == CHOOSE r \in Revision : r \notin UsedRevisions(t)
<1>1. rev \in Revision
  BY DEF Write
<1> HIDE DEF rev
<1>2. [status |-> status, def |-> def, rev |-> rev] \in WorkTask
  BY <1>1 DEF WorkTask
<1>3. ws' = [ws EXCEPT ![t] = [status |-> status, def |-> def, rev |-> rev]]
  BY DEF Write, rev
<1> QED
  BY <1>2, <1>3 DEF TypeOK

\* What a checkpoint reads task by task is again a snapshot of every task.
LEMMA DefinitionsType ==
  ASSUME TypeOK
  PROVE  Definitions \in [Task -> WorkTask]
<1> SUFFICES ASSUME NEW t \in Task PROVE Definitions[t] \in WorkTask
  BY DEF Definitions
<1>1. seenTasks[t] \in WorkTask /\ ws[t] \in WorkTask
  BY DEF TypeOK
<1>2. ws[t].def \in Definition
  BY <1>1 DEF WorkTask
<1>3. CASE NeedsDefinition(t)
  <2>1. Definitions[t] = [seenTasks[t] EXCEPT !.def = ws[t].def]
    BY <1>3 DEF Definitions
  <2> QED
    BY <1>1, <1>2, <2>1 DEF WorkTask
<1>4. CASE ~ NeedsDefinition(t) /\ seenTasks[t].status = "missing"
  BY <1>1, <1>4 DEF Definitions
<1>5. CASE ~ NeedsDefinition(t) /\ seenTasks[t].status # "missing"
  <2> DEFINE node == nodes[t][ActiveNode(nodes[t])]
  <2>1. Active(nodes[t]) # {} /\ node.def # None
    BY <1>5 DEF NeedsDefinition
  <2>2. nodes[t] \in [NodeId -> Node]
    BY DEF TypeOK
  <2>3. ActiveNode(nodes[t]) \in NodeId
    BY <2>1, ActiveNodeIsActive, ActiveInNodeId
  <2>4. node \in Node
    BY <2>2, <2>3
  <2>5. node.def \in Definition
    BY <2>1, <2>4, NodeFields
  <2>6. Definitions[t] = [seenTasks[t] EXCEPT !.def = node.def]
    BY <1>5 DEF Definitions
  <2> HIDE DEF node
  <2> QED
    BY <1>1, <2>5, <2>6 DEF WorkTask
<1> QED
  BY <1>3, <1>4, <1>5

\* Whether resumed or spawned, the worker has a session.
LEMMA SpawnKeepsType ==
  ASSUME TypeOK, SpawnSession
  PROVE  session' \in Session
<1>1. CASE Resumes
  <2>1. nodes[target][at] \in Node
    BY DEF TypeOK
  <2>2. nodes[target][at].session \in Session \cup {None}
    BY <2>1, NodeFields
  <2>3. nodes[target][at].session # None /\ session' = nodes[target][at].session
    BY <1>1 DEF SpawnSession, Resumes
  <2> QED
    BY <2>2, <2>3
<1>2. CASE ~ Resumes
  <2>1. Session \ UsedSessions # {} /\ session' = CHOOSE s \in Session : s \notin UsedSessions
    BY <1>2 DEF SpawnSession
  <2> QED
    BY <2>1
<1> QED
  BY <1>1, <1>2

\* The steps of a checkpoint keep the types of the other variables.
LEMMA CheckpointKeepsTypes ==
  ASSUME IInv, Checkpoint, nodes' \in [Task -> [NodeId -> Node]]
  PROVE  TypeOK'
<1> USE DEF IInv, TypeOK
<1>1. CASE ListTasks
  BY <1>1 DEF ListTasks, leaf, bounds
<1>2. CASE ReadDefinitions
  BY <1>2, DefinitionsType DEF ReadDefinitions, Continue, leaf, bounds
<1>3. CASE ReadRejected \/ \E t \in Task : InterruptRejected(t)
  BY <1>3 DEF ReadRejected, InterruptRejected, Reject, leaf, bounds
<1>4. ASSUME NEW t \in Task, Apply(t) PROVE TypeOK'
  BY <1>4 DEF Apply, Continue, leaf, bounds
<1>5. ASSUME NEW t \in Task, Interrupt(t) PROVE TypeOK'
  BY <1>5 DEF Interrupt, leaf, bounds
<1>6. CASE Supersede
  BY <1>6 DEF Supersede, plan, leaf, bounds
<1>7. CASE Replace
  BY <1>7 DEF Replace, Continue, leaf, bounds
<1> QED
  BY <1>1, <1>2, <1>3, <1>4, <1>5, <1>6, <1>7 DEF Checkpoint

\* The steps of a leaf's execution keep the types of the other variables.
LEMMA LeafKeepsTypes ==
  ASSUME IInv, Leaf, nodes' \in [Task -> [NodeId -> Node]]
  PROVE  TypeOK'
<1>1. ws[target].def \in Definition
  <2>1. ws[target] \in WorkTask
    BY DEF IInv, TypeOK
  <2> QED
    BY <2>1 DEF WorkTask
<1> USE DEF IInv, TypeOK
<1>2. CASE GetTask
  BY <1>2 DEF GetTask, plan, bounds
<1>3. CASE GetTaskRejected \/ MarkStatusRejected
  BY <1>3 DEF GetTaskRejected, MarkStatusRejected, Reject, leaf, bounds
<1>4. CASE EnsureNode
  <2>1. at' \in NodeId
    <3>1. CASE Active(nodes[target]) = {}
      BY <1>4, <3>1 DEF EnsureNode, NodeId
    <3>2. CASE Active(nodes[target]) # {}
      <4>1. ActiveNode(nodes[target]) \in NodeId
        BY <3>2, ActiveNodeIsActive, ActiveInNodeId
      <4> QED
        BY <1>4, <3>2, <4>1 DEF EnsureNode
    <3> QED
      BY <3>1, <3>2
  <2> QED
    BY <1>4, <2>1 DEF EnsureNode, Return, plan, bounds
<1>5. CASE MarkActive
  <2>1. ws' \in [Task -> WorkTask]
    BY <1>1, <1>5, WriteKeepsType DEF MarkActive, WorkStatus
  <2> QED
    BY <1>5, <2>1 DEF MarkActive, plan, leaf, bounds
<1>6. CASE SpawnSession
  <2>1. session' \in Session
    BY <1>6, SpawnKeepsType
  <2> QED
    BY <1>6, <2>1 DEF SpawnSession, plan, bounds
<1>7. CASE ResumeRejected \/ MarkRunning \/ MarkDone
  BY <1>7 DEF ResumeRejected, MarkRunning, MarkDone, plan, leaf, bounds
<1>8. CASE ReportDone
  <2>1. ws' \in [Task -> WorkTask]
    BY <1>1, <1>8, WriteKeepsType DEF ReportDone, WorkStatus
  <2> QED
    BY <1>8, <2>1 DEF ReportDone, Return, plan, leaf, bounds
<1>9. CASE Park \/ Fail \/ Retry \/ GiveUp
  BY <1>9 DEF Park, Fail, Retry, GiveUp, Return, plan, leaf, bounds
<1>10. CASE ReportBlocked
  <2>1. ws' \in [Task -> WorkTask]
    BY <1>1, <1>10, WriteKeepsType DEF ReportBlocked, WorkStatus
  <2> QED
    BY <1>10, <2>1 DEF ReportBlocked, Return, plan, leaf, bounds
<1> QED
  BY <1>2, <1>3, <1>4, <1>5, <1>6, <1>7, <1>8, <1>9, <1>10 DEF Leaf

\* An edit by the human leaves a task that the WorkSource can hold.
LEMMA EditKeepsType ==
  ASSUME TypeOK, NEW t \in Task, Edit(t)
  PROVE  ws' \in [Task -> WorkTask]
<1>1. ws[t] \in WorkTask
  BY DEF TypeOK
<1>2. ws[t].status \in WorkStatus \cup {"missing"} /\ ws[t].def \in Definition
  BY <1>1 DEF WorkTask
<1>3. CASE \E d \in Definition : Present(t) /\ Write(t, ws[t].status, d)
  <2>1. PICK d \in Definition : Present(t) /\ Write(t, ws[t].status, d)
    BY <1>3
  <2>2. ws[t].status \in WorkStatus
    BY <1>2, <2>1 DEF Present
  <2> QED
    BY <2>1, <2>2, WriteKeepsType
<1>4. CASE Write(t, "done", ws[t].def) \/ Write(t, "todo", ws[t].def)
  BY <1>2, <1>4, WriteKeepsType DEF WorkStatus
<1>5. CASE ws' = [ws EXCEPT ![t].status = "missing"]
  <2>1. [ws[t] EXCEPT !.status = "missing"] \in WorkTask
    BY <1>1 DEF WorkTask
  <2> QED
    BY <1>5, <2>1 DEF TypeOK
<1> QED
  BY <1>3, <1>4, <1>5 DEF Edit

\* Every step keeps the types, given that of the store.
LEMMA TypesKept ==
  ASSUME IInv, [Next]_vars, nodes' \in [Task -> [NodeId -> Node]]
  PROVE  TypeOK'
<1>1. CASE UNCHANGED vars
  BY <1>1 DEF IInv, TypeOK, vars, plan, leaf, bounds
<1>2. ASSUME NEW t \in Task, Run(t) PROVE TypeOK'
  <2>1. ws[t] \in WorkTask /\ DefaultId \in NodeId
    BY DEF IInv, TypeOK, NodeId
  <2> QED
    BY <1>2, <2>1 DEF Run, IInv, TypeOK, bounds
<1>3. CASE TurnEnds
  BY <1>3 DEF TurnEnds, IInv, TypeOK, plan, leaf, bounds
<1>4. CASE ParkAwaitingHuman \/ Pause
  BY <1>4 DEF ParkAwaitingHuman, Pause, Return, IInv, TypeOK, plan, leaf, bounds
<1>5. CASE WatchRejected \/ Restart
  <2>1. crashes' \in {crashes, crashes + 1} /\ edits' = edits
    BY <1>5 DEF WatchRejected, Restart
  <2>2. crashes \in Nat /\ edits \in Nat
    BY DEF IInv, TypeOK
  <2>3. crashes' \in Nat /\ edits' \in Nat
    BY <2>1, <2>2
  <2> QED
    BY <1>5, <2>3 DEF WatchRejected, Restart, IInv, TypeOK, leaf
<1>6. ASSUME NEW t \in Task, Edit(t) PROVE TypeOK'
  <2>1. ws' \in [Task -> WorkTask]
    BY <1>6, EditKeepsType DEF IInv
  <2>2. edits' = edits + 1 /\ UNCHANGED <<pc, target, checkpoint, plan, leaf, live,
                                          result, crashes>>
    BY <1>6 DEF Edit
  <2>3. edits \in Nat
    BY DEF IInv, TypeOK
  <2>4. edits' \in Nat
    BY <2>2, <2>3
  <2> QED
    BY <2>1, <2>2, <2>4 DEF IInv, TypeOK, plan, leaf
<1> QED
  BY <1>1, <1>2, <1>3, <1>4, <1>5, <1>6, CheckpointKeepsTypes, LeafKeepsTypes DEF Next

-----------------------------------------------------------------------------
\* What the run knows about the store stays true.

\* A node that was just written and is not retired counts.
LEMMA UpsertedIsActive ==
  ASSUME TypeOK, NEW t \in Task, NEW n \in NodeId, NEW node \in Node,
         Upsert(t, n, node), ~ Retired(node)
  PROVE  n \in Active(nodes'[t])
<1> DEFINE new == [node EXCEPT !.work = nodes[t][n].work]
<1>1. new.status = node.status
  BY DEF Node
<1>2. nodes' = [nodes EXCEPT ![t][n] = new]
  BY DEF Upsert
<1> HIDE DEF new
<1>3. nodes'[t][n] = new
  BY <1>2 DEF TypeOK
<1> QED
  BY <1>1, <1>3 DEF Active, Retired

\* The steps of a checkpoint keep what the run knows about the store.
LEMMA CheckpointKeepsLocals ==
  ASSUME IInv, Checkpoint, TypeOK'
  PROVE  LocalsInv' /\ SessionDisposedOnReturn'
<1>1. None \notin live /\ None \notin live'
  BY IdsAreDistinct DEF IInv, TypeOK
<1> USE DEF Executing, Checking
<1>2. CASE ListTasks \/ ReadRejected \/ \E t \in Task : InterruptRejected(t)
  BY <1>1, <1>2 DEF IInv, LocalsInv, SessionDisposedOnReturn,
     ListTasks, ReadRejected, InterruptRejected, Reject, leaf
<1>3. CASE ReadDefinitions
  BY <1>1, <1>3 DEF IInv, LocalsInv, SessionDisposedOnReturn, ReadDefinitions,
     Continue, leaf
<1>4. ASSUME NEW t \in Task, Apply(t) PROVE LocalsInv' /\ SessionDisposedOnReturn'
  BY <1>1, <1>4 DEF IInv, LocalsInv, SessionDisposedOnReturn, Apply, Continue, leaf
<1>5. ASSUME NEW t \in Task, Interrupt(t) PROVE LocalsInv' /\ SessionDisposedOnReturn'
  <2> DEFINE n == ActiveNode(nodes[t])
  <2>1. /\ seenTasks[t] \in WorkTask /\ nodes \in [Task -> [NodeId -> Node]]
    BY DEF IInv, TypeOK
  <2>2. Active(nodes[t]) # {}
    BY <1>5, <2>1, ActionFacts DEF Interrupt
  <2>3. n \in Active(nodes[t]) /\ n \in NodeId
    BY <2>2, ActiveNodeIsActive, ActiveInNodeId
  <2>4. nodes' = [nodes EXCEPT ![t][n].work = TRUE]
    BY <1>5 DEF Interrupt
  <2>5. nodes[t][n] \in Node
    BY <2>1, <2>3
  <2>6. nodes'[t][n] = [nodes[t][n] EXCEPT !.work = TRUE]
    BY <2>1, <2>3, <2>4
  <2>7. nodes'[t][n].work /\ nodes'[t][n].status = nodes[t][n].status
    BY <2>5, <2>6 DEF Node
  <2>8. n \in Active(nodes'[t])
    BY <2>3, <2>7 DEF Active, Retired
  <2>9. OneActive(nodes'[t])
    <3>1. OneActiveNode'
      BY <1>5, InterruptStep, NodeStepKeepsStore
    <3> QED
      BY <3>1 DEF OneActiveNode, OneActive
  <2>10. ActiveNode(nodes'[t]) = n
    BY <2>8, <2>9, OnlyActiveNode
  <2>11. acting' = t /\ pc' = "supersede"
    BY <1>5 DEF Interrupt
  <2>12. ActiveNode(nodes[acting])' = n /\ (Active(nodes[acting]) # {})'
    BY <2>8, <2>10, <2>11
  <2>13. (pc = "supersede" => /\ Active(nodes[acting]) # {}
                              /\ nodes[acting][ActiveNode(nodes[acting])].work)'
    BY <2>7, <2>11, <2>12
  <2> HIDE DEF n
  <2> QED
    BY <1>5, <2>13 DEF IInv, LocalsInv, SessionDisposedOnReturn, Interrupt, leaf
<1>6. CASE Supersede
  <2> DEFINE n == ActiveNode(nodes[acting])
             new == [nodes[acting][n] EXCEPT !.status = "superseded",
                                             !.work = nodes[acting][n].work]
  <2>1. /\ acting \in Task /\ nodes \in [Task -> [NodeId -> Node]]
        /\ OneActive(nodes[acting])
    BY DEF IInv, TypeOK, OneActiveNode, OneActive
  <2>2. Active(nodes[acting]) # {}
    BY <1>6 DEF IInv, LocalsInv, Supersede
  <2>3. /\ Active(nodes[acting]) = {n} /\ n \in NodeId /\ nodes[acting] \in [NodeId -> Node]
        /\ nodes[acting][n] \in Node
    BY <2>1, <2>2, ActiveNodeIsActive, ActiveInNodeId, OnlyActiveNode
  <2>4. new \in Node /\ Retired(new)
    BY <2>3 DEF Node, NodeStatus, Retired
  <2>5. nodes' = [nodes EXCEPT ![acting][n] = new] /\ acting' = acting /\ pc' = "replace"
    BY <1>6 DEF Supersede, Upsert, plan
  <2> HIDE DEF n, new
  <2>6. nodes'[acting] = [nodes[acting] EXCEPT ![n] = new]
    BY <2>1, <2>5
  <2>7. Active([nodes[acting] EXCEPT ![n] = new]) = Active(nodes[acting]) \ {n}
    BY <2>3, <2>4, ActiveAfter
  <2>8. Active(nodes'[acting]) = {}
    BY <2>3, <2>6, <2>7
  <2>9. (pc = "replace" => Active(nodes[acting]) = {})'
    BY <2>5, <2>8
  <2> QED
    BY <1>6, <2>9 DEF IInv, LocalsInv, SessionDisposedOnReturn, Supersede, leaf
<1>7. CASE Replace
  BY <1>1, <1>7 DEF IInv, LocalsInv, SessionDisposedOnReturn, Replace, Continue, leaf
<1> QED
  BY <1>2, <1>3, <1>4, <1>5, <1>6, <1>7 DEF Checkpoint

\* The steps of a leaf's execution keep what the run knows about the store: the
\* node it executes counts until the run itself retires it.
LEMMA LeafKeepsLocals ==
  ASSUME IInv, Leaf, TypeOK'
  PROVE  LocalsInv' /\ SessionDisposedOnReturn'
<1> USE DEF Executing, Checking
<1>1. CASE \/ GetTask \/ GetTaskRejected \/ MarkActive \/ MarkStatusRejected
           \/ Fail \/ ReportBlocked
  BY <1>1 DEF IInv, LocalsInv, SessionDisposedOnReturn, GetTask, GetTaskRejected,
     MarkActive, MarkStatusRejected, Fail, ReportBlocked, Reject, Return, leaf, plan
<1>2. CASE EnsureNode
  <2>1. at' \in Active(nodes'[target])
    <3>1. CASE Active(nodes[target]) = {}
      <4> DEFINE new == [AbsentNode EXCEPT !.status = "pending",
                                           !.rev = task.rev, !.def = task.def]
      <4>1. TypeOK /\ target \in Task /\ task \in WorkTask /\ DefaultId \in NodeId
        BY DEF IInv, TypeOK, NodeId
      <4>2. task.rev \in Revision /\ task.def \in Definition
        BY <4>1 DEF WorkTask
      <4>3. new \in Node /\ ~ Retired(new)
        BY <4>2 DEF AbsentNode, Node, NodeStatus, Retired
      <4>4. Upsert(target, DefaultId, new) /\ at' = DefaultId
        BY <1>2, <3>1 DEF EnsureNode
      <4> HIDE DEF new
      <4> QED
        BY <4>1, <4>3, <4>4, UpsertedIsActive
    <3>2. CASE Active(nodes[target]) # {}
      BY <1>2, <3>2, ActiveNodeIsActive DEF EnsureNode
    <3> QED
      BY <3>1, <3>2
  <2>2. session \notin live
    BY <1>2 DEF EnsureNode, IInv, LocalsInv
  <2>3. /\ UNCHANGED <<session, live, target>>
        /\ result = result' \/ pc' = "idle"
        /\ pc' \in {"idle", "start"} /\ pc = "ensure"
    BY <1>2 DEF EnsureNode, Return
  <2> QED
    BY <2>1, <2>2, <2>3 DEF IInv, LocalsInv, SessionDisposedOnReturn
<1>3. CASE SpawnSession
  <2>1. session' # None
    BY <1>3, SpawnKeepsType, IdsAreDistinct DEF IInv
  <2>2. pc = "spawn" /\ pc' = "mark" /\ UNCHANGED <<nodes, target, at, result>>
    BY <1>3 DEF SpawnSession
  <2> QED
    BY <2>1, <2>2 DEF IInv, LocalsInv, SessionDisposedOnReturn
<1>4. CASE ResumeRejected
  <2> DEFINE old == nodes[target][at]
             new == [old EXCEPT !.resumable = FALSE]
  <2>1. /\ target \in Task /\ at \in NodeId /\ old \in Node
        /\ nodes \in [Task -> [NodeId -> Node]]
    BY DEF IInv, TypeOK
  <2>2. nodes'[target][at] = new
    BY <1>4, <2>1 DEF ResumeRejected
  <2>3. new.status = old.status
    BY <2>1 DEF Node
  <2>4. at \in Active(nodes[target])
    BY <1>4 DEF IInv, LocalsInv, ResumeRejected
  <2> HIDE DEF new
  <2>5. at \in Active(nodes'[target])
    BY <2>1, <2>2, <2>3, <2>4 DEF Active, Retired
  <2> QED
    BY <1>4, <2>5 DEF IInv, LocalsInv, SessionDisposedOnReturn, ResumeRejected, leaf
<1>5. CASE MarkRunning
  <2> DEFINE new == [nodes[target][at] EXCEPT
                       !.status = "running", !.retry = nodes[target][at].retry,
                       !.session = session, !.resumable = session # None]
  <2>1. TypeOK /\ target \in Task /\ at \in NodeId /\ nodes[target][at] \in Node
    BY DEF IInv, TypeOK
  <2>2. nodes[target][at].retry \in Nat /\ session \in Session \cup {None}
    BY <2>1, NodeFields DEF TypeOK
  <2>3. new \in Node /\ ~ Retired(new)
    BY <2>1, <2>2 DEF Node, NodeStatus, Retired
  <2>4. Upsert(target, at, new)
    BY <1>5 DEF MarkRunning, MarkNode
  <2> HIDE DEF new
  <2>5. at \in Active(nodes'[target])
    BY <2>1, <2>3, <2>4, UpsertedIsActive
  <2> QED
    BY <1>5, <2>5 DEF IInv, LocalsInv, SessionDisposedOnReturn, MarkRunning, leaf
<1>6. CASE MarkDone
  BY <1>6 DEF IInv, LocalsInv, SessionDisposedOnReturn, MarkDone, leaf
<1>7. CASE ReportDone \/ Park
  BY <1>7 DEF IInv, LocalsInv, SessionDisposedOnReturn, ReportDone, Park, Return, leaf
<1>8. CASE GiveUp
  BY <1>8 DEF IInv, LocalsInv, SessionDisposedOnReturn, GiveUp, leaf
<1>9. CASE Retry
  BY <1>9 DEF IInv, LocalsInv, SessionDisposedOnReturn, Retry, leaf
<1> QED
  BY <1>1, <1>2, <1>3, <1>4, <1>5, <1>6, <1>7, <1>8, <1>9 DEF Leaf

\* Every step keeps what the run knows about the store.
LEMMA LocalsKept ==
  ASSUME IInv, [Next]_vars, TypeOK'
  PROVE  LocalsInv' /\ SessionDisposedOnReturn'
<1> USE DEF Executing, Checking
<1>1. CASE UNCHANGED vars
  BY <1>1 DEF IInv, LocalsInv, SessionDisposedOnReturn, vars, plan, leaf
<1>2. CASE \E t \in Task : Run(t)
  BY <1>2 DEF IInv, LocalsInv, SessionDisposedOnReturn, Run
<1>3. CASE TurnEnds \/ Pause \/ WatchRejected \/ Restart
  BY <1>3 DEF IInv, LocalsInv, SessionDisposedOnReturn, TurnEnds, Pause, Return,
     WatchRejected, Restart, leaf
<1>4. CASE ParkAwaitingHuman
  <2> DEFINE new == [nodes[target][at] EXCEPT
                       !.status = "awaiting-human", !.rev = None, !.def = None]
  <2>1. TypeOK /\ target \in Task /\ at \in NodeId /\ nodes[target][at] \in Node
    BY DEF IInv, TypeOK
  <2>2. new \in Node /\ ~ Retired(new)
    BY <2>1 DEF Node, NodeStatus, Retired
  <2>3. Upsert(target, at, new)
    BY <1>4 DEF ParkAwaitingHuman
  <2> HIDE DEF new
  <2>4. at \in Active(nodes'[target])
    BY <2>1, <2>2, <2>3, UpsertedIsActive
  <2> QED
    BY <1>4, <2>4 DEF IInv, LocalsInv, SessionDisposedOnReturn, ParkAwaitingHuman, leaf
<1>5. CASE \E t \in Task : Edit(t)
  BY <1>5 DEF IInv, LocalsInv, SessionDisposedOnReturn, Edit, plan, leaf
<1> QED
  BY <1>1, <1>2, <1>3, <1>4, <1>5, CheckpointKeepsLocals, LeafKeepsLocals DEF Next

-----------------------------------------------------------------------------
\* A checkpoint that is over leaves nothing to do.

\* The task is as the checkpoint listed it, up to its definition.
Same(t) == ws[t].status = seenTasks[t].status /\ ws[t].rev = seenTasks[t].rev

Settled(t) == Same(t) => Action(ws[t], nodes[t]) = "none"

\* The points of a run after markStatus active, which gave the task a revision
\* that no checkpoint has seen.
Underway == {"spawn", "mark", "watch", "done", "park", "fail", "retry", "give up"}

\* While a checkpoint is applied all tasks but those of its plan are settled; the
\* run then works on the nodes of its own task only, of which the WorkSource has
\* another revision by the time a retry goes back to ensureNode. The first part
\* says that a task that was listed as missing is not back under its old revision.
FixpointInv ==
  /\ \A t \in Task :
       ws[t].rev = seenTasks[t].rev /\ seenTasks[t].status = "missing"
         => ws[t].status = "missing"
  /\ pc \in {"get", "ensure"} => \A t \in Task : Settled(t)
  /\ pc \in {"apply", "supersede", "replace"} => \A t \in Task \ todo : Settled(t)
  /\ pc \in {"supersede", "replace"} => acting \in todo
  /\ pc \in {"start"} \cup Underway => \A t \in Task \ {target} : Settled(t)
  /\ pc \in Underway => ws[target].rev # seenTasks[target].rev

\* The ways in which a task has nothing to be done about.
LEMMA NothingToDo ==
  ASSUME NEW t, NEW f,
         \/ Active(f) = {} /\ t.status \in {"missing", "done"}
         \/ \E n \in Active(f) :
              /\ Active(f) = {n}
              /\ \/ t.status \notin {"missing", "done"} /\ f[n].rev = t.rev
                 \/ t.status = "done" /\ f[n].status = "done"
  PROVE  Action(t, f) = "none"
<1>1. CASE Active(f) = {} /\ t.status \in {"missing", "done"}
  BY <1>1 DEF Action
<1>2. ASSUME NEW n \in Active(f), Active(f) = {n},
             \/ t.status \notin {"missing", "done"} /\ f[n].rev = t.rev
             \/ t.status = "done" /\ f[n].status = "done"
      PROVE  Action(t, f) = "none"
  <2>1. ActiveNode(f) = n
    BY <1>2, ActiveNodeIsActive
  <2> QED
    BY <1>2, <2>1 DEF Action, InFlight
<1> QED
  BY <1>1, <1>2

\* An upsert leaves the nodes of other tasks alone.
LEMMA UpsertElsewhere ==
  ASSUME TypeOK, NEW t \in Task, NEW n, NEW node, Upsert(t, n, node)
  PROVE  \A u \in Task \ {t} : nodes'[u] = nodes[u]
BY DEF Upsert, TypeOK

\* A write to the WorkSource gives one task a revision the checkpoint has not seen.
LEMMA WriteIsNew ==
  ASSUME TypeOK, NEW t \in Task, NEW status, NEW def, Write(t, status, def)
  PROVE  /\ ws'[t].rev # seenTasks[t].rev
         /\ \A u \in Task \ {t} : ws'[u] = ws[u]
<1> DEFINE rev == CHOOSE r \in Revision : r \notin UsedRevisions(t)
<1>1. rev \notin UsedRevisions(t)
  BY DEF Write
<1>2. rev # seenTasks[t].rev
  BY <1>1 DEF UsedRevisions
<1> HIDE DEF rev
<1>3. ws' = [ws EXCEPT ![t] = [status |-> status, def |-> def, rev |-> rev]]
  BY DEF Write, rev
<1> QED
  BY <1>2, <1>3 DEF TypeOK

\* What is not in the plan of a checkpoint is settled: the definition that
\* was read with the list is that of the WorkSource, or makes no difference.
LEMMA PlannedOrSettled ==
  ASSUME TypeOK, NEW t \in Task,
         ws[t].status = Definitions[t].status, ws[t].rev = Definitions[t].rev,
         Action(Definitions[t], nodes[t]) = "none"
  PROVE  Action(ws[t], nodes[t]) = "none"
<1>1. seenTasks[t] \in WorkTask /\ ws[t] \in WorkTask
  BY DEF TypeOK
<1>2. CASE NeedsDefinition(t)
  <2>1. Definitions[t] = [seenTasks[t] EXCEPT !.def = ws[t].def]
    BY <1>2 DEF Definitions
  <2>2. Definitions[t] = ws[t]
    BY <1>1, <2>1 DEF WorkTask
  <2> QED
    BY <2>2
<1>3. CASE ~ NeedsDefinition(t) /\ ws[t].status = "missing"
  BY <1>3 DEF Action
<1>4. CASE ~ NeedsDefinition(t) /\ ws[t].status # "missing"
  <2> DEFINE node == nodes[t][ActiveNode(nodes[t])]
  <2>1. seenTasks[t].status # "missing"
    BY <1>1, <1>4 DEF Definitions, WorkTask
  <2>2. Active(nodes[t]) # {} /\ node.rev = seenTasks[t].rev
    BY <1>4, <2>1 DEF NeedsDefinition
  <2>3. Definitions[t].rev = seenTasks[t].rev
    BY <1>1, <1>4, <2>1 DEF Definitions, WorkTask
  <2> QED
    BY <2>2, <2>3 DEF Action
<1> QED
  BY <1>2, <1>3, <1>4

\* The list that was read keeps status and revision when definitions are added.
LEMMA DefinitionsKeepTheList ==
  ASSUME TypeOK, NEW t \in Task
  PROVE  Definitions[t].status = seenTasks[t].status /\ Definitions[t].rev = seenTasks[t].rev
<1>1. seenTasks[t] \in WorkTask
  BY DEF TypeOK
<1> QED
  BY <1>1 DEF Definitions, WorkTask

\* What a task has after an upsert: the node is there, but for its work product.
Wrote(t, n, node) ==
  /\ nodes'[t][n].status = node.status /\ nodes'[t][n].rev = node.rev
  /\ Active(nodes'[t]) = IF Retired(node) THEN Active(nodes[t]) \ {n}
                         ELSE Active(nodes[t]) \cup {n}

\* An upsert makes one node what was asked for.
LEMMA UpsertWrites ==
  ASSUME TypeOK, NEW t \in Task, NEW n \in NodeId, NEW node \in Node, Upsert(t, n, node)
  PROVE  Wrote(t, n, node)
<1> DEFINE new == [node EXCEPT !.work = nodes[t][n].work]
<1>1. nodes[t] \in [NodeId -> Node] /\ nodes[t][n].work \in BOOLEAN
  BY NodeFields DEF TypeOK
<1>2. /\ new \in Node /\ new.status = node.status /\ new.rev = node.rev
      /\ (Retired(new) <=> Retired(node))
  BY <1>1 DEF Node, Retired
<1> HIDE DEF new
<1>3. nodes'[t] = [nodes[t] EXCEPT ![n] = new]
  BY DEF Upsert, TypeOK, new
<1>4. Active([nodes[t] EXCEPT ![n] = new])
        = IF Retired(new) THEN Active(nodes[t]) \ {n} ELSE Active(nodes[t]) \cup {n}
  BY <1>1, <1>2, ActiveAfter
<1>5. nodes'[t][n] = new
  BY <1>1, <1>3
<1> QED
  BY <1>2, <1>3, <1>4, <1>5 DEF Wrote

\* A plan is complete: what it leaves out is settled.
LEMMA ReadPlansAll ==
  ASSUME IInv, FixpointInv, ReadDefinitions PROVE FixpointInv'
<1>1. /\ ws' = ws /\ nodes' = nodes /\ seenTasks' = Definitions /\ TypeOK
      /\ todo' = {t \in Task : Action(Definitions[t], nodes[t]) # "none"}
      /\ pc' \in {"get", "ensure", "apply"} /\ (pc' # "apply" => todo' = {})
  BY DEF ReadDefinitions, Continue, IInv
<1>2. \A t \in Task \ todo' : Settled(t)'
  <2> SUFFICES ASSUME NEW t \in Task, t \notin todo',
                      ws[t].status = Definitions[t].status, ws[t].rev = Definitions[t].rev
               PROVE  Action(ws[t], nodes[t]) = "none"
    BY <1>1 DEF Settled, Same
  <2> QED
    BY <1>1, PlannedOrSettled
<1>3. \A t \in Task : ws'[t].rev = seenTasks'[t].rev /\ seenTasks'[t].status = "missing"
                        => ws'[t].status = "missing"
  BY <1>1, DefinitionsKeepTheList DEF FixpointInv
<1> QED
  BY <1>1, <1>2, <1>3 DEF FixpointInv, Underway

\* An action of the plan settles its task, unless the WorkSource has moved on.
LEMMA ApplySettles ==
  ASSUME IInv, FixpointInv, NEW t \in Task, Apply(t) PROVE FixpointInv'
<1> DEFINE n == ActiveNode(nodes[t])
           old == nodes[t][n]
           observed == [old EXCEPT !.rev = seenTasks[t].rev, !.def = seenTasks[t].def]
           type == Action(seenTasks[t], nodes[t])
<1>1. /\ ws' = ws /\ seenTasks' = seenTasks /\ TypeOK /\ t \in todo
      /\ todo' = todo \ {t} /\ pc = "apply"
      /\ pc' \in {"get", "ensure", "apply"} /\ (pc' # "apply" => todo' = {})
  BY DEF Apply, Due, Continue, IInv
<1>2. /\ seenTasks[t] \in WorkTask /\ ws[t] \in WorkTask /\ nodes[t] \in [NodeId -> Node]
      /\ OneActive(nodes[t])
  BY DEF IInv, TypeOK, OneActiveNode, OneActive
<1>3. seenTasks[t].rev \in Revision /\ seenTasks[t].def \in Definition
  BY <1>2 DEF WorkTask
<1>4. \A u \in Task \ {t} : nodes'[u] = nodes[u]
  BY <1>1, UpsertElsewhere DEF Apply
<1>5. ASSUME Same(t) PROVE Action(ws[t], nodes'[t]) = "none"
  <2>1. CASE type = "schedule-node"
    <3> DEFINE new == [AbsentNode EXCEPT !.status = "pending",
                         !.rev = seenTasks[t].rev, !.def = seenTasks[t].def]
    <3>1. /\ Active(nodes[t]) = {} /\ seenTasks[t].status \notin {"missing", "done"}
      BY <2>1 DEF Action
    <3>2. Upsert(t, DefaultId, new)
      BY <2>1 DEF Apply
    <3>3. new \in Node /\ ~ Retired(new) /\ new.rev = seenTasks[t].rev
      BY <1>3 DEF AbsentNode, Node, NodeStatus, Retired
    <3>4. nodes[t][DefaultId].work \in BOOLEAN /\ DefaultId \in NodeId
      BY <1>2, NodeFields DEF NodeId
    <3> HIDE DEF new
    <3>5. Wrote(t, DefaultId, new)
      BY <1>1, <3>2, <3>3, <3>4, UpsertWrites
    <3> QED
      BY <1>5, <3>1, <3>3, <3>5, NothingToDo DEF Wrote, Same
  <2>2. CASE type # "schedule-node"
    <3>1. Active(nodes[t]) # {}
      BY <1>2, <2>2, ActionFacts DEF Apply
    <3>2. n \in NodeId /\ Active(nodes[t]) = {n} /\ old \in Node
      BY <1>2, <3>1, ActiveNodeIsActive, ActiveInNodeId, OnlyActiveNode
    <3>3. CASE type = "cancel-node"
      <4> DEFINE new == [old EXCEPT !.status = "cancelled"]
      <4>1. Upsert(t, n, new) /\ seenTasks[t].status = "missing"
        BY <3>3, <3>1 DEF Apply, Action
      <4>2. new \in Node /\ Retired(new)
        BY <3>2 DEF Node, NodeStatus, Retired
      <4> HIDE DEF new, n
      <4>3. Wrote(t, n, new)
        BY <1>1, <3>2, <4>1, <4>2, UpsertWrites
      <4> QED
        BY <1>5, <3>2, <4>1, <4>2, <4>3, NothingToDo DEF Wrote, Same
    <3>4. CASE type = "drop-from-queue"
      <4> DEFINE new == [observed EXCEPT !.status = "done"]
      <4>1. Upsert(t, n, new) /\ seenTasks[t].status = "done"
        BY <3>4, <3>1 DEF Apply, Action
      <4>2. new \in Node /\ ~ Retired(new) /\ new.status = "done"
        BY <1>3, <3>2 DEF Node, NodeStatus, Retired
      <4> HIDE DEF new, n
      <4>3. Wrote(t, n, new)
        BY <1>1, <3>2, <4>1, <4>2, UpsertWrites
      <4> QED
        BY <1>5, <3>2, <4>1, <4>2, <4>3, NothingToDo DEF Wrote, Same
    <3>5. CASE type = "mark-stale"
      <4> DEFINE new == [observed EXCEPT !.status = "pending", !.retry = 0]
      <4>1. Upsert(t, n, new) /\ seenTasks[t].status \notin {"missing", "done"}
        BY <3>5, <3>1 DEF Apply, Action
      <4>2. new \in Node /\ ~ Retired(new) /\ new.rev = seenTasks[t].rev
        BY <1>3, <3>2 DEF Node, NodeStatus, Retired
      <4> HIDE DEF new, n
      <4>3. Wrote(t, n, new)
        BY <1>1, <3>2, <4>1, <4>2, UpsertWrites
      <4> QED
        BY <1>5, <3>2, <4>1, <4>2, <4>3, NothingToDo DEF Wrote, Same
    <3>6. CASE type = "refresh-observed-revision"
      <4>1. Upsert(t, n, observed) /\ seenTasks[t].status \notin {"missing", "done"}
        BY <3>6, <3>1 DEF Apply, Action
      <4>2. observed \in Node /\ observed.status = old.status
            /\ observed.rev = seenTasks[t].rev
        BY <1>3, <3>2 DEF Node
      <4>3. ~ Retired(observed)
        BY <3>2, <4>2, ActiveInNodeId DEF Retired
      <4> HIDE DEF observed, n
      <4>4. Wrote(t, n, observed)
        BY <1>1, <3>2, <4>1, <4>2, UpsertWrites
      <4> QED
        BY <1>5, <3>2, <4>1, <4>2, <4>3, <4>4, NothingToDo DEF Wrote, Same
    <3> QED
      BY <2>2, <3>3, <3>4, <3>5, <3>6 DEF Apply
  <2> QED
    BY <2>1, <2>2
<1>6. Settled(t)' /\ \A u \in Task \ todo' : Settled(u)'
  BY <1>1, <1>4, <1>5 DEF Settled, Same, FixpointInv
<1> QED
  BY <1>1, <1>6 DEF FixpointInv, Underway

\* Interrupting and superseding are steps of a task that is still in the plan;
\* its replacement settles it.
LEMMA SupersedingSettles ==
  ASSUME IInv, FixpointInv,
         (\E t \in Task : Interrupt(t)) \/ Supersede \/ Replace
  PROVE  FixpointInv'
<1>0. TypeOK /\ acting \in Task
  BY DEF IInv, TypeOK
<1>1. ASSUME NEW t \in Task, Interrupt(t) PROVE FixpointInv'
  <2>1. /\ ws' = ws /\ seenTasks' = seenTasks /\ todo' = todo /\ t \in todo
        /\ acting' = t /\ pc = "apply" /\ pc' = "supersede"
    BY <1>1 DEF Interrupt, Due
  <2>2. \A u \in Task \ {t} : nodes'[u] = nodes[u]
    BY <1>0, <1>1 DEF Interrupt, TypeOK
  <2> QED
    BY <2>1, <2>2 DEF FixpointInv, Settled, Same, Underway
<1>2. CASE Supersede
  <2>1. /\ ws' = ws /\ seenTasks' = seenTasks /\ todo' = todo
        /\ acting' = acting /\ pc = "supersede" /\ pc' = "replace"
    BY <1>2 DEF Supersede, plan
  <2>2. \A u \in Task \ {acting} : nodes'[u] = nodes[u]
    BY <1>0, <1>2, UpsertElsewhere DEF Supersede
  <2> QED
    BY <2>1, <2>2 DEF FixpointInv, Settled, Same, Underway
<1>3. CASE Replace
  <2> DEFINE seen == seenTasks[acting]
             new == [AbsentNode EXCEPT !.status = "pending", !.rev = seen.rev, !.def = seen.def]
  <2>1. /\ ws' = ws /\ seenTasks' = seenTasks /\ todo' = todo \ {acting} /\ pc = "replace"
        /\ pc' \in {"get", "ensure", "apply"} /\ (pc' # "apply" => todo' = {})
    BY <1>3 DEF Replace, Continue
  <2>2. Active(nodes[acting]) = {}
    BY <1>3 DEF IInv, LocalsInv, Replace
  <2>3. seen \in WorkTask /\ ws[acting] \in WorkTask
    BY <1>0 DEF TypeOK
  <2>4. \A u \in Task \ {acting} : nodes'[u] = nodes[u]
    BY <1>0, <1>3, UpsertElsewhere DEF Replace
  <2>5. ASSUME Same(acting) PROVE Action(ws[acting], nodes'[acting]) = "none"
    <3>1. CASE NeedsReplacement(seen)
      <4>1. seen.rev \in Revision /\ seen.def \in Definition
        BY <2>3 DEF WorkTask
      <4>2. new \in Node /\ ~ Retired(new) /\ new.rev = seen.rev
        BY <4>1 DEF AbsentNode, Node, NodeStatus, Retired
      <4>3. seen.rev \in NodeId /\ Upsert(acting, seen.rev, new)
        BY <1>3, <3>1, <4>1 DEF Replace, ReplacementId, NodeId
      <4> HIDE DEF new
      <4>4. Wrote(acting, seen.rev, new)
        BY <1>0, <4>2, <4>3, UpsertWrites
      <4> QED
        BY <2>2, <2>5, <3>1, <4>2, <4>4, NothingToDo DEF Wrote, Same, NeedsReplacement
    <3>2. CASE ~ NeedsReplacement(seen)
      <4>1. nodes' = nodes
        BY <1>3, <3>2 DEF Replace
      <4> QED
        BY <2>2, <2>5, <3>2, <4>1, NothingToDo DEF Same, NeedsReplacement
    <3> QED
      BY <3>1, <3>2
  <2>6. \A u \in Task \ todo' : Settled(u)'
    BY <1>0, <2>1, <2>4, <2>5 DEF Settled, Same, FixpointInv
  <2> QED
    BY <2>1, <2>6 DEF FixpointInv, Underway
<1> QED
  BY <1>1, <1>2, <1>3

\* The leaf's steps touch the nodes of the run's own task only.
OwnNodesOnly == \A u \in Task \ {target} : nodes'[u] = nodes[u]

\* Whatever is recorded of a worker is recorded of the node that the run executes.
LEMMA LeafNodes ==
  ASSUME TypeOK, \/ EnsureNode \/ ResumeRejected \/ MarkRunning \/ MarkDone \/ Park
                 \/ Retry \/ GiveUp \/ ParkAwaitingHuman
  PROVE  OwnNodesOnly
<1>1. target \in Task
  BY DEF TypeOK
<1>2. CASE EnsureNode
  BY <1>1, <1>2, UpsertElsewhere DEF EnsureNode, OwnNodesOnly
<1>3. CASE ResumeRejected
  BY <1>1, <1>3 DEF ResumeRejected, OwnNodesOnly, TypeOK
<1>4. CASE \/ MarkRunning \/ MarkDone \/ Park \/ Retry \/ GiveUp \/ ParkAwaitingHuman
  BY <1>1, <1>4, UpsertElsewhere
  DEF MarkRunning, MarkDone, Park, Retry, GiveUp, ParkAwaitingHuman, MarkNode, OwnNodesOnly
<1> QED
  BY <1>2, <1>3, <1>4

\* A worker's life leaves the other tasks settled, and its own task has a revision
\* of the run's own making from markStatus on.
LEMMA LeafKeepsSettled ==
  ASSUME IInv, FixpointInv,
         Leaf \/ TurnEnds \/ ParkAwaitingHuman \/ Pause \/ WatchRejected
  PROVE  FixpointInv'
<1>0. TypeOK /\ target \in Task
  BY DEF IInv, TypeOK
<1> USE DEF Underway
<1>1. CASE GetTask \/ GetTaskRejected \/ MarkStatusRejected \/ Pause \/ WatchRejected
  BY <1>1 DEF GetTask, GetTaskRejected, MarkStatusRejected, Pause, WatchRejected, Reject, Return,
     plan, FixpointInv
<1>2. CASE SpawnSession \/ TurnEnds \/ Fail
  BY <1>2 DEF SpawnSession, TurnEnds, Fail, plan, FixpointInv, Settled, Same
<1>3. CASE EnsureNode
  <2>1. /\ OwnNodesOnly /\ pc = "ensure" /\ pc' \in {"idle", "start"}
        /\ UNCHANGED <<ws, target, seenTasks, todo, acting>>
    BY <1>0, <1>3, LeafNodes DEF EnsureNode, Return, plan
  <2> QED
    BY <2>1 DEF FixpointInv, Settled, Same, OwnNodesOnly
<1>4. CASE MarkActive
  <2>1. /\ ws'[target].rev # seenTasks[target].rev
        /\ \A u \in Task \ {target} : ws'[u] = ws[u]
    BY <1>0, <1>4, WriteIsNew DEF MarkActive
  <2>2. /\ pc = "start" /\ pc' = "spawn"
        /\ UNCHANGED <<nodes, target, seenTasks, todo, acting>>
    BY <1>4 DEF MarkActive, plan
  <2> QED
    BY <1>0, <2>1, <2>2 DEF FixpointInv, Settled, Same
<1>5. CASE ResumeRejected \/ MarkRunning \/ ParkAwaitingHuman
  <2>1. /\ OwnNodesOnly /\ pc \in {"spawn", "mark", "watch"} /\ pc' \in {"spawn", "watch"}
        /\ UNCHANGED <<ws, target, seenTasks, todo, acting>>
    BY <1>0, <1>5, LeafNodes DEF ResumeRejected, MarkRunning, ParkAwaitingHuman, plan
  <2> QED
    BY <2>1 DEF FixpointInv, Settled, Same, OwnNodesOnly
<1>6. CASE Retry
  <2>1. /\ OwnNodesOnly /\ pc = "retry" /\ pc' = "ensure"
        /\ UNCHANGED <<ws, target, seenTasks, todo, acting>>
    BY <1>0, <1>6, LeafNodes DEF Retry, plan
  <2> QED
    BY <2>1 DEF FixpointInv, Settled, Same, OwnNodesOnly
<1>7. CASE MarkDone \/ Park \/ GiveUp
  BY <1>7 DEF MarkDone, Park, GiveUp, Return, plan, FixpointInv
<1>8. CASE ReportDone \/ ReportBlocked
  <2>1. /\ ws'[target].rev # seenTasks[target].rev
        /\ \A u \in Task \ {target} : ws'[u] = ws[u]
    BY <1>0, <1>8, WriteIsNew DEF ReportDone, ReportBlocked
  <2>2. pc' = "idle" /\ seenTasks' = seenTasks
    BY <1>8 DEF ReportDone, ReportBlocked, Return, plan
  <2> QED
    BY <1>0, <2>1, <2>2 DEF FixpointInv
<1> QED
  BY <1>1, <1>2, <1>3, <1>4, <1>5, <1>6, <1>7, <1>8 DEF Leaf

\* A task that a human edits is not as it was listed, whatever is done to it.
LEMMA EditUnsettlesOne ==
  ASSUME IInv, FixpointInv, NEW t \in Task, Edit(t) PROVE FixpointInv'
<1>1. /\ UNCHANGED <<nodes, pc, target, seenTasks, todo, acting>> /\ TypeOK
  BY DEF Edit, plan, IInv
<1>2. /\ \A u \in Task \ {t} : ws'[u] = ws[u]
      /\ \/ ws'[t].rev # seenTasks[t].rev
         \/ Present(t) /\ ws'[t].status = "missing" /\ ws'[t].rev = ws[t].rev
  <2>1. CASE \E status, def : Write(t, status, def)
    BY <1>1, <2>1, WriteIsNew
  <2>2. CASE Present(t) /\ ws' = [ws EXCEPT ![t].status = "missing"]
    <3>1. ws[t] \in WorkTask /\ t \in DOMAIN ws
      BY <1>1 DEF TypeOK
    <3>2. ws'[t] = [ws[t] EXCEPT !.status = "missing"]
      BY <2>2, <3>1
    <3> QED
      BY <2>2, <3>1, <3>2 DEF WorkTask
  <2> QED
    BY <2>1, <2>2 DEF Edit
<1>3. ~ Same(t)'
  BY <1>1, <1>2 DEF Same, FixpointInv, Present
<1>4. ASSUME NEW u \in Task, Settled(u) PROVE Settled(u)'
  <2>1. CASE u = t
    BY <1>3, <2>1 DEF Settled
  <2>2. CASE u # t
    BY <1>1, <1>2, <1>4, <2>2 DEF Settled, Same
  <2> QED
    BY <2>1, <2>2
<1>5. \A u \in Task : ws'[u].rev = seenTasks'[u].rev /\ seenTasks'[u].status = "missing"
                        => ws'[u].status = "missing"
  BY <1>1, <1>2 DEF FixpointInv
<1>6. pc' \in Underway => ws'[target'].rev # seenTasks'[target'].rev
  BY <1>1, <1>2 DEF FixpointInv, TypeOK
<1> QED
  BY <1>1, <1>4, <1>5, <1>6 DEF FixpointInv

\* Before the first run nothing has been listed but what is there.
LEMMA FixpointInitially == Init => FixpointInv
BY DEF Init, FixpointInv, Underway

\* With the invariant of the store, FixpointInv is inductive.
LEMMA FixpointKept == IInv /\ FixpointInv /\ [Next]_vars => FixpointInv'
<1> SUFFICES ASSUME IInv, FixpointInv, [Next]_vars PROVE FixpointInv'
  OBVIOUS
<1>1. CASE UNCHANGED vars
  BY <1>1 DEF vars, plan, FixpointInv, Settled, Same
<1>2. CASE \E t \in Task : Run(t)
  BY <1>2 DEF Run, FixpointInv, Underway
<1>3. CASE Restart
  BY <1>3 DEF Restart, FixpointInv, Underway
<1>4. CASE ListTasks
  BY <1>4 DEF ListTasks, FixpointInv, Underway
<1>5. CASE ReadRejected \/ \E t \in Task : InterruptRejected(t)
  BY <1>5 DEF ReadRejected, InterruptRejected, Reject, FixpointInv, Underway
<1> QED
  BY <1>1, <1>2, <1>3, <1>4, <1>5, ReadPlansAll, ApplySettles, SupersedingSettles,
     LeafKeepsSettled, EditUnsettlesOne DEF Next, Checkpoint
-----------------------------------------------------------------------------
\* The theorems.

\* The empty store and the plan as it was read satisfy the invariant.
LEMMA Initially == Init => IInv
<1> SUFFICES ASSUME Init PROVE IInv
  OBVIOUS
<1>1. FirstRevision \in Revision /\ FirstDefinition \in Definition
  BY LeafRunAssumption DEF FirstRevision, FirstDefinition
<1>2. /\ AbsentNode \in Node /\ Retired(AbsentNode)
      /\ AbsentNode.status = "absent"
  BY DEF AbsentNode, Node, Retired
<1>3. TypeOK
  BY <1>1, <1>2 DEF Init, TypeOK, WorkTask, WorkStatus, NodeId
<1>4. \A t \in Task, n \in NodeId : nodes[t][n] = AbsentNode
  BY DEF Init
<1>5. OneActiveNode /\ RunningHasSession /\ SupersededKeepsWorkProduct
  BY <1>2, <1>4 DEF OneActiveNode, Active, RunningHasSession, SupersededKeepsWorkProduct
<1>6. LocalsInv /\ SessionDisposedOnReturn
  BY DEF Init, LocalsInv, SessionDisposedOnReturn, Executing, Checking
<1> QED
  BY <1>3, <1>5, <1>6 DEF IInv

\* The invariant is inductive: store, types and locals together, none of which is
\* so by itself.
LEMMA Inductive == IInv /\ [Next]_vars => IInv'
<1> SUFFICES ASSUME IInv, [Next]_vars PROVE IInv'
  OBVIOUS
<1>1. /\ nodes' \in [Task -> [NodeId -> Node]]
      /\ OneActiveNode' /\ RunningHasSession' /\ SupersededKeepsWorkProduct'
  BY EveryStepIsANodeStep, NodeStepKeepsStore
<1>2. TypeOK'
  BY <1>1, TypesKept
<1>3. LocalsInv' /\ SessionDisposedOnReturn'
  BY <1>2, LocalsKept
<1> QED
  BY <1>1, <1>2, <1>3 DEF IInv

\* The inductive invariant holds of every behaviour: whatever is edited, rejected
\* or killed, the store stays consistent and the run's view of it true.
THEOREM Invariance == Spec => []IInv
BY Initially, Inductive, PTL DEF Spec

\* The durable state and the locals of the run keep their types.
THEOREM TypeCorrect == Spec => []TypeOK
<1>1. IInv => TypeOK
  BY DEF IInv
<1> QED
  BY <1>1, Invariance, PTL

\* Whatever humans edit and wherever runs are killed, a task never has two
\* nodes that count.
THEOREM OneActiveNodePerTask == Spec => []OneActiveNode
<1>1. IInv => OneActiveNode
  BY DEF IInv
<1> QED
  BY <1>1, Invariance, PTL

\* A node recorded as running names the session to resume or to interrupt.
THEOREM RunningNodesHaveSessions == Spec => []RunningHasSession
<1>1. IInv => RunningHasSession
  BY DEF IInv
<1> QED
  BY <1>1, Invariance, PTL

\* No node is superseded before its worker's product is on record.
THEOREM WorkProductIsKept == Spec => []SupersededKeepsWorkProduct
<1>1. IInv => SupersededKeepsWorkProduct
  BY DEF IInv
<1> QED
  BY <1>1, Invariance, PTL

\* A run that returns done, failed or needs-decision leaves no worker behind.
THEOREM ReturnedRunsLeaveNoWorker == Spec => []SessionDisposedOnReturn
<1>1. IInv => SessionDisposedOnReturn
  BY DEF IInv
<1> QED
  BY <1>1, Invariance, PTL

\* Failed attempts are forgotten only with the definition they were made for.
THEOREM RetriesAreKept == Spec => RetriesForgottenOnlyOnChange
<1> DEFINE A == \A t \in Task, n \in NodeId :
                  nodes'[t][n].retry < nodes[t][n].retry =>
                    \/ Retired(nodes[t][n])
                    \/ /\ nodes'[t][n].status = "pending"
                       /\ nodes'[t][n].def # nodes[t][n].def
<1>1. IInv /\ [Next]_vars => [A]_vars
  <2> SUFFICES ASSUME IInv, [Next]_vars PROVE A
    OBVIOUS
  <2>1. nodes \in [Task -> [NodeId -> Node]]
    BY DEF IInv, TypeOK
  <2> SUFFICES ASSUME NEW t \in Task, NEW n \in NodeId,
                      nodes'[t][n].retry < nodes[t][n].retry
               PROVE  \/ Retired(nodes[t][n])
                      \/ /\ nodes'[t][n].status = "pending"
                         /\ nodes'[t][n].def # nodes[t][n].def
    OBVIOUS
  <2>2. nodes[t][n].retry \in Nat
    BY <2>1, NodeFields
  <2>3. nodes'[t][n] # nodes[t][n]
    BY <2>2
  <2>4. PICK u \in Task, m \in NodeId, node \in Node :
               /\ nodes' = [nodes EXCEPT ![u][m] = node]
               /\ Allowed(u, m, node)
    BY <2>3, EveryStepIsANodeStep DEF NodeStep
  <2>5. u = t /\ m = n /\ nodes'[t][n] = node
    BY <2>1, <2>3, <2>4
  <2> QED
    BY <2>4, <2>5 DEF Allowed
<1> QED
  BY <1>1, Invariance, PTL DEF Spec, RetriesForgottenOnlyOnChange

\* A checkpoint that is over would find nothing to do, had it to be made again:
\* every task that is still as it was listed has the node it should have,
\* whatever was edited, superseded and replaced meanwhile (reconcileAtCheckpoint).
THEOREM CheckpointsSettle == Spec => []CheckpointReachesFixpoint
<1>1. FixpointInv => CheckpointReachesFixpoint
  BY DEF FixpointInv, CheckpointReachesFixpoint, Settled, Same
<1>2. Spec => []FixpointInv
  BY Invariance, FixpointInitially, FixpointKept, PTL DEF Spec
<1> QED
  BY <1>1, <1>2, PTL
=============================================================================
