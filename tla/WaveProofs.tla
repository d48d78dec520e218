------------------------------ MODULE WaveProofs ------------------------------
(***************************************************************************)
(* That a wave loses no child and never has a worker too many: for any       *)
(* children, any limits, and whatever workers, people and kills do. And that *)
(* what the store, the WorkSource and the workers say of a child agrees, as  *)
(* long as nobody edits the plan under the run.                              *)
(***************************************************************************)
EXTENDS Wave, TLAPS, FiniteSetTheorems, WellFoundedInduction

-----------------------------------------------------------------------------
\* The least child of a set is one of it.
LEMMA LeastIsThere ==
  ASSUME NEW S, S \subseteq Child, S # {}
  PROVE  First(S) \in S
<1>1. S \subseteq Nat
  BY WaveAssumption
<1>2. PICK x \in S : \A y \in S : <<y, x>> \notin OpToRel(<, Nat)
  BY <1>1, NatLessThanWellFounded, WFMin
<1>3. \A y \in S : ~ (y < x)
  BY <1>1, <1>2 DEF OpToRel
<1>4. \E c \in S : \A d \in S : c <= d
  BY <1>1, <1>3
<1> QED
  BY <1>4 DEF First

-----------------------------------------------------------------------------
\* What the argument needs to know of nodes: that they have a status.

Fcn(f, S) == f = [x \in S |-> f[x]]
HasStatus(node) == "status" \in DOMAIN node
RowOK(row) == Fcn(row, NodeId) /\ \A n \in NodeId : HasStatus(row[n])
StoreOK(store) == Fcn(store, Task) /\ \A t \in Task : RowOK(store[t])

ShapeInv ==
  /\ StoreOK(nodes)
  /\ HasStatus(parentNode.node) /\ parentNode.at \in NodeId /\ HasStatus(mine)
  /\ Fcn(active, Child)
  /\ \A c \in Child : HasStatus(active[c].node) /\ active[c].at \in NodeId
  /\ at \in NodeId /\ doing \in Task /\ target \in Task
  /\ completed \in Seq([task : Child, at : NodeId])
  /\ then \in {"descend", "ensure", "settle", "return"}

LEMMA RowPut ==
  ASSUME NEW row, RowOK(row), NEW n \in NodeId, NEW node, HasStatus(node)
  PROVE  RowOK([row EXCEPT ![n] = node]) /\ [row EXCEPT ![n] = node][n] = node
BY DEF RowOK, Fcn

LEMMA StorePut ==
  ASSUME NEW store, StoreOK(store), NEW t \in Task, NEW row, RowOK(row)
  PROVE  StoreOK([store EXCEPT ![t] = row]) /\ [store EXCEPT ![t] = row][t] = row
BY DEF StoreOK, Fcn

LEMMA UpsertedRow ==
  ASSUME StoreOK(nodes), NEW t \in Task, NEW n \in NodeId, NEW node, HasStatus(node)
  PROVE  RowOK(Upserted(t, n, node)) /\ Upserted(t, n, node)[n].status = node.status
<1> DEFINE kept == [node EXCEPT !.work = nodes[t][n].work]
<1>1. HasStatus(kept) /\ kept.status = node.status
  BY DEF HasStatus
<1>2. RowOK(nodes[t])
  BY DEF StoreOK
<1>3. Upserted(t, n, node) = [nodes[t] EXCEPT ![n] = kept]
  BY DEF Upserted
<1> HIDE DEF kept
<1> QED
  BY <1>1, <1>2, <1>3, RowPut

LEMMA MarkedRow ==
  ASSUME StoreOK(nodes), NEW t \in Task, NEW n \in NodeId, NEW captured, HasStatus(captured),
         NEW status, NEW retry, NEW session
  PROVE  RowOK(Marked(t, n, captured, status, retry, session))
<1> DEFINE node == [captured EXCEPT !.status = status, !.retry = retry,
                      !.session = session, !.resumable = session # None]
<1>1. HasStatus(node)
  BY DEF HasStatus
<1>2. Marked(t, n, captured, status, retry, session) = Upserted(t, n, node)
  BY DEF Marked
<1> HIDE DEF node
<1> QED
  BY <1>1, <1>2, UpsertedRow

LEMMA MarkNodeOK ==
  ASSUME StoreOK(nodes), NEW t \in Task, NEW n \in NodeId, NEW captured, HasStatus(captured),
         NEW status, NEW retry, NEW session, MarkNode(t, n, captured, status, retry, session)
  PROVE  StoreOK(nodes')
<1>1. nodes' = [nodes EXCEPT ![t] = Marked(t, n, captured, status, retry, session)]
  BY DEF MarkNode
<1> QED
  BY <1>1, MarkedRow, StorePut

LEMMA PendingShape ==
  ASSUME NEW t PROVE HasStatus(Pending(t)) /\ Pending(t).status = "pending"
BY DEF Pending, AbsentNode, HasStatus

\* Once ensured, a task has a node that counts.
LEMMA EnsuredCounts ==
  ASSUME StoreOK(nodes), NEW t \in Task
  PROVE  /\ RowOK(Ensured(t)) /\ ActiveNode(Ensured(t)) \in NodeId
         /\ ~ Retired(Ensured(t)[ActiveNode(Ensured(t))])
<1> DEFINE kept == Ensured(t)
<1>1. DefaultId \in NodeId
  BY DEF NodeId
<1>2. RowOK(kept) /\ Active(kept) # {}
  <2>1. CASE Active(nodes[t]) = {}
    <3>1. kept = Upserted(t, DefaultId, Pending(t))
      BY <2>1 DEF Ensured
    <3>2. RowOK(kept) /\ kept[DefaultId].status = "pending"
      BY <1>1, <3>1, PendingShape, UpsertedRow
    <3> QED
      BY <1>1, <3>2 DEF Active, Retired
  <2>2. CASE Active(nodes[t]) # {}
    BY <2>2 DEF Ensured, StoreOK
  <2> QED
    BY <2>1, <2>2
<1> HIDE DEF kept
<1>3. ActiveNode(kept) \in Active(kept)
  BY <1>2 DEF ActiveNode, Active
<1> QED
  BY <1>2, <1>3 DEF Active, kept

\* A worker that is started is one whose node runs.
LEMMA StartedRuns ==
  ASSUME StoreOK(nodes), NEW t \in Task, StartWorker(t)
  PROVE  /\ StoreOK(nodes') /\ StartedAt(t) \in NodeId
         /\ HasStatus(StartedWorker(t).node) /\ StartedWorker(t).at = StartedAt(t)
         /\ StartedWorker(t).node.status # "absent"
<1> DEFINE kept == Ensured(t)
           n == ActiveNode(kept)
           session == IF kept[n].session # None THEN kept[n].session ELSE FreshSession
           running == [kept[n] EXCEPT !.status = "running", !.session = session,
                                      !.resumable = TRUE]
           row == [kept EXCEPT ![n] = running]
<1>1. RowOK(kept) /\ n \in NodeId
  BY EnsuredCounts
<1>2. HasStatus(running) /\ running.status = "running"
  BY <1>1 DEF RowOK, HasStatus
<1>3. nodes' = [nodes EXCEPT ![t] = row]
  BY DEF StartWorker
<1> HIDE DEF running
<1>4. RowOK(row) /\ row[n] = running
  BY <1>1, <1>2, RowPut
<1> HIDE DEF row
<1>5. StoreOK(nodes') /\ nodes'[t] = row
  BY <1>3, <1>4, StorePut
<1>6. n \in Active(row)
  BY <1>1, <1>2, <1>4 DEF Active, Retired
<1>7. ActiveNode(row) \in Active(row)
  BY <1>6 DEF ActiveNode, Active
<1>8. StartedAt(t) = ActiveNode(row) /\ StartedWorker(t) = [at |-> ActiveNode(row), node |-> row[ActiveNode(row)]]
  BY <1>5 DEF StartedAt, StartedWorker
<1> QED
  BY <1>4, <1>5, <1>7, <1>8 DEF Active, Retired, RowOK

\* A checkpoint.
LEMMA ReconciledRow ==
  ASSUME StoreOK(nodes), NEW t \in Task
  PROVE  RowOK(Reconciled(t))
<1> DEFINE n == ActiveNode(nodes[t])
           old == nodes[t][n]
           observed == [old EXCEPT !.rev = ws[t].rev, !.def = ws[t].def]
           superseded == [nodes[t] EXCEPT ![n].status = "superseded", ![n].work = TRUE]
           type == Action(ws[t], nodes[t])
<1>0. RowOK(nodes[t]) /\ DefaultId \in NodeId
  BY DEF StoreOK, NodeId
<1>1. type \in {"none", "schedule-node", "cancel-node", "drop-from-queue", "mark-stale",
                "refresh-observed-revision", "interrupt-and-supersede"}
  BY DEF Action
<1>2. type \notin {"none", "schedule-node"} => n \in NodeId
  <2>1. SUFFICES ASSUME type \notin {"none", "schedule-node"} PROVE n \in NodeId
    OBVIOUS
  <2>2. Active(nodes[t]) # {}
    BY <2>1 DEF Action
  <2> QED
    BY <2>2 DEF ActiveNode, Active
<1>3. CASE type = "none"
  BY <1>0, <1>3 DEF Reconciled
<1>4. CASE type = "schedule-node"
  <2>1. Reconciled(t) = Upserted(t, DefaultId, Pending(t))
    BY <1>4 DEF Reconciled
  <2> QED
    BY <1>0, <2>1, PendingShape, UpsertedRow
<1>5. CASE type = "cancel-node"
  <2>1. Reconciled(t) = [nodes[t] EXCEPT ![n].status = "cancelled"]
    BY <1>5 DEF Reconciled
  <2> QED
    BY <1>0, <2>1 DEF RowOK, Fcn, HasStatus
<1>6. CASE type \in {"drop-from-queue", "mark-stale", "refresh-observed-revision"}
  <2>1. n \in NodeId /\ HasStatus(observed)
    BY <1>0, <1>2, <1>6 DEF RowOK, HasStatus
  <2>2. \/ Reconciled(t) = [nodes[t] EXCEPT ![n] = [observed EXCEPT !.status = "done"]]
        \/ Reconciled(t) = [nodes[t] EXCEPT ![n] =
                              [observed EXCEPT !.status = "pending", !.retry = 0]]
        \/ Reconciled(t) = [nodes[t] EXCEPT ![n] = observed]
    BY <1>6 DEF Reconciled
  <2> HIDE DEF observed
  <2>3. /\ HasStatus([observed EXCEPT !.status = "done"])
        /\ HasStatus([observed EXCEPT !.status = "pending", !.retry = 0])
    BY <2>1 DEF HasStatus
  <2> QED
    BY <1>0, <2>1, <2>2, <2>3, RowPut
<1>7. CASE type = "interrupt-and-supersede"
  <2>1. RowOK(superseded)
    BY <1>0 DEF RowOK, Fcn, HasStatus
  <2>2. \/ Reconciled(t) = superseded
        \/ Reconciled(t) = [superseded EXCEPT ![ReplacementId(ws[t].rev)] = Pending(t)]
    BY <1>7 DEF Reconciled
  <2> HIDE DEF superseded
  <2>3. CASE ReplacementId(ws[t].rev) \in NodeId
    BY <2>1, <2>2, <2>3, PendingShape, RowPut
  <2>4. CASE ReplacementId(ws[t].rev) \notin NodeId
    BY <2>1, <2>2, <2>4 DEF RowOK, Fcn
  <2> QED
    BY <2>3, <2>4
<1> QED
  BY <1>1, <1>3, <1>4, <1>5, <1>6, <1>7

LEMMA ApplyOK ==
  ASSUME StoreOK(nodes), NEW S, Apply(S) PROVE StoreOK(nodes')
<1>1. nodes' = [t \in Task |-> IF t \in S THEN Reconciled(t) ELSE nodes[t]]
  BY DEF Apply
<1> QED
  BY <1>1, ReconciledRow DEF StoreOK, Fcn

-----------------------------------------------------------------------------
\* Where the children are.

Apart == quiesced \cup (IF doing = Parent THEN {} ELSE {doing})

\* Nothing of a wave is there.
Clean ==
  /\ members = {} /\ remaining = {} /\ Busy = {} /\ completed = <<>>
  /\ affected = {} /\ quiesced = {}

\* A child is dealt with apart, or a checkpoint on the way there or back is due.
Aside ==
  \/ pc \in {"decide", "ensure", "watch", "settle"}
  \/ pc = "checkpoint" /\ then \in {"ensure", "settle"}

Before == pc \in {"idle", "descend"} \/ (pc = "checkpoint" /\ then = "descend")

Placed ==
  /\ members = remaining \cup Busy \cup Claimed \cup Apart
  /\ remaining \cap (Busy \cup Claimed \cup Apart) = {}
  /\ Busy \cap (Claimed \cup Apart) = {}
  /\ Claimed \cap Apart = {}

PlaceInv ==
  /\ members \subseteq Child /\ remaining \subseteq members
  /\ affected \subseteq members /\ quiesced \subseteq members
  /\ Before => Clean /\ doing = Parent /\ caller = "root"
  /\ pc = "mark active" =>
       /\ remaining = {} /\ Busy = {} /\ completed = <<>> /\ affected = {} /\ quiesced = {}
       /\ members # {} /\ doing = Parent /\ caller = "root"
  /\ pc \in {"wave", "soft", "hard"} =>
       Placed /\ members # {} /\ doing = Parent /\ caller = "root"
  /\ pc = "wave" => affected = {} /\ quiesced = {}
  /\ pc = "soft" => affected # {} /\ quiesced = {}
  /\ pc = "hard" => affected # {} /\ quiesced \subseteq affected
  /\ Aside =>
       \/ caller = "root" /\ Clean /\ pc \in {"ensure", "watch"}
       \/ /\ caller \in {"rework", "decision"} /\ Placed /\ doing \in members
          /\ quiesced = {} /\ affected = {}
       \/ caller = "conflict" /\ Placed /\ doing \in quiesced

\* Who leaves the main loop has a worker less.
SlackInv ==
  /\ IsFiniteSet(Busy) /\ Cardinality(Busy) <= MaxConcurrency
  /\ pc # "wave" => Cardinality(Busy) < MaxConcurrency

IInv == ShapeInv /\ PlaceInv /\ SlackInv

-----------------------------------------------------------------------------
\* Workers that are stopped and claims that are made.

LEMMA BusyRests == ASSUME UNCHANGED active PROVE Busy' = Busy
BY DEF Busy

LEMMA ClaimedRests == ASSUME UNCHANGED completed PROVE Claimed' = Claimed
BY DEF Claimed

LEMMA StoppedLess ==
  ASSUME ShapeInv, NEW c \in Child, Stopped(c)
  PROVE  /\ Busy' = Busy \ {c} /\ Fcn(active', Child)
         /\ \A d \in Child : HasStatus(active'[d].node) /\ active'[d].at \in NodeId
<1>1. active' = [active EXCEPT ![c] = NoWorker] /\ Fcn(active, Child)
  BY DEF Stopped, ShapeInv
<1>2. active' = [d \in Child |-> IF d = c THEN NoWorker ELSE active[d]]
  BY <1>1 DEF Fcn
<1>3. NoWorker.node.status = "absent" /\ HasStatus(NoWorker.node) /\ NoWorker.at \in NodeId
  BY DEF NoWorker, AbsentNode, HasStatus, NodeId
<1>4. Busy' = Busy \ {c}
  BY <1>2, <1>3 DEF Busy
<1> QED
  BY <1>2, <1>3, <1>4 DEF Fcn, ShapeInv

LEMMA CompletedMore ==
  ASSUME ShapeInv, NEW c \in Child, NEW n \in NodeId, Complete(c, n)
  PROVE  /\ completed' \in Seq([task : Child, at : NodeId])
         /\ Claimed' = Claimed \cup {c}
<1> DEFINE claim == [task |-> c, at |-> n]
<1>1. completed \in Seq([task : Child, at : NodeId]) /\ claim \in [task : Child, at : NodeId]
  BY DEF ShapeInv
<1>2. CASE c \in Claimed
  <2>1. completed' = [i \in DOMAIN completed |-> IF completed[i].task = c THEN claim ELSE completed[i]]
    BY <1>2 DEF Complete
  <2>2. DOMAIN completed' = DOMAIN completed /\ \A i \in DOMAIN completed : completed'[i].task = completed[i].task
    BY <2>1
  <2>3. completed' \in Seq([task : Child, at : NodeId])
    BY <1>1, <2>1
  <2>4. Claimed' = Claimed
    BY <2>2 DEF Claimed
  <2> QED
    BY <1>2, <2>3, <2>4
<1>3. CASE c \notin Claimed
  <2>1. completed' = Append(completed, claim)
    BY <1>3 DEF Complete
  <2>2. completed' \in Seq([task : Child, at : NodeId]) /\ Len(completed') = Len(completed) + 1
    BY <1>1, <2>1
  <2>3. DOMAIN completed' = DOMAIN completed \cup {Len(completed) + 1}
    BY <1>1, <2>2
  <2>4. /\ \A i \in DOMAIN completed : completed'[i] = completed[i]
        /\ completed'[Len(completed) + 1] = claim
    BY <1>1, <2>1
  <2>5. Claimed' = Claimed \cup {c}
    <3>1. claim.task = c
      OBVIOUS
    <3> HIDE DEF claim
    <3> QED
      BY <2>3, <2>4, <3>1 DEF Claimed
  <2> QED
    BY <2>2, <2>5
<1> QED
  BY <1>2, <1>3

\* Of the children that are busy, one is stopped.
LEMMA SlackOfStopped ==
  ASSUME SlackInv, NEW c \in Busy, Busy' = Busy \ {c}
  PROVE  SlackInv'
<1>1. IsFiniteSet(Busy') /\ Cardinality(Busy') = Cardinality(Busy) - 1
  BY FS_RemoveElement DEF SlackInv
<1>2. Cardinality(Busy) \in Nat
  BY FS_CardinalityType DEF SlackInv
<1> QED
  BY <1>1, <1>2, WaveAssumption DEF SlackInv

LEMMA SlackRests ==
  ASSUME SlackInv, UNCHANGED active, pc # "wave" \/ pc' = "wave"
  PROVE  SlackInv'
<1>1. Busy' = Busy
  BY BusyRests
<1>2. Cardinality(Busy) \in Nat
  BY FS_CardinalityType DEF SlackInv
<1> QED
  BY <1>1, <1>2 DEF SlackInv

LEMMA SlackOfNone ==
  ASSUME Busy' = {} PROVE SlackInv'
BY FS_EmptySet, WaveAssumption DEF SlackInv

-----------------------------------------------------------------------------
\* A run that is over.

LEMMA NothingLeft ==
  ASSUME StoreOK(nodes'), pc' = "idle", then' = "descend", target' \in Task,
         parentNode' = NoWorker, mine' = AbsentNode, active' = [c \in Child |-> NoWorker],
         at' = DefaultId, doing' = Parent, caller' = "root", completed' = <<>>,
         members' = {}, remaining' = {}, affected' = {}, quiesced' = {}
  PROVE  IInv'
<1>1. NoWorker.node.status = "absent" /\ HasStatus(NoWorker.node) /\ NoWorker.at \in NodeId
  BY DEF NoWorker, AbsentNode, HasStatus, NodeId
<1>2. Busy' = {}
  BY <1>1 DEF Busy
<1>3. SlackInv'
  BY <1>2, SlackOfNone
<1>4. PlaceInv'
  BY <1>2 DEF PlaceInv, Clean, Before, Aside
<1>5. ShapeInv'
  BY <1>1 DEF ShapeInv, Fcn, HasStatus, AbsentNode, NodeId, Task
<1> QED
  BY <1>3, <1>4, <1>5 DEF IInv

LEMMA FinishInv == ASSUME IInv, StoreOK(nodes'), NEW r, Finish(r) PROVE IInv'
BY NothingLeft DEF Finish, IInv, ShapeInv

LEMMA InitInv == ASSUME Init PROVE IInv
<1>1. NoWorker.node.status = "absent" /\ HasStatus(NoWorker.node) /\ NoWorker.at \in NodeId
  BY DEF NoWorker, AbsentNode, HasStatus, NodeId
<1>2. Busy = {}
  BY <1>1 DEF Busy, Init
<1>3. SlackInv
  BY <1>2, FS_EmptySet, WaveAssumption DEF SlackInv
<1>4. PlaceInv
  BY <1>2 DEF PlaceInv, Clean, Before, Aside, Init
<1>5. StoreOK(nodes)
  BY DEF Init, StoreOK, RowOK, Fcn, HasStatus, AbsentNode
<1>6. ShapeInv
  BY <1>1, <1>5 DEF ShapeInv, Init, Fcn, HasStatus, AbsentNode, NodeId, Task
<1> QED
  BY <1>3, <1>4, <1>6 DEF IInv

-----------------------------------------------------------------------------
\* Steps that leave the wave alone.

LEMMA ShapeRests ==
  ASSUME ShapeInv, StoreOK(nodes'), UNCHANGED <<parentNode, active, completed, doing, at, mine>>,
         then' \in {"descend", "ensure", "settle", "return"}, target' = target
  PROVE  ShapeInv'
BY DEF ShapeInv

LEMMA PlacedRests ==
  ASSUME UNCHANGED <<members, remaining, active, completed, quiesced, doing>>
  PROVE  Placed' <=> Placed
BY BusyRests, ClaimedRests DEF Placed, Apart

LEMMA CleanRests ==
  ASSUME UNCHANGED <<wave, impact>> PROVE Clean' <=> Clean
BY BusyRests DEF Clean, wave, impact

\* Whoever is aside stays aside.
LEMMA AsideRests ==
  ASSUME IInv, UNCHANGED <<wave, impact, doing, caller>>, StoreOK(nodes'),
         mine' = mine \/ HasStatus(mine'), at' \in NodeId,
         then' \in {"descend", "ensure", "settle", "return"}, target' = target,
         Aside, Aside', caller = "root" => pc' \in {"ensure", "watch"}
  PROVE  IInv'
<1>1. ShapeInv'
  BY DEF IInv, ShapeInv, wave
<1>2. SlackInv'
  BY SlackRests DEF IInv, wave, Aside
<1>3. (Placed' <=> Placed) /\ (Clean' <=> Clean)
  BY PlacedRests, CleanRests DEF wave, impact
<1>4. PlaceInv'
  BY <1>3 DEF IInv, PlaceInv, Aside, Before, wave, impact
<1> QED
  BY <1>1, <1>2, <1>4 DEF IInv

\* What comes to its end, without the wave's help.
Ending ==
  \/ pc \in {"bubble", "escalate", "reject claims", "report", "report parent", "return"}
  \/ pc = "checkpoint" /\ then = "return"

LEMMA EndingInv ==
  ASSUME IInv, Ending', ShapeInv', pc # "wave",
         UNCHANGED <<active, members, remaining, affected, quiesced>>
  PROVE  IInv'
<1>1. SlackInv'
  BY SlackRests DEF IInv, Ending
<1>2. PlaceInv'
  BY DEF IInv, PlaceInv, Ending, Aside, Before
<1> QED
  BY <1>1, <1>2 DEF IInv

LEMMA RunInv == ASSUME IInv, NEW t \in Target, Run(t) PROVE IInv'
<1>1. /\ UNCHANGED <<nodes, wave, impact, nested>>
      /\ pc = "idle" /\ pc' = "checkpoint" /\ then' = "descend"
  BY DEF Run
<1>2. ShapeInv'
  <2>1. target' \in Task
    BY WaveAssumption DEF Run, Task, Parent
  <2> QED
    BY <1>1, <2>1 DEF IInv, ShapeInv, wave, nested
<1>3. SlackInv'
  BY <1>1, SlackRests DEF IInv, wave
<1>4. PlaceInv'
  BY <1>1, CleanRests DEF IInv, PlaceInv, Before, Aside, wave, impact, nested
<1> QED
  BY <1>2, <1>3, <1>4 DEF IInv

LEMMA CheckpointInv == ASSUME IInv, Checkpoint PROVE IInv'
<1>1. /\ UNCHANGED <<wave, impact, nested, then, target>> /\ Apply(Task)
      /\ pc = "checkpoint" /\ pc' = then
  BY DEF Checkpoint, Goto
<1>2. StoreOK(nodes')
  BY <1>1, ApplyOK DEF IInv, ShapeInv
<1>3. ShapeInv' /\ then \in {"descend", "ensure", "settle", "return"}
  BY <1>1, <1>2, ShapeRests DEF IInv, ShapeInv, wave, nested
<1>4. CASE then = "return"
  BY <1>1, <1>3, <1>4, EndingInv DEF Ending, wave, impact
<1>5. CASE then \in {"ensure", "settle"}
  <2>1. Aside /\ Aside' /\ caller # "root"
    BY <1>1, <1>5 DEF Aside, IInv, PlaceInv
  <2> QED
    BY <1>1, <1>2, <1>3, <2>1, AsideRests DEF nested, ShapeInv
<1>6. CASE then = "descend"
  <2>1. SlackInv'
    BY <1>1, SlackRests DEF IInv, wave
  <2>2. PlaceInv'
    BY <1>1, <1>6, CleanRests DEF IInv, PlaceInv, Before, Aside, wave, impact, nested
  <2> QED
    BY <1>3, <2>1, <2>2 DEF IInv
<1> QED
  BY <1>3, <1>4, <1>5, <1>6

LEMMA CheckpointRejectedInv == ASSUME IInv, CheckpointRejected PROVE IInv'
<1>1. StoreOK(nodes')
  BY ApplyOK DEF CheckpointRejected, IInv, ShapeInv
<1> QED
  BY <1>1, FinishInv DEF CheckpointRejected

LEMMA DescendInv == ASSUME IInv, Descend PROVE IInv'
<1>1. CASE Finish("rejected") /\ UNCHANGED nodes
  BY <1>1, FinishInv DEF IInv, ShapeInv
<1>2. CASE /\ doing' = target /\ Goto("ensure")
           /\ UNCHANGED <<nodes, wave, impact, at, mine, caller, outcome>>
  <2>1. pc = "descend" /\ pc' = "ensure" /\ UNCHANGED <<then, target>> /\ UNCHANGED <<affected, quiesced>>
    BY <1>2 DEF Descend, Goto, impact
  <2>2. target \in Task
    BY DEF IInv, ShapeInv
  <2>3. ShapeInv'
    BY <1>2, <2>1, <2>2 DEF IInv, ShapeInv, wave
  <2>4. SlackInv'
    BY <1>2, <2>1, SlackRests DEF IInv, wave
  <2>5. PlaceInv'
    BY <1>2, <2>1, CleanRests DEF IInv, PlaceInv, Before, Aside, wave
  <2> QED
    BY <2>3, <2>4, <2>5 DEF IInv
<1>3. CASE /\ target = Parent /\ Undone # {} /\ members' = Undone /\ Goto("mark active")
           /\ UNCHANGED <<remaining, active, completed, impact, nested, outcome>>
           /\ pc = "descend"
           /\ LET kept == Ensured(Parent)
                  n == ActiveNode(kept)
              IN /\ parentNode' = [at |-> n, node |-> kept[n]]
                 /\ nodes' = [nodes EXCEPT ![Parent] =
                      [kept EXCEPT ![n] = [@ EXCEPT !.status = "running",
                                             !.session = None, !.resumable = FALSE]]]
  <2> DEFINE kept == Ensured(Parent)
             n == ActiveNode(kept)
             node == [kept[n] EXCEPT !.status = "running", !.session = None, !.resumable = FALSE]
  <2>1. RowOK(kept) /\ n \in NodeId /\ StoreOK(nodes) /\ Parent \in Task
    BY EnsuredCounts DEF IInv, ShapeInv, Task
  <2>2. HasStatus(node) /\ HasStatus(kept[n])
    BY <2>1 DEF RowOK, HasStatus
  <2>3. nodes' = [nodes EXCEPT ![Parent] = [kept EXCEPT ![n] = node]] /\ parentNode'.node = kept[n] /\ parentNode'.at = n
    BY <1>3
  <2> HIDE DEF node
  <2>4. StoreOK(nodes')
    BY <2>1, <2>2, <2>3, RowPut, StorePut
  <2>5. ShapeInv' /\ Undone \subseteq Child
    BY <1>3, <2>1, <2>2, <2>3, <2>4 DEF IInv, ShapeInv, Goto, nested, Undone
  <2>6. SlackInv'
    BY <1>3, SlackRests DEF IInv
  <2>7. Busy' = Busy /\ pc' = "mark active"
    BY <1>3, BusyRests DEF Goto
  <2>8. PlaceInv'
    BY <1>3, <2>5, <2>7 DEF IInv, PlaceInv, Before, Aside, Clean, impact, nested
  <2> QED
    BY <2>5, <2>6, <2>8 DEF IInv
<1> QED
  BY <1>1, <1>2, <1>3 DEF Descend

-----------------------------------------------------------------------------
\* The main loop.

LEMMA MarkParentActiveInv == ASSUME IInv, MarkParentActive PROVE IInv'
<1>0. UNCHANGED nodes /\ pc = "mark active"
  BY DEF MarkParentActive
<1>1. CASE Finish("rejected")
  BY <1>0, <1>1, FinishInv DEF IInv, ShapeInv
<1>2. CASE /\ remaining' = members /\ Goto("wave")
           /\ UNCHANGED <<parentNode, members, active, completed, impact, nested, outcome>>
  <2>1. pc' = "wave" /\ UNCHANGED <<then, target>>
    BY <1>2 DEF Goto
  <2>2. ShapeInv'
    BY <1>0, <1>2, <2>1 DEF IInv, ShapeInv, nested
  <2>3. SlackInv'
    BY <1>2, <2>1, SlackRests DEF IInv
  <2>4. Busy' = Busy /\ Claimed' = Claimed
    BY <1>2, BusyRests, ClaimedRests
  <2>5. Claimed = {}
    <3>1. completed = <<>>
      BY <1>0 DEF IInv, PlaceInv
    <3>2. DOMAIN completed = {}
      BY <3>1
    <3> QED
      BY <3>2 DEF Claimed
  <2>6. Placed'
    BY <1>0, <1>2, <2>4, <2>5 DEF IInv, PlaceInv, Placed, Apart, impact, nested
  <2>7. PlaceInv'
    BY <1>0, <1>2, <2>1, <2>6 DEF IInv, PlaceInv, Before, Aside, impact, nested
  <2> QED
    BY <2>2, <2>3, <2>7 DEF IInv
<1> QED
  BY <1>1, <1>2 DEF MarkParentActive

\* A child leaves the queue and is busy.
LEMMA FillInv == ASSUME IInv, Fill PROVE IInv'
<1> DEFINE c == First(remaining)
<1>0. /\ pc = "wave" /\ Filling /\ remaining # {} /\ remaining \subseteq Child
      /\ Cardinality(Busy) < MaxConcurrency
  BY DEF Fill, Filling, IInv, PlaceInv
<1>1. c \in remaining /\ c \in Child /\ c \in Task
  BY <1>0, LeastIsThere DEF Task
<1> HIDE DEF c
<1>2. CASE Finish("rejected") /\ UNCHANGED nodes
  BY <1>2, FinishInv DEF IInv, ShapeInv
<1>3. CASE /\ StartWorker(c) /\ active' = [active EXCEPT ![c] = StartedWorker(c)]
           /\ remaining' = remaining \ {c} /\ Goto("wave")
           /\ UNCHANGED <<parentNode, members, completed, impact, nested, outcome>>
  <2>1. pc' = "wave" /\ UNCHANGED <<then, target>>
    BY <1>3 DEF Goto
  <2>2. /\ StoreOK(nodes') /\ HasStatus(StartedWorker(c).node)
        /\ StartedWorker(c).at \in NodeId /\ StartedWorker(c).node.status # "absent"
    BY <1>1, <1>3, StartedRuns DEF IInv, ShapeInv
  <2> DEFINE worker == StartedWorker(c)
  <2>3. active' = [d \in Child |-> IF d = c THEN worker ELSE active[d]]
    BY <1>3 DEF IInv, ShapeInv, Fcn
  <2> HIDE DEF worker
  <2>4. Busy' = Busy \cup {c}
    BY <1>1, <2>2, <2>3 DEF Busy, worker
  <2>5. ShapeInv'
    BY <1>3, <2>1, <2>2, <2>3 DEF IInv, ShapeInv, Fcn, nested, worker
  <2>6. IsFiniteSet(Busy') /\ Cardinality(Busy') <= Cardinality(Busy) + 1
    <3>1. IsFiniteSet(Busy) /\ Cardinality(Busy) \in Nat
      BY FS_CardinalityType DEF IInv, SlackInv
    <3>2. /\ IsFiniteSet(Busy \cup {c})
          /\ Cardinality(Busy \cup {c}) = IF c \in Busy THEN Cardinality(Busy) ELSE Cardinality(Busy) + 1
      BY <3>1, FS_AddElement
    <3> QED
      BY <2>4, <3>1, <3>2
  <2>7. SlackInv'
    <3>1. Cardinality(Busy) \in Nat /\ Cardinality(Busy') \in Nat
      BY <2>6, FS_CardinalityType DEF IInv, SlackInv
    <3> QED
      BY <1>0, <2>1, <2>6, <3>1, WaveAssumption DEF SlackInv
  <2>8. Placed'
    BY <1>0, <1>1, <1>3, <2>4, ClaimedRests DEF IInv, PlaceInv, Placed, Apart, impact, nested
  <2>9. PlaceInv'
    BY <1>0, <1>3, <2>1, <2>8 DEF IInv, PlaceInv, Before, Aside, impact, nested
  <2> QED
    BY <2>5, <2>7, <2>9 DEF IInv
<1> QED
  BY <1>2, <1>3 DEF Fill, c

LEMMA PauseInv == ASSUME IInv, Pause PROVE IInv'
BY FinishInv DEF Pause, IInv, ShapeInv

LEMMA ReadRejectedInv == ASSUME IInv, NEW c \in Child, ReadRejected(c) PROVE IInv'
BY FinishInv DEF ReadRejected, IInv, ShapeInv

\* The worker that is listened to is one of the wave, and what is known of it.
LEMMA Heard ==
  ASSUME IInv, NEW c \in Child, Listening(c)
  PROVE  /\ pc = "wave" /\ c \in Busy /\ c \in members /\ c \in Task
         /\ active[c].at \in NodeId /\ HasStatus(active[c].node)
         /\ HasStatus(nodes[c][active[c].at])
         /\ Placed /\ affected = {} /\ quiesced = {} /\ doing = Parent /\ caller = "root"
         /\ c \notin remaining \cup Claimed \cup Apart /\ c # Parent
<1>1. pc = "wave" /\ Busy # {} /\ c = First(Busy) /\ Busy \subseteq Child
  BY DEF Listening, Read, Reading, Busy
<1>2. c \in Busy /\ c \in Task
  BY <1>1, LeastIsThere DEF Task
<1>3. Placed /\ affected = {} /\ quiesced = {} /\ doing = Parent /\ caller = "root"
  BY <1>1 DEF IInv, PlaceInv
<1>4. c # Parent
  BY WaveAssumption DEF Parent
<1>5. active[c].at \in NodeId /\ HasStatus(active[c].node) /\ HasStatus(nodes[c][active[c].at])
  BY <1>2 DEF IInv, ShapeInv, StoreOK, RowOK
<1> QED
  BY <1>1, <1>2, <1>3, <1>4, <1>5 DEF Placed

LEMMA WorkerDoneInv == ASSUME IInv, NEW c \in Child, WorkerDone(c) PROVE IInv'
<1> DEFINE w == active[c]
<1>1. /\ Listening(c) /\ MarkNode(c, w.at, w.node, "done", w.node.retry, None)
      /\ Stopped(c) /\ Complete(c, w.at)
      /\ UNCHANGED <<then, target, parentNode, members, remaining, quiesced, doing, at, mine, caller>>
  BY DEF WorkerDone, Goto, nested
<1>2. \/ pc' = "wave" /\ affected' = affected
      \/ affected' \subseteq members \ {c} /\ affected' # {} /\ pc' \in {"soft", "hard"}
  BY DEF WorkerDone, Goto
<1>3. StoreOK(nodes')
  BY <1>1, Heard, MarkNodeOK DEF IInv, ShapeInv
<1>4. /\ Busy' = Busy \ {c} /\ Fcn(active', Child)
      /\ \A d \in Child : HasStatus(active'[d].node) /\ active'[d].at \in NodeId
  BY <1>1, StoppedLess DEF IInv
<1>5. completed' \in Seq([task : Child, at : NodeId]) /\ Claimed' = Claimed \cup {c}
  BY <1>1, Heard, CompletedMore DEF IInv
<1>6. ShapeInv'
  BY <1>1, <1>3, <1>4, <1>5 DEF IInv, ShapeInv
<1>7. SlackInv'
  BY <1>1, <1>4, Heard, SlackOfStopped DEF IInv
<1>8. Placed'
  BY <1>1, <1>4, <1>5, Heard DEF Placed, Apart
<1>9. PlaceInv'
  BY <1>1, <1>2, <1>8, Heard DEF IInv, PlaceInv, Before, Aside
<1> QED
  BY <1>6, <1>7, <1>9 DEF IInv

\* A child that was busy is dealt with apart.
LEMMA TakenAside ==
  ASSUME IInv, NEW c \in Child, Listening(c), Stopped(c), StoreOK(nodes'),
         UNCHANGED <<target, parentNode, members, remaining, completed, affected, quiesced, mine>>,
         then' \in {"descend", "ensure", "settle", "return"},
         doing' = c, at' \in NodeId, caller' \in {"rework", "decision"},
         Aside' \/ pc' = "bubble"
  PROVE  IInv'
<1>1. /\ Busy' = Busy \ {c} /\ Fcn(active', Child)
      /\ \A d \in Child : HasStatus(active'[d].node) /\ active'[d].at \in NodeId
  BY StoppedLess DEF IInv
<1>2. ShapeInv'
  BY <1>1, Heard DEF IInv, ShapeInv
<1>3. SlackInv'
  BY <1>1, Heard, SlackOfStopped DEF IInv
<1>4. Placed'
  BY <1>1, Heard, ClaimedRests DEF Placed, Apart
<1>5. PlaceInv'
  BY <1>4, Heard DEF IInv, PlaceInv, Before, Aside
<1> QED
  BY <1>2, <1>3, <1>5 DEF IInv

LEMMA ReworkInv == ASSUME IInv, NEW c \in Child, Rework(c) PROVE IInv'
<1> DEFINE n == active[c].at
           node == nodes[c][n]
<1>1. /\ Listening(c) /\ Stopped(c) /\ MarkNode(c, n, node, "pending", node.retry + 1, None)
      /\ doing' = c /\ at' = n /\ caller' = "rework" /\ pc' = "checkpoint" /\ then' = "ensure"
      /\ UNCHANGED <<target, parentNode, members, remaining, completed, affected, quiesced, mine>>
  BY DEF Rework, Reconcile, impact
<1>2. StoreOK(nodes')
  BY <1>1, Heard, MarkNodeOK DEF IInv, ShapeInv
<1> QED
  BY <1>1, <1>2, Heard, TakenAside DEF Aside

LEMMA WorkerAsksInv == ASSUME IInv, NEW c \in Child, WorkerAsks(c) PROVE IInv'
<1> DEFINE w == active[c]
<1>1. /\ Listening(c) /\ Stopped(c) /\ MarkNode(c, w.at, w.node, "needs-decision", w.node.retry, None)
      /\ doing' = c /\ at' = w.at /\ caller' = "decision" /\ pc' \in {"decide", "bubble"}
      /\ UNCHANGED <<then, target, parentNode, members, remaining, completed, affected, quiesced, mine>>
  BY DEF WorkerAsks, Goto, impact
<1>2. StoreOK(nodes')
  BY <1>1, Heard, MarkNodeOK DEF IInv, ShapeInv
<1>3. then' \in {"descend", "ensure", "settle", "return"}
  BY <1>1 DEF IInv, ShapeInv
<1> QED
  BY <1>1, <1>2, <1>3, Heard, TakenAside DEF Aside

LEMMA FailChildInv == ASSUME IInv, NEW c \in Child, FailChild(c) PROVE IInv'
<1> DEFINE n == active[c].at
           node == nodes[c][n]
<1>1. /\ Listening(c) /\ Stopped(c) /\ MarkNode(c, n, node, "failed", node.retry, None)
      /\ pc' = "escalate"
      /\ UNCHANGED <<then, target, parentNode, members, remaining, completed, affected, quiesced,
                     doing, at, mine, caller>>
  BY DEF FailChild, Goto, impact, nested
<1>2. StoreOK(nodes')
  BY <1>1, Heard, MarkNodeOK DEF IInv, ShapeInv
<1>3. /\ Busy' = Busy \ {c} /\ Fcn(active', Child)
      /\ \A d \in Child : HasStatus(active'[d].node) /\ active'[d].at \in NodeId
  BY <1>1, StoppedLess DEF IInv
<1>4. ShapeInv'
  BY <1>1, <1>2, <1>3 DEF IInv, ShapeInv
<1>5. SlackInv'
  BY <1>1, <1>3, Heard, SlackOfStopped DEF IInv
<1>6. PlaceInv'
  BY <1>1 DEF IInv, PlaceInv, Before, Aside
<1> QED
  BY <1>4, <1>5, <1>6 DEF IInv

LEMMA MarkParentOK == ASSUME ShapeInv, NEW status, MarkParent(status) PROVE StoreOK(nodes')
<1>1. MarkNode(Parent, parentNode.at, parentNode.node, status, parentNode.node.retry, None)
  BY DEF MarkParent
<1>2. StoreOK(nodes) /\ Parent \in Task /\ parentNode.at \in NodeId /\ HasStatus(parentNode.node)
  BY DEF ShapeInv, Task
<1> QED
  BY <1>1, <1>2, MarkNodeOK

\* The parent is marked on the way out.
LEMMA OutInv ==
  ASSUME IInv, StoreOK(nodes'), Reconcile("return"), UNCHANGED <<wave, impact, nested>>, pc # "wave"
  PROVE  IInv'
<1>1. /\ pc' = "checkpoint" /\ then' = "return" /\ UNCHANGED target
      /\ UNCHANGED <<parentNode, members, remaining, active, completed, affected, quiesced,
                     doing, at, mine>>
  BY DEF Reconcile, wave, impact, nested
<1>2. ShapeInv'
  BY <1>1, ShapeRests DEF IInv
<1> QED
  BY <1>1, <1>2, EndingInv DEF Ending

LEMMA EscalateInv == ASSUME IInv, Escalate PROVE IInv'
BY MarkParentOK, OutInv DEF Escalate, IInv

LEMMA BubbleInv == ASSUME IInv, Bubble PROVE IInv'
BY MarkParentOK, FinishInv DEF Bubble, IInv

-----------------------------------------------------------------------------
\* Siblings.

LEMMA ShareContextInv == ASSUME IInv, ShareContext PROVE IInv'
<1>0. UNCHANGED nodes /\ pc = "soft"
  BY DEF ShareContext
<1>1. CASE Finish("rejected")
  BY <1>0, <1>1, FinishInv DEF IInv, ShapeInv
<1>2. CASE \E t \in affected \cup {First(affected)} :
             /\ affected' = affected \ {t}
             /\ Goto(IF affected' = {} THEN "wave" ELSE "soft")
             /\ UNCHANGED <<wave, quiesced, nested, outcome>>
  <2>1. /\ affected' \subseteq affected /\ UNCHANGED <<then, target>>
        /\ pc' = IF affected' = {} THEN "wave" ELSE "soft"
        /\ UNCHANGED <<parentNode, members, remaining, active, completed, quiesced,
                       doing, at, mine, caller>>
    BY <1>2 DEF Goto, wave, nested
  <2>2. ShapeInv'
    BY <1>0, <2>1, ShapeRests DEF IInv, ShapeInv
  <2>3. SlackInv'
    BY <1>0, <2>1, SlackRests DEF IInv
  <2>4. PlaceInv'
    BY <1>0, <2>1, PlacedRests DEF IInv, PlaceInv, Before, Aside
  <2> QED
    BY <2>2, <2>3, <2>4 DEF IInv
<1> QED
  BY <1>1, <1>2 DEF ShareContext

\* A busy sibling is stopped: it was busy and is apart.
LEMMA QuiesceInv == ASSUME IInv, Quiesce PROVE IInv'
<1> DEFINE c == First(affected \cap Busy)
           w == active[c]
           row == Marked(c, w.at, w.node, "pending", w.node.retry, w.node.session)
<1>0. /\ pc = "hard" /\ affected \cap Busy # {} /\ Busy \subseteq Child
      /\ doing = Parent /\ Placed /\ quiesced \subseteq affected /\ caller = "root"
  BY DEF Quiesce, Busy, IInv, PlaceInv
<1>1. c \in affected /\ c \in Busy /\ c \in Child /\ c \in Task
  BY <1>0, LeastIsThere DEF Task
<1> HIDE DEF c
<1>2. CASE Finish("rejected") /\ UNCHANGED nodes
  BY <1>2, FinishInv DEF IInv, ShapeInv
<1>3. CASE /\ nodes' = [nodes EXCEPT ![c] = [row EXCEPT ![w.at].work = TRUE]]
           /\ Stopped(c) /\ quiesced' = quiesced \cup {c} /\ Goto("hard")
           /\ UNCHANGED <<parentNode, members, remaining, completed, affected, nested, outcome>>
  <2>1. pc' = "hard" /\ UNCHANGED <<then, target, doing, at, mine, caller>>
    BY <1>3 DEF Goto, nested
  <2>2. RowOK(row) /\ StoreOK(nodes)
    BY <1>1, MarkedRow DEF IInv, ShapeInv
  <2> HIDE DEF row
  <2>3. RowOK([row EXCEPT ![w.at].work = TRUE])
    BY <2>2 DEF RowOK, Fcn, HasStatus
  <2>4. StoreOK(nodes')
    BY <1>1, <1>3, <2>2, <2>3, StorePut
  <2>5. /\ Busy' = Busy \ {c} /\ Fcn(active', Child)
        /\ \A d \in Child : HasStatus(active'[d].node) /\ active'[d].at \in NodeId
    BY <1>1, <1>3, StoppedLess DEF IInv
  <2>6. ShapeInv'
    BY <1>3, <2>1, <2>4, <2>5 DEF IInv, ShapeInv
  <2>7. SlackInv'
    BY <1>1, <2>5, SlackOfStopped DEF IInv
  <2>8. Placed'
    BY <1>0, <1>1, <1>3, <2>1, <2>5, ClaimedRests DEF Placed, Apart
  <2>9. PlaceInv'
    BY <1>0, <1>1, <1>3, <2>1, <2>8 DEF IInv, PlaceInv, Before, Aside
  <2> QED
    BY <2>6, <2>7, <2>9 DEF IInv
<1> QED
  BY <1>2, <1>3 DEF Quiesce, c

LEMMA ResolveConflictInv == ASSUME IInv, ResolveConflict PROVE IInv'
<1>0. /\ pc = "hard" /\ doing = Parent /\ Placed /\ affected # {} /\ quiesced \subseteq Child
      /\ members \subseteq Child /\ quiesced \subseteq members
  BY DEF ResolveConflict, IInv, PlaceInv
<1>1. CASE MarkParent("needs-decision") /\ Finish("needs-decision")
  BY <1>1, MarkParentOK, FinishInv DEF IInv
<1>2. CASE /\ quiesced = affected
           /\ doing' = First(quiesced) /\ at' = DefaultId /\ caller' = "conflict"
           /\ Goto("decide") /\ UNCHANGED <<nodes, wave, impact, mine, outcome>>
  <2>1. /\ pc' = "decide"
        /\ UNCHANGED <<then, target, parentNode, members, remaining, active, completed,
                       affected, quiesced, mine>>
    BY <1>2 DEF Goto, wave, impact
  <2>2. doing' \in quiesced /\ doing' \in Task /\ doing' # Parent
    BY <1>0, <1>2, LeastIsThere, WaveAssumption DEF Task, Parent
  <2>3. ShapeInv'
    BY <1>2, <2>1, <2>2 DEF IInv, ShapeInv, NodeId
  <2>4. SlackInv'
    BY <1>0, <2>1, SlackRests DEF IInv
  <2>5. Placed'
    BY <1>0, <2>1, <2>2, BusyRests, ClaimedRests DEF Placed, Apart
  <2>6. PlaceInv'
    BY <1>2, <2>1, <2>2, <2>5 DEF IInv, PlaceInv, Before, Aside
  <2> QED
    BY <2>3, <2>4, <2>6 DEF IInv
<1> QED
  BY <1>1, <1>2 DEF ResolveConflict

-----------------------------------------------------------------------------
\* Decisions.

\* The node of the child dealt with.
LEMMA Dealt == ASSUME ShapeInv PROVE doing \in Task /\ at \in NodeId /\ HasStatus(nodes[doing][at])
BY DEF ShapeInv, StoreOK, RowOK

LEMMA DecideHumanInv == ASSUME IInv, DecideHuman PROVE IInv'
BY MarkParentOK, OutInv DEF DecideHuman, IInv

LEMMA DecideFollowUpInv == ASSUME IInv, DecideFollowUp PROVE IInv'
<1>1. /\ pc = "decide" /\ caller = "decision" /\ pc' = "checkpoint" /\ then' = "settle"
      /\ MarkNode(doing, at, nodes[doing][at], "done", 0, None)
      /\ UNCHANGED <<target, wave, impact, doing, at, mine, caller>>
  BY DEF DecideFollowUp, Reconcile, nested
<1>2. StoreOK(nodes')
  BY <1>1, Dealt, MarkNodeOK DEF IInv, ShapeInv
<1>3. Aside /\ Aside' /\ at' \in NodeId
  BY <1>1 DEF Aside, IInv, ShapeInv
<1> QED
  BY <1>1, <1>2, <1>3, AsideRests

LEMMA DecidePatchInv == ASSUME IInv, DecidePatch PROVE IInv'
<1>1. /\ pc = "decide" /\ pc' = "checkpoint" /\ then' = "ensure"
      /\ MarkNode(doing, at, nodes[doing][at], "pending", 0, nodes[doing][at].session)
      /\ UNCHANGED <<target, wave, impact, doing, at, mine, caller>>
  BY DEF DecidePatch, Reconcile, nested
<1>2. StoreOK(nodes')
  BY <1>1, Dealt, MarkNodeOK DEF IInv, ShapeInv
<1>3. Aside /\ Aside' /\ at' \in NodeId /\ caller # "root"
  BY <1>1 DEF Aside, IInv, ShapeInv, PlaceInv
<1> QED
  BY <1>1, <1>2, <1>3, AsideRests

LEMMA DecideRejectedInv == ASSUME IInv, DecideRejected PROVE IInv'
BY FinishInv DEF DecideRejected, IInv, ShapeInv

\* The child that was apart is done, and the next one, if any, is taken.
LEMMA SettleInv == ASSUME IInv, Settle PROVE IInv'
<1>0. /\ UNCHANGED nodes /\ pc = "settle" /\ caller # "root" /\ Placed
      /\ doing \in members /\ members \subseteq Child /\ quiesced \subseteq members
      /\ doing # Parent /\ affected \subseteq members
      /\ (caller = "conflict" => doing \in quiesced)
      /\ (caller # "conflict" => quiesced = {} /\ affected = {})
  <2>1. UNCHANGED nodes /\ pc = "settle"
    BY DEF Settle
  <2>2. members \subseteq Child /\ quiesced \subseteq members /\ affected \subseteq members
    BY DEF IInv, PlaceInv
  <2>3. /\ caller # "root" /\ Placed
        /\ (caller = "conflict" => doing \in quiesced)
        /\ (caller # "conflict" => doing \in members /\ quiesced = {} /\ affected = {})
    BY <2>1 DEF IInv, PlaceInv, Aside
  <2>4. doing \in members /\ doing # Parent
    BY <2>2, <2>3, WaveAssumption DEF Parent
  <2> QED
    BY <2>1, <2>2, <2>3, <2>4
<1>1. CASE Finish(outcome)
  BY <1>0, <1>1, FinishInv DEF IInv, ShapeInv
<1>2. CASE outcome = "done"
  <2>1. /\ Complete(doing, at) /\ quiesced' = quiesced \ {doing}
        /\ affected' = (IF quiesced' = {} THEN {} ELSE affected)
        /\ at' = DefaultId /\ mine' = AbsentNode
        /\ UNCHANGED <<parentNode, members, remaining, active, then, target>>
    BY <1>2 DEF Settle, Goto
  <2>2. \/ quiesced' = {} /\ doing' = Parent /\ caller' = "root" /\ pc' = "wave"
        \/ /\ quiesced' # {} /\ doing' = First(quiesced') /\ caller' = caller /\ pc' = "decide"
    BY <1>2 DEF Settle, Goto
  <2>3. completed' \in Seq([task : Child, at : NodeId]) /\ Claimed' = Claimed \cup {doing}
    <3>1. doing \in Child /\ at \in NodeId /\ ShapeInv
      BY <1>0 DEF IInv, ShapeInv
    <3> QED
      BY <2>1, <3>1, CompletedMore
  <2>4. ASSUME quiesced' # {} PROVE doing' \in quiesced' /\ doing' \in Task /\ doing' # Parent
    <3>1. doing' = First(quiesced \ {doing}) /\ quiesced \ {doing} # {}
      BY <2>1, <2>2, <2>4 DEF First
    <3>2. doing' \in quiesced \ {doing} /\ quiesced \ {doing} \subseteq Child
      BY <1>0, <3>1, LeastIsThere
    <3> QED
      BY <2>1, <3>2, WaveAssumption DEF Task, Parent
  <2>5. ShapeInv'
    BY <1>0, <2>1, <2>2, <2>3, <2>4 DEF IInv, ShapeInv, NodeId, HasStatus, AbsentNode, Task
  <2>6. SlackInv'
    BY <1>0, <2>1, SlackRests DEF IInv
  <2>7. Busy' = Busy
    BY <2>1, BusyRests
  <2>8. Apart = quiesced \cup {doing} /\ Apart' = quiesced'
    BY <1>0, <2>2, <2>4 DEF Apart
  <2>9. Placed'
    <3>1. Apart = quiesced' \cup {doing} /\ doing \notin quiesced'
      BY <2>1, <2>8
    <3> QED
      BY <1>0, <2>1, <2>3, <2>7, <2>8, <3>1 DEF Placed
  <2>10. quiesced' # {} => caller = "conflict"
    BY <1>0, <2>1
  <2>11. PlaceInv'
    BY <1>0, <2>1, <2>2, <2>4, <2>9, <2>10 DEF IInv, PlaceInv, Before, Aside
  <2> QED
    BY <2>5, <2>6, <2>11 DEF IInv
<1> QED
  BY <1>1, <1>2 DEF Settle

-----------------------------------------------------------------------------
\* A child, or the run's own task, at work by itself.

LEMMA LeafReturnInv ==
  ASSUME IInv, pc \in {"ensure", "watch"}, StoreOK(nodes'), NEW o, NEW n \in NodeId, LeafReturn(o, n)
  PROVE  IInv'
<1>1. CASE caller = "root"
  BY <1>1, FinishInv DEF LeafReturn
<1>2. CASE caller # "root"
  <2>1. /\ at' = n /\ mine' = AbsentNode /\ pc' = "checkpoint" /\ then' = "settle"
        /\ UNCHANGED <<target, wave, impact, doing, caller>>
    BY <1>2 DEF LeafReturn, Reconcile
  <2>2. Aside /\ Aside' /\ HasStatus(mine')
    BY <2>1 DEF Aside, HasStatus, AbsentNode
  <2> QED
    BY <1>2, <2>1, <2>2, AsideRests
<1> QED
  BY <1>1, <1>2

LEMMA StartLeafInv == ASSUME IInv, StartLeaf PROVE IInv'
<1> DEFINE kept == Ensured(doing)
           n == ActiveNode(kept)
<1>0. /\ pc = "ensure" /\ doing \in Task /\ StoreOK(nodes)
      /\ RowOK(kept) /\ n \in NodeId
  BY EnsuredCounts DEF StartLeaf, IInv, ShapeInv
<1>1. CASE LeafReturn(kept[n].status, n) /\ UNCHANGED nodes
  BY <1>0, <1>1, LeafReturnInv
<1>2. CASE nodes' = [nodes EXCEPT ![doing] = kept] /\ Finish("rejected")
  <2>1. StoreOK(nodes')
    <3> HIDE DEF kept
    <3> QED
      BY <1>0, <1>2, StorePut
  <2> QED
    BY <1>2, <2>1, FinishInv
<1>3. CASE /\ StartWorker(doing) /\ at' = n /\ mine' = nodes'[doing][n] /\ Goto("watch")
           /\ UNCHANGED <<wave, impact, doing, caller, outcome>>
  <2>1. StoreOK(nodes')
    BY <1>0, <1>3, StartedRuns
  <2>2. HasStatus(mine')
    BY <1>0, <1>3, <2>1 DEF StoreOK, RowOK
  <2>3. Aside /\ Aside' /\ pc' = "watch" /\ UNCHANGED <<then, target>>
    BY <1>0, <1>3 DEF Aside, Goto
  <2>4. then' \in {"descend", "ensure", "settle", "return"}
    BY <2>3 DEF IInv, ShapeInv
  <2> QED
    BY <1>0, <1>3, <2>1, <2>2, <2>3, <2>4, AsideRests
<1> QED
  BY <1>1, <1>2, <1>3 DEF StartLeaf

\* What a worker by itself leaves in the store.
LEMMA MineMarked ==
  ASSUME IInv, NEW status, NEW retry, MarkNode(doing, at, mine, status, retry, None)
  PROVE  StoreOK(nodes') /\ at \in NodeId
BY MarkNodeOK DEF IInv, ShapeInv

LEMMA LeafDoneInv == ASSUME IInv, LeafDone PROVE IInv'
<1>1. pc = "watch" /\ (LeafReturn("done", at) \/ Finish("rejected"))
  BY DEF LeafDone
<1>2. StoreOK(nodes') /\ at \in NodeId
  BY MineMarked DEF LeafDone
<1> QED
  BY <1>1, <1>2, LeafReturnInv, FinishInv

LEMMA LeafAsksInv == ASSUME IInv, LeafAsks PROVE IInv'
<1>1. StoreOK(nodes') /\ at \in NodeId
  BY MineMarked DEF LeafAsks
<1> QED
  BY <1>1, LeafReturnInv DEF LeafAsks

LEMMA LeafFailsInv == ASSUME IInv, LeafFails PROVE IInv'
<1>1. pc = "watch" /\ (LeafReturn("failed", at) \/ Finish("rejected"))
  BY DEF LeafFails
<1>2. StoreOK(nodes') /\ at \in NodeId
  BY MineMarked DEF LeafFails
<1> QED
  BY <1>1, <1>2, LeafReturnInv, FinishInv

LEMMA LeafPausesInv == ASSUME IInv, LeafPauses PROVE IInv'
<1>1. pc = "watch" /\ LeafReturn("paused", at) /\ UNCHANGED nodes
  BY DEF LeafPauses
<1> QED
  BY <1>1, LeafReturnInv DEF IInv, ShapeInv

LEMMA LeafRetriesInv == ASSUME IInv, LeafRetries PROVE IInv'
<1>1. StoreOK(nodes') /\ at \in NodeId
  BY MineMarked DEF LeafRetries
<1>2. /\ pc = "watch" /\ pc' = "ensure" /\ mine' = AbsentNode
      /\ UNCHANGED <<then, target, wave, impact, doing, at, caller>>
  BY DEF LeafRetries, Goto
<1>3. Aside /\ Aside' /\ HasStatus(mine') /\ then' \in {"descend", "ensure", "settle", "return"}
  BY <1>2 DEF Aside, HasStatus, AbsentNode, IInv, ShapeInv
<1> QED
  BY <1>1, <1>2, <1>3, AsideRests

-----------------------------------------------------------------------------
\* The end of the wave.

LEMMA ValidateInv == ASSUME IInv, Validate PROVE IInv'
<1>1. /\ Busy = {} /\ pc' \in {"report", "reject claims"}
      /\ UNCHANGED <<nodes, wave, impact, nested, then, target>>
  BY DEF Validate, Goto
<1>2. ShapeInv'
  BY <1>1, ShapeRests DEF IInv, ShapeInv, wave, nested
<1>3. SlackInv'
  BY <1>1, BusyRests, SlackOfNone DEF wave
<1>4. PlaceInv'
  BY <1>1 DEF IInv, PlaceInv, Before, Aside, wave, impact
<1> QED
  BY <1>2, <1>3, <1>4 DEF IInv

LEMMA HeadAndTail ==
  ASSUME NEW S, NEW q \in Seq(S), q # <<>>
  PROVE  Head(q) \in S /\ Tail(q) \in Seq(S)
OBVIOUS

\* The first of the claims is one.
LEMMA FirstClaim ==
  ASSUME ShapeInv, completed # <<>>
  PROVE  /\ Head(completed).task \in Task /\ Head(completed).at \in NodeId
         /\ HasStatus(nodes[Head(completed).task][Head(completed).at])
         /\ Tail(completed) \in Seq([task : Child, at : NodeId])
<1>1. completed \in Seq([task : Child, at : NodeId])
  BY DEF ShapeInv
<1>2. Head(completed) \in [task : Child, at : NodeId] /\ Tail(completed) \in Seq([task : Child, at : NodeId])
  BY <1>1, HeadAndTail
<1>3. Head(completed).task \in Task /\ Head(completed).at \in NodeId
  BY <1>2 DEF Task
<1> QED
  BY <1>2, <1>3 DEF ShapeInv, StoreOK, RowOK

\* One claim less.
LEMMA ClaimGoes ==
  ASSUME IInv, completed # <<>>, StoreOK(nodes'), completed' = Tail(completed),
         UNCHANGED <<then, target, parentNode, members, remaining, active, impact, nested>>,
         Ending', pc # "wave"
  PROVE  IInv'
<1>1. ShapeInv'
  BY FirstClaim DEF IInv, ShapeInv, nested
<1> QED
  BY <1>1, EndingInv DEF impact

LEMMA RejectClaimsInv == ASSUME IInv, RejectClaims PROVE IInv'
<1>1. CASE completed = <<>>
  BY <1>1, MarkParentOK, FinishInv DEF RejectClaims, IInv
<1>2. CASE completed # <<>>
  <2> DEFINE c == Head(completed).task
             n == Head(completed).at
  <2>1. CASE Finish("rejected") /\ UNCHANGED nodes
    BY <2>1, FinishInv DEF IInv, ShapeInv
  <2>2. CASE /\ MarkNode(c, n, nodes[c][n], "failed", nodes[c][n].retry, None)
             /\ completed' = Tail(completed) /\ Goto("reject claims")
             /\ UNCHANGED <<parentNode, members, remaining, active, impact, nested, outcome>>
    <3>1. StoreOK(nodes')
      BY <1>2, <2>2, FirstClaim, MarkNodeOK DEF IInv, ShapeInv
    <3>2. Ending' /\ pc = "reject claims" /\ UNCHANGED <<then, target>>
      BY <2>2 DEF Ending, Goto, RejectClaims
    <3> QED
      BY <1>2, <2>2, <3>1, <3>2, ClaimGoes
  <2> QED
    BY <1>2, <2>1, <2>2 DEF RejectClaims
<1> QED
  BY <1>1, <1>2

LEMMA ReportInv == ASSUME IInv, Report PROVE IInv'
<1>0. pc = "report"
  BY DEF Report
<1>1. CASE /\ MarkParent("done") /\ Goto("report parent")
           /\ UNCHANGED <<wave, impact, nested>>
  <2>1. StoreOK(nodes') /\ pc' = "report parent" /\ UNCHANGED <<then, target>>
    BY <1>1, MarkParentOK DEF IInv, Goto
  <2>2. ShapeInv'
    BY <1>1, <2>1, ShapeRests DEF IInv, ShapeInv, wave, nested
  <2> QED
    BY <1>0, <1>1, <2>1, <2>2, EndingInv DEF Ending, wave, impact
<1>2. CASE Finish("rejected") /\ UNCHANGED nodes
  BY <1>2, FinishInv DEF IInv, ShapeInv
<1>3. CASE /\ completed # <<>> /\ completed' = Tail(completed) /\ Goto("report")
           /\ UNCHANGED <<nodes, parentNode, members, remaining, active, impact, nested>>
  <2>1. Ending' /\ UNCHANGED <<then, target>>
    BY <1>3 DEF Ending, Goto
  <2> QED
    BY <1>0, <1>3, <2>1, ClaimGoes DEF IInv, ShapeInv
<1> QED
  BY <1>1, <1>2, <1>3 DEF Report

LEMMA ReportParentInv == ASSUME IInv, ReportParent PROVE IInv'
<1>0. UNCHANGED nodes /\ pc = "report parent" /\ StoreOK(nodes')
  BY DEF ReportParent, IInv, ShapeInv
<1>1. CASE Finish("rejected")
  BY <1>0, <1>1, FinishInv
<1>2. CASE Reconcile("return") /\ UNCHANGED <<wave, impact, nested>>
  BY <1>0, <1>2, OutInv
<1> QED
  BY <1>1, <1>2 DEF ReportParent

LEMMA ReturnOutcomeInv == ASSUME IInv, ReturnOutcome PROVE IInv'
BY FinishInv DEF ReturnOutcome, IInv, ShapeInv

-----------------------------------------------------------------------------
\* The environment.

LEMMA CrashInv == ASSUME IInv, Crash PROVE IInv'
<1>1. StoreOK(nodes') /\ target' \in Task
  BY DEF Crash, IInv, ShapeInv
<1> QED
  BY <1>1, NothingLeft DEF Crash

LEMMA QuietInv ==
  ASSUME IInv, UNCHANGED <<nodes, pc, then, target, wave, impact, nested>>
  PROVE  IInv'
<1>1. UNCHANGED <<parentNode, members, remaining, active, completed, affected, quiesced,
                  doing, at, mine, caller>>
  BY DEF wave, impact, nested
<1>2. ShapeInv'
  BY <1>1, ShapeRests DEF IInv, ShapeInv
<1>3. SlackInv'
  BY <1>1, SlackRests DEF IInv
<1>4. PlaceInv'
  BY <1>1, PlacedRests, CleanRests, BusyRests DEF IInv, PlaceInv, Before, Aside
<1> QED
  BY <1>2, <1>3, <1>4 DEF IInv

LEMMA NextInv == IInv /\ [Next]_vars => IInv'
<1> SUFFICES ASSUME IInv, [Next]_vars PROVE IInv'
  OBVIOUS
<1>1. CASE \E t \in Task : Edit(t)
  <2>1. UNCHANGED <<nodes, pc, then, target, wave, impact, nested>>
    BY <1>1 DEF Edit
  <2> QED
    BY <2>1, QuietInv
<1>2. CASE Restart \/ UNCHANGED vars
  <2>1. UNCHANGED <<nodes, pc, then, target, wave, impact, nested>>
    BY <1>2 DEF Restart, vars
  <2> QED
    BY <2>1, QuietInv
<1>3. CASE Work
  BY <1>3, CheckpointInv, CheckpointRejectedInv, DescendInv, MarkParentActiveInv, FillInv,
     ReadRejectedInv, WorkerDoneInv, ReworkInv, FailChildInv, WorkerAsksInv, EscalateInv,
     BubbleInv, ShareContextInv, QuiesceInv, ResolveConflictInv, DecideHumanInv,
     DecideFollowUpInv, DecidePatchInv, DecideRejectedInv, SettleInv, StartLeafInv,
     LeafDoneInv, LeafAsksInv, LeafRetriesInv, LeafFailsInv, ValidateInv, RejectClaimsInv,
     ReportInv, ReportParentInv, ReturnOutcomeInv
  DEF Work
<1> QED
  BY <1>1, <1>2, <1>3, RunInv, PauseInv, LeafPausesInv, CrashInv DEF Next

-----------------------------------------------------------------------------
\* The theorems.

\* Whatever workers return, people edit and kills interrupt: every child of the
\* wave is in one place, and who leaves the main loop has a worker less.
THEOREM Invariant == Spec => []IInv
BY InitInv, NextInv, PTL DEF Spec

\* No child is lost between the queue, the workers, the claims, the siblings
\* stopped for a conflict and the one dealt with apart, and none is in two of
\* them (executeChildWave, quiesceAffectedSiblings, handleRoutedAction).
THEOREM ChildrenAreKept == Spec => []NoChildIsLost
<1>1. ASSUME IInv PROVE NoChildIsLost
  <2>1. SUFFICES ASSUME pc \in {"wave", "soft", "hard", "decide", "ensure", "watch", "settle"},
                        members # {}
                 PROVE  Placed
    BY DEF NoChildIsLost, Placed, Apart
  <2> QED
    BY <1>1, <2>1 DEF IInv, PlaceInv, Aside, Clean
<1> QED
  BY <1>1, Invariant, PTL

\* However waves, reworks, conflicts and decisions follow each other, never more
\* than maxConcurrency workers are at work, the one dealt with apart included.
THEOREM WorkersAreBounded == Spec => []ConcurrencyIsBounded
<1>1. ASSUME IInv PROVE ConcurrencyIsBounded
  <2>1. IsFiniteSet(Busy) /\ Cardinality(Busy) <= MaxConcurrency
        /\ (pc # "wave" => Cardinality(Busy) < MaxConcurrency)
    BY <1>1 DEF IInv, SlackInv
  <2>2. Cardinality(Busy) \in Nat
    BY <2>1, FS_CardinalityType
  <2> QED
    BY <2>1, <2>2, WaveAssumption DEF ConcurrencyIsBounded
<1> QED
  BY <1>1, Invariant, PTL

-----------------------------------------------------------------------------
\* What is known of the store, the WorkSource and the workers as long as
\* nobody edits the plan.

\* A plan of finitely many tasks, and a transport that never gives a session
\* id twice: there is always another one.
EndlessSessions == IsFiniteSet(Child) /\ ~ IsFiniteSet(Session)

\* A node of the one definition every task has, in the store or captured.
Known(node) ==
  /\ {"status", "session", "def"} \subseteq DOMAIN node
  /\ node.def \in {None, FirstDefinition}
  /\ node.status = "absent" => node.session = None

\* The only node a task has.
TheNode(t) == nodes[t][DefaultId]

PlanInv ==
  /\ Fcn(ws, Task)
  /\ \A t \in Task : /\ {"status", "def"} \subseteq DOMAIN ws[t]
                     /\ ws[t].def = FirstDefinition

OneNode ==
  \A t \in Task :
    /\ Known(TheNode(t))
    /\ \A n \in NodeId \ {DefaultId} : nodes[t][n].status = "absent"

\* Two tasks never share a session.
OwnSessions ==
  \A t, u \in Task :
    t # u /\ ~ Retired(TheNode(t)) /\ ~ Retired(TheNode(u)) =>
      TheNode(t).session = None \/ TheNode(t).session # TheNode(u).session

\* What a run has captured.
HeldInv ==
  /\ parentNode.at = DefaultId /\ Known(parentNode.node)
  /\ \A c \in Child : active[c].at = DefaultId /\ Known(active[c].node)
  /\ at = DefaultId /\ Known(mine)
  /\ \A i \in DOMAIN completed : completed[i].at = DefaultId

\* Between the rejection of a wave and the next checkpoint.
Rejected == pc \in {"idle", "reject claims"} \/ (pc = "checkpoint" /\ then = "descend")

\* A child whose follow-up closed it may be failed by the parent's validation;
\* the checkpoint that comes next makes its node done again.
ChildInv ==
  \A c \in Child :
    /\ ws[c].status = "missing" => TheNode(c).status = "absent"
    /\ TheNode(c).status \notin {"cancelled", "superseded"}
    /\ ws[c].status = "done" =>
         \/ TheNode(c).status = "done"
         \/ Planned # Child /\ TheNode(c).status = "failed" /\ Rejected

\* The workers of the wave are those on disk.
BusyInv ==
  \A c \in Busy :
    /\ TheNode(c).status = "running" /\ TheNode(c).session = active[c].node.session
    /\ active[c].node.session \in live \ {None}
    /\ ws[c].status = "active"

\* So is the one by itself.
AloneInv ==
  /\ pc = "watch" => /\ ws[doing].status = "active" /\ TheNode(doing).status = "running"
                     /\ mine = TheNode(doing)
  /\ pc = "ensure" \/ (pc = "checkpoint" /\ then = "ensure") => ws[doing].status # "missing"
  /\ (pc = "settle" \/ (pc = "checkpoint" /\ then = "settle")) /\ outcome = "done" =>
       TheNode(doing).status = "done"

\* Before a wave is reported none of its children is.
Unreported ==
  \/ pc \in {"mark active", "wave", "soft", "hard", "decide", "ensure", "watch", "settle",
             "reject claims"}
  \/ pc = "checkpoint" /\ then \in {"ensure", "settle"}

ClaimInv ==
  /\ pc # "reject claims" => \A c \in Claimed : TheNode(c).status = "done"
  /\ Planned = Child /\ Unreported => \A c \in members : ws[c].status # "done"
  /\ pc \in {"report", "reject claims", "report parent"} => Busy = {}
  /\ pc \in {"report", "reject claims"} => Claimed \subseteq members
  /\ pc = "report" => \A c \in members : c \in Claimed \/ ws[c].status = "done"
  /\ pc = "report parent" => \A c \in members : ws[c].status = "done"

StoreInv == PlanInv /\ OneNode /\ OwnSessions /\ IsFiniteSet(live)
QuietStore == StoreInv /\ HeldInv /\ ChildInv /\ BusyInv /\ AloneInv /\ ClaimInv

Undisturbed == edits \in Nat /\ (edits = 0 => QuietStore)

-----------------------------------------------------------------------------
\* One write to the node of one task.

\* What is the case for all other tasks.
Elsewhere(t) == \A u \in Task \ {t} : nodes'[u] = nodes[u]

\* The row of a task has one node that may be active, the default one.
LEMMA NodeThere ==
  ASSUME IInv, OneNode, NEW t \in Task
  PROVE  /\ Known(TheNode(t)) /\ RowOK(nodes[t]) /\ DefaultId \in NodeId
         /\ Active(nodes[t]) = IF Retired(TheNode(t)) THEN {} ELSE {DefaultId}
<1>1. RowOK(nodes[t]) /\ DefaultId \in NodeId
  BY DEF IInv, ShapeInv, StoreOK, NodeId
<1>2. \A n \in NodeId \ {DefaultId} : Retired(nodes[t][n])
  BY DEF OneNode, Retired
<1> QED
  BY <1>1, <1>2 DEF OneNode, Active, TheNode

\* A row whose default node is replaced.
LEMMA RowReplaced ==
  ASSUME IInv, OneNode, NEW t \in Task, NEW node, Known(node),
         nodes' = [nodes EXCEPT ![t] = [nodes[t] EXCEPT ![DefaultId] = node]]
  PROVE  /\ OneNode' /\ Elsewhere(t) /\ nodes'[t][DefaultId] = node
<1>1. StoreOK(nodes) /\ RowOK(nodes[t]) /\ DefaultId \in NodeId
  BY NodeThere DEF IInv, ShapeInv
<1>2. nodes'[t] = [nodes[t] EXCEPT ![DefaultId] = node] /\ Elsewhere(t)
  BY <1>1 DEF StoreOK, Fcn, Elsewhere
<1>3. /\ nodes'[t][DefaultId] = node
      /\ \A n \in NodeId \ {DefaultId} : nodes'[t][n] = nodes[t][n]
  BY <1>1, <1>2 DEF RowOK, Fcn
<1>4. OneNode'
  <2> SUFFICES ASSUME NEW u \in Task
               PROVE  /\ Known(nodes'[u][DefaultId])
                      /\ \A n \in NodeId \ {DefaultId} : nodes'[u][n].status = "absent"
    BY DEF OneNode, TheNode
  <2>1. CASE u = t
    BY <1>3, <2>1 DEF OneNode
  <2>2. CASE u # t
    BY <1>2, <2>2 DEF OneNode, TheNode, Elsewhere
  <2> QED
    BY <2>1, <2>2
<1> QED
  BY <1>2, <1>3, <1>4

\* markNodeState writes the captured node back with another status and session.
LEMMA MarkPuts ==
  ASSUME IInv, OneNode, NEW t \in Task, NEW captured, Known(captured),
         NEW status, status # "absent", NEW retry, NEW session,
         MarkNode(t, DefaultId, captured, status, retry, session)
  PROVE  /\ OneNode' /\ Elsewhere(t)
         /\ nodes'[t][DefaultId].status = status /\ nodes'[t][DefaultId].session = session
<1> DEFINE marked == [captured EXCEPT !.status = status, !.retry = retry,
                        !.session = session, !.resumable = session # None]
           node == [marked EXCEPT !.work = nodes[t][DefaultId].work]
<1>1. Known(marked) /\ marked.status = status /\ marked.session = session
  BY DEF Known
<1> HIDE DEF marked
<1>2. Known(node) /\ node.status = status /\ node.session = session
  BY <1>1 DEF Known
<1>3. nodes' = [nodes EXCEPT ![t] = [nodes[t] EXCEPT ![DefaultId] = node]]
  BY DEF MarkNode, Marked, Upserted, marked
<1> HIDE DEF node
<1> QED
  BY <1>2, <1>3, RowReplaced

\* Sessions stay apart when the node that is written has none, or its own, or
\* one that no other task has.
LEMMA SessionsApart ==
  ASSUME OwnSessions, NEW t \in Task, Elsewhere(t),
         \/ Retired(nodes'[t][DefaultId]) \/ nodes'[t][DefaultId].session = None
         \/ ~ Retired(TheNode(t)) /\ nodes'[t][DefaultId].session = TheNode(t).session
         \/ \A u \in Task \ {t} : ~ Retired(TheNode(u)) =>
              TheNode(u).session # nodes'[t][DefaultId].session
  PROVE  OwnSessions'
<1> SUFFICES ASSUME NEW u \in Task, NEW v \in Task, u # v,
                    ~ Retired(nodes'[u][DefaultId]), ~ Retired(nodes'[v][DefaultId])
             PROVE  \/ nodes'[u][DefaultId].session = None
                    \/ nodes'[u][DefaultId].session # nodes'[v][DefaultId].session
  BY DEF OwnSessions, TheNode
<1>1. CASE u # t /\ v # t
  BY <1>1 DEF OwnSessions, TheNode, Elsewhere
<1>2. CASE u = t
  <2>1. v # t /\ nodes'[v][DefaultId] = TheNode(v)
    BY <1>2 DEF Elsewhere, TheNode
  <2> QED
    BY <1>2, <2>1 DEF OwnSessions
<1>3. CASE v = t
  <2>1. u # t /\ nodes'[u][DefaultId] = TheNode(u)
    BY <1>3 DEF Elsewhere, TheNode
  <2> QED
    BY <1>3, <2>1 DEF OwnSessions
<1> QED
  BY <1>1, <1>2, <1>3

-----------------------------------------------------------------------------
\* A session that nobody has.

\* The values of a function are no more than its arguments.
LEMMA ImageIsFinite ==
  ASSUME NEW f, IsFiniteSet(DOMAIN f) PROVE IsFiniteSet({f[x] : x \in DOMAIN f})
<1> DEFINE T == {f[x] : x \in DOMAIN f}
           g == [x \in DOMAIN f |-> f[x]]
<1>1. g \in [DOMAIN f -> T] /\ \A y \in T : \E x \in DOMAIN f : g[x] = y
  OBVIOUS
<1>2. g \in Surjection(DOMAIN f, T)
  BY <1>1 DEF Surjection
<1> QED
  BY <1>2, FS_Surjection

\* Among endlessly many session ids one is on no node and no live worker.
LEMMA FreshIsFresh ==
  ASSUME EndlessSessions, IInv, StoreInv
  PROVE  /\ FreshSession \in Session /\ FreshSession \notin live /\ FreshSession # None
         /\ \A t \in Task : ~ Retired(TheNode(t)) => TheNode(t).session # FreshSession
<1> DEFINE held == [c \in Busy |-> active[c].node.session]
           kept == [t \in Task |-> TheNode(t).session]
           A == {held[c] : c \in DOMAIN held}
           B == {kept[t] : t \in DOMAIN kept}
           C == UNION {{nodes[t][n].session : n \in Active(nodes[t])} : t \in Task}
           used == live \cup {active[c].node.session : c \in Busy} \cup C
<1>1. IsFiniteSet(Task)
  BY FS_AddElement, FS_Union, FS_Singleton DEF EndlessSessions, Task
<1>2. IsFiniteSet(Busy) /\ IsFiniteSet(live)
  BY DEF IInv, SlackInv, StoreInv
<1>3. IsFiniteSet(A) /\ IsFiniteSet(B)
  <2>1. DOMAIN held = Busy /\ DOMAIN kept = Task
    OBVIOUS
  <2> HIDE DEF held, kept
  <2> QED
    BY <1>1, <1>2, <2>1, ImageIsFinite
<1>4. C \subseteq B
  BY NodeThere DEF StoreInv, TheNode
<1>5. {active[c].node.session : c \in Busy} = A
  OBVIOUS
<1> HIDE DEF A, B, C
<1>6. IsFiniteSet(used)
  BY <1>2, <1>3, <1>4, <1>5, FS_Union, FS_Subset
<1>7. \E s \in Session : s \notin used
  <2>1. SUFFICES ASSUME Session \subseteq used PROVE FALSE
    OBVIOUS
  <2> QED
    BY <1>6, <2>1, FS_Subset DEF EndlessSessions
<1>8. FreshSession = CHOOSE s \in Session : s \notin used
  BY DEF FreshSession, C
<1>9. FreshSession \in Session /\ FreshSession \notin used
  BY <1>7, <1>8
<1>10. ASSUME NEW t \in Task, ~ Retired(TheNode(t)) PROVE TheNode(t).session \in used
  <2>1. TheNode(t).session \in {nodes[t][n].session : n \in Active(nodes[t])}
    BY <1>10, NodeThere DEF StoreInv, TheNode
  <2> QED
    BY <2>1 DEF C
<1> QED
  BY <1>9, <1>10, IdsAreDistinct

-----------------------------------------------------------------------------
\* A worker that is started.

\* The node a task gets when its worker is to be started.
LEMMA PendingKnown ==
  ASSUME PlanInv, NEW t \in Task
  PROVE  Known(Pending(t)) /\ Pending(t).status = "pending" /\ Pending(t).session = None
BY DEF PlanInv, Pending, AbsentNode, Known

\* The row of a task once it has a node.
LEMMA EnsuredNode ==
  ASSUME IInv, StoreInv, NEW t \in Task
  PROVE  /\ ActiveNode(Ensured(t)) = DefaultId
         /\ \E node : /\ Known(node) /\ ~ Retired(node)
                      /\ Ensured(t) = [nodes[t] EXCEPT ![DefaultId] = node]
                      /\ Ensured(t)[DefaultId] = node
                      /\ \/ ~ Retired(TheNode(t)) /\ node = TheNode(t)
                         \/ /\ Retired(TheNode(t))
                            /\ node.status = "pending" /\ node.session = None
<1> DEFINE fresh == [Pending(t) EXCEPT !.work = nodes[t][DefaultId].work]
<1>1. Known(fresh) /\ fresh.status = "pending" /\ fresh.session = None
  BY PendingKnown DEF StoreInv, Known
<1>2. RowOK(nodes[t]) /\ DefaultId \in NodeId
  BY NodeThere DEF StoreInv
<1>3. CASE Retired(TheNode(t))
  <2>1. Active(nodes[t]) = {}
    BY <1>3, NodeThere DEF StoreInv
  <2>2. Ensured(t) = [nodes[t] EXCEPT ![DefaultId] = fresh]
    BY <2>1 DEF Ensured, Upserted
  <2> HIDE DEF fresh
  <2>3. Ensured(t)[DefaultId] = fresh /\ ~ Retired(fresh)
    BY <1>1, <1>2, <2>2 DEF RowOK, Fcn, Retired
  <2>4. DefaultId \in Active(Ensured(t))
    BY <1>2, <2>3 DEF Active
  <2> QED
    BY <1>1, <1>3, <2>2, <2>3, <2>4 DEF ActiveNode
<1>4. CASE ~ Retired(TheNode(t))
  <2>1. Active(nodes[t]) = {DefaultId} /\ Known(TheNode(t))
    BY <1>4, NodeThere DEF StoreInv
  <2>2. Ensured(t) = nodes[t]
    BY <2>1 DEF Ensured
  <2>3. nodes[t] = [nodes[t] EXCEPT ![DefaultId] = TheNode(t)]
    BY <1>2 DEF RowOK, Fcn, TheNode
  <2>4. ActiveNode(Ensured(t)) = DefaultId /\ Ensured(t)[DefaultId] = TheNode(t)
    BY <2>1, <2>2 DEF ActiveNode, TheNode
  <2> QED
    BY <1>4, <2>1, <2>2, <2>3, <2>4
<1> QED
  BY <1>3, <1>4

\* A status written to the WorkSource changes one task and no definition.
LEMMA PlanWrites ==
  ASSUME PlanInv, NEW t \in Task, NEW status, Write(t, status)
  PROVE  /\ PlanInv' /\ ws'[t].status = status
         /\ \A u \in Task \ {t} : ws'[u] = ws[u]
BY DEF PlanInv, Write, Written, Fcn

\* startWorker: the worker's node is running, its session is live and its task active.
LEMMA WorkerStarts ==
  ASSUME EndlessSessions, IInv, StoreInv, NEW t \in Task, StartWorker(t)
  PROVE  /\ StoreInv' /\ Elsewhere(t)
         /\ nodes'[t][DefaultId].status = "running" /\ nodes'[t][DefaultId].session \in live'
         /\ nodes'[t][DefaultId].session # None /\ live \subseteq live'
         /\ StartedWorker(t) = [at |-> DefaultId, node |-> nodes'[t][DefaultId]]
         /\ Known(nodes'[t][DefaultId])
         /\ ws'[t].status = "active" /\ \A u \in Task \ {t} : ws'[u] = ws[u]
<1> DEFINE kept == Ensured(t)
           n == ActiveNode(kept)
           session == IF kept[n].session # None THEN kept[n].session ELSE FreshSession
           running == [kept[n] EXCEPT !.status = "running", !.session = session,
                                      !.resumable = TRUE]
<1>1. n = DefaultId
  BY EnsuredNode
<1>2. PICK node : /\ Known(node) /\ ~ Retired(node)
                  /\ kept = [nodes[t] EXCEPT ![DefaultId] = node] /\ kept[DefaultId] = node
                  /\ \/ ~ Retired(TheNode(t)) /\ node = TheNode(t)
                     \/ /\ Retired(TheNode(t))
                        /\ node.status = "pending" /\ node.session = None
  BY EnsuredNode
<1>3. /\ nodes' = [nodes EXCEPT ![t] = [kept EXCEPT ![n] = running]]
      /\ live' = live \cup {session} /\ Write(t, "active")
  BY DEF StartWorker
<1>4. running = [node EXCEPT !.status = "running", !.session = session, !.resumable = TRUE]
  BY <1>1, <1>2
<1>5. Known(running) /\ running.status = "running" /\ running.session = session
  BY <1>2, <1>4 DEF Known
<1>6. [kept EXCEPT ![n] = running] = [nodes[t] EXCEPT ![DefaultId] = running]
  <2>1. RowOK(nodes[t]) /\ DefaultId \in NodeId
    BY NodeThere DEF StoreInv
  <2> HIDE DEF running
  <2> QED
    BY <1>1, <1>2, <2>1 DEF RowOK, Fcn
<1>7. nodes' = [nodes EXCEPT ![t] = [nodes[t] EXCEPT ![DefaultId] = running]]
  BY <1>3, <1>6
<1>8. \/ ~ Retired(TheNode(t)) /\ session = TheNode(t).session /\ session # None
      \/ session = FreshSession
  BY <1>1, <1>2
<1> HIDE DEF running, session, n, kept
<1>9. OneNode' /\ Elsewhere(t) /\ nodes'[t][DefaultId] = running
  BY <1>5, <1>7, RowReplaced DEF StoreInv
<1>10. OwnSessions'
  BY <1>5, <1>8, <1>9, FreshIsFresh, SessionsApart DEF StoreInv
<1>11. PlanInv' /\ ws'[t].status = "active" /\ \A u \in Task \ {t} : ws'[u] = ws[u]
  BY <1>3, PlanWrites DEF StoreInv
<1>12. IsFiniteSet(live')
  BY <1>3, FS_AddElement DEF StoreInv
<1>13. ActiveNode(nodes'[t]) = DefaultId
  <2>1. ~ Retired(nodes'[t][DefaultId]) /\ DefaultId \in NodeId
    BY <1>5, <1>9 DEF Retired, NodeId
  <2> QED
    BY <2>1 DEF ActiveNode, Active
<1> QED
  BY <1>3, <1>5, <1>8, <1>9, <1>10, <1>11, <1>12, <1>13, FreshIsFresh
  DEF StoreInv, StartedWorker, StartedAt

-----------------------------------------------------------------------------
\* What stays as it is.

PlanElsewhere(t) == \A u \in Task \ {t} : ws'[u] = ws[u]

\* A node marked with no session, or the one it has, leaves sessions unshared.
LEMMA StoreMarked ==
  ASSUME IInv, StoreInv, NEW t \in Task, NEW captured, Known(captured),
         NEW status, status # "absent", NEW retry, NEW session,
         MarkNode(t, DefaultId, captured, status, retry, session),
         session = None \/ (~ Retired(TheNode(t)) /\ session = TheNode(t).session),
         PlanInv', live' \subseteq live
  PROVE  /\ StoreInv' /\ Elsewhere(t)
         /\ nodes'[t][DefaultId].status = status /\ nodes'[t][DefaultId].session = session
<1>1. /\ OneNode' /\ Elsewhere(t)
      /\ nodes'[t][DefaultId].status = status /\ nodes'[t][DefaultId].session = session
  BY MarkPuts DEF StoreInv
<1>2. OwnSessions'
  BY <1>1, SessionsApart DEF StoreInv
<1>3. IsFiniteSet(live')
  BY FS_Subset DEF StoreInv
<1> QED
  BY <1>1, <1>2, <1>3 DEF StoreInv

\* What holds of the store holds while it stays as it is.
LEMMA StoreRests ==
  ASSUME StoreInv, UNCHANGED nodes, PlanInv', live' \subseteq live PROVE StoreInv'
<1>1. IsFiniteSet(live')
  BY FS_Subset DEF StoreInv
<1> QED
  BY <1>1 DEF StoreInv, OneNode, OwnSessions, TheNode

\* What holds of the plan holds while it stays as it is.
LEMMA PlanRests == ASSUME StoreInv, UNCHANGED ws PROVE PlanInv'
BY DEF StoreInv, PlanInv

\* What a run has captured holds while it captures nothing else.
LEMMA HeldRests ==
  ASSUME HeldInv, UNCHANGED <<parentNode, active, completed, at, mine>> PROVE HeldInv'
BY DEF HeldInv

\* Of the children, at most one is changed.
LEMMA ChildrenRest ==
  ASSUME ChildInv, Rejected => Rejected', NEW t \in Task, Elsewhere(t), PlanElsewhere(t),
         t \in Child =>
           /\ ws'[t].status # "missing"
           /\ nodes'[t][DefaultId].status \notin {"cancelled", "superseded"}
           /\ ws'[t].status = "done" =>
                \/ nodes'[t][DefaultId].status = "done"
                \/ Planned # Child /\ nodes'[t][DefaultId].status = "failed" /\ Rejected'
  PROVE  ChildInv'
<1> SUFFICES ASSUME NEW c \in Child
             PROVE  /\ ws'[c].status = "missing" => nodes'[c][DefaultId].status = "absent"
                    /\ nodes'[c][DefaultId].status \notin {"cancelled", "superseded"}
                    /\ ws'[c].status = "done" =>
                         \/ nodes'[c][DefaultId].status = "done"
                         \/ Planned # Child /\ nodes'[c][DefaultId].status = "failed" /\ Rejected'
  BY DEF ChildInv, TheNode
<1>1. CASE c = t
  BY <1>1
<1>2. CASE c # t
  BY <1>2 DEF ChildInv, TheNode, Elsewhere, PlanElsewhere, Task
<1> QED
  BY <1>1, <1>2

\* What holds of the children holds while plan and store stay as they are.
LEMMA ChildrenSame ==
  ASSUME ChildInv, Rejected => Rejected', UNCHANGED <<ws, nodes>> PROVE ChildInv'
BY DEF ChildInv, TheNode

\* The workers that go on are those of before.
LEMMA WorkersRest ==
  ASSUME BusyInv, NEW t \in Task, Elsewhere(t), PlanElsewhere(t), Busy' \subseteq Busy \ {t},
         \A c \in Busy' : active'[c] = active[c] /\ active[c].node.session \in live'
  PROVE  BusyInv'
BY DEF BusyInv, TheNode, Elsewhere, PlanElsewhere, Busy, Task

\* What holds of the workers holds while none starts or ends.
LEMMA WorkersSame ==
  ASSUME BusyInv, UNCHANGED <<nodes, active>>, live \subseteq live',
         \A c \in Child : ws'[c].status = ws[c].status
  PROVE  BusyInv'
<1>1. Busy' = Busy
  BY BusyRests
<1> QED
  BY <1>1 DEF BusyInv, TheNode, Busy

\* A session that is disposed of is nobody else's.
LEMMA OthersLive ==
  ASSUME StoreInv, BusyInv, NEW t \in Task, ~ Retired(TheNode(t)),
         live' = live \ {TheNode(t).session}
  PROVE  \A c \in Busy \ {t} : active[c].node.session \in live'
<1> SUFFICES ASSUME NEW c \in Busy \ {t} PROVE active[c].node.session # TheNode(t).session
  BY DEF BusyInv
<1>1. c \in Task /\ TheNode(c).session = active[c].node.session /\ TheNode(c).session # None
  BY DEF BusyInv, Busy, Task
<1>2. ~ Retired(TheNode(c))
  BY DEF BusyInv, Retired
<1> QED
  BY <1>1, <1>2 DEF StoreInv, OwnSessions

\* A run that is over.
LEMMA QuietEnd ==
  ASSUME StoreInv', ChildInv', pc' = "idle", parentNode' = NoWorker, mine' = AbsentNode,
         active' = [c \in Child |-> NoWorker], at' = DefaultId, completed' = <<>>
  PROVE  QuietStore'
<1>1. Known(AbsentNode) /\ NoWorker = [at |-> DefaultId, node |-> AbsentNode]
  BY DEF Known, AbsentNode, NoWorker
<1>2. Busy' = {}
  BY <1>1 DEF Busy, AbsentNode
<1>3. HeldInv'
  BY <1>1 DEF HeldInv
<1>4. BusyInv' /\ AloneInv'
  BY <1>2 DEF BusyInv, AloneInv
<1>5. Claimed' = {}
  BY DEF Claimed
<1>6. ClaimInv'
  BY <1>5 DEF ClaimInv, Unreported
<1> QED
  BY <1>3, <1>4, <1>6 DEF QuietStore

\* So it is with an outcome the run returns.
LEMMA QuietFinish ==
  ASSUME StoreInv', ChildInv', NEW r, Finish(r) PROVE QuietStore'
BY QuietEnd DEF Finish

\* It ends without a change.
LEMMA QuietQuit ==
  ASSUME QuietStore, UNCHANGED <<ws, nodes>>, live' \subseteq live, NEW r, Finish(r)
  PROVE  QuietStore'
<1>1. StoreInv' 
  BY PlanRests, StoreRests DEF QuietStore
<1>2. ChildInv'
  BY ChildrenSame DEF QuietStore, Rejected, Finish
<1> QED
  BY <1>1, <1>2, QuietFinish

-----------------------------------------------------------------------------
\* The start of a run, and a checkpoint.

\* It is the case of an empty store and a plan nobody has begun.
LEMMA QuietInit == ASSUME Init PROVE Undisturbed
<1>1. Known(AbsentNode) /\ NoWorker = [at |-> DefaultId, node |-> AbsentNode]
  BY DEF Known, AbsentNode, NoWorker
<1>2. Busy = {} /\ Claimed = {}
  BY <1>1 DEF Busy, AbsentNode, Init, Claimed
<1>3. DefaultId \in NodeId /\ \A t \in Task : TheNode(t) = AbsentNode
  BY DEF NodeId, TheNode, Init
<1>4. PlanInv
  BY DEF Init, PlanInv, Fcn
<1>5. OneNode
  BY <1>1, <1>3 DEF OneNode, Init, AbsentNode
<1>6. OwnSessions
  BY <1>3 DEF OwnSessions, Retired, AbsentNode
<1>7. IsFiniteSet(live)
  BY FS_EmptySet DEF Init
<1>8. HeldInv
  BY <1>1 DEF HeldInv, Init
<1>9. ChildInv
  BY <1>3 DEF ChildInv, AbsentNode, Init, Task
<1>10. BusyInv /\ AloneInv
  BY <1>2 DEF BusyInv, AloneInv, Init
<1>11. ClaimInv
  BY <1>2 DEF ClaimInv, Unreported, Init
<1> QED
  BY <1>4, <1>5, <1>6, <1>7, <1>8, <1>9, <1>10, <1>11
  DEF Undisturbed, QuietStore, StoreInv, Init

\* A run begins with a checkpoint.
LEMMA QuietRun ==
  ASSUME IInv, QuietStore, NEW t \in Target, Run(t) PROVE QuietStore'
<1>1. /\ UNCHANGED <<ws, nodes, live, wave, impact, nested>>
      /\ pc = "idle" /\ pc' = "checkpoint" /\ then' = "descend"
  BY DEF Run
<1>2. StoreInv'
  BY <1>1, PlanRests, StoreRests DEF QuietStore
<1>3. HeldInv'
  BY <1>1, HeldRests DEF QuietStore, wave, nested
<1>4. ChildInv'
  BY <1>1, ChildrenSame DEF QuietStore, Rejected
<1>5. BusyInv' /\ AloneInv'
  BY <1>1, WorkersSame DEF QuietStore, AloneInv, wave
<1>6. ClaimInv'
  BY <1>1, ClaimedRests DEF QuietStore, ClaimInv, Unreported, TheNode, wave
<1> QED
  BY <1>2, <1>3, <1>4, <1>5, <1>6 DEF QuietStore

\* What reconciliation makes of a task: nothing is interrupted to be replaced,
\* and who runs or is done stays so.
LEMMA ReconciledNode ==
  ASSUME IInv, StoreInv, NEW t \in Task
  PROVE  LET old == TheNode(t)
             new == Reconciled(t)[DefaultId]
         IN /\ RowOK(Reconciled(t)) /\ Known(new)
            /\ \A n \in NodeId \ {DefaultId} : Reconciled(t)[n].status = "absent"
            /\ \/ Retired(new) \/ new.session = None
               \/ ~ Retired(old) /\ new.session = old.session
            /\ ws[t].status = "missing" /\ old.status = "absent" => new.status = "absent"
            /\ new.status = "cancelled" => \/ ws[t].status = "missing" /\ old.status # "absent"
                                           \/ old.status = "cancelled"
            /\ new.status = "superseded" =>
                 \/ old.status = "superseded"
                 \/ old.status = "running" /\ ws[t].status \in {"missing", "done"}
            /\ ws[t].status = "done" /\ old.status \in {"done", "failed"} => new.status = "done"
            /\ old.status = "running" /\ ws[t].status \notin {"missing", "done"} =>
                 /\ Action(ws[t], nodes[t]) # "interrupt-and-supersede"
                 /\ new.status = "running" /\ new.session = old.session
            /\ old.status = "done" /\ ws[t].status # "missing" => new.status = "done"
<1> DEFINE old == TheNode(t)
           n == ActiveNode(nodes[t])
           type == Action(ws[t], nodes[t])
           observed == [old EXCEPT !.rev = ws[t].rev, !.def = ws[t].def]
<1>1. /\ Known(old) /\ RowOK(nodes[t]) /\ DefaultId \in NodeId
      /\ Active(nodes[t]) = IF Retired(old) THEN {} ELSE {DefaultId}
      /\ \A i \in NodeId \ {DefaultId} : nodes[t][i].status = "absent"
      /\ ws[t].def = FirstDefinition /\ old.def \in {None, FirstDefinition}
  BY NodeThere DEF StoreInv, PlanInv, OneNode, Known
<1>2. RowOK(Reconciled(t))
  BY ReconciledRow DEF IInv, ShapeInv
<1>3. CASE Retired(old)
  <2>1. Active(nodes[t]) = {}
    BY <1>1, <1>3
  <2>2. CASE ws[t].status \in {"missing", "done"}
    <3>1. type = "none"
      BY <2>1, <2>2 DEF Action
    <3>2. Reconciled(t) = nodes[t]
      BY <3>1 DEF Reconciled
    <3> QED
      BY <1>1, <1>2, <1>3, <3>2 DEF TheNode, Retired
  <2>3. CASE ws[t].status \notin {"missing", "done"}
    <3> DEFINE fresh == [Pending(t) EXCEPT !.work = nodes[t][DefaultId].work]
    <3>1. type = "schedule-node"
      BY <2>1, <2>3 DEF Action
    <3>2. Reconciled(t) = [nodes[t] EXCEPT ![DefaultId] = fresh]
      BY <3>1 DEF Reconciled, Upserted
    <3>3. Known(fresh) /\ fresh.status = "pending" /\ fresh.session = None
      BY PendingKnown DEF StoreInv, Known
    <3> HIDE DEF fresh
    <3>4. Reconciled(t)[DefaultId] = fresh /\ \A i \in NodeId \ {DefaultId} : Reconciled(t)[i] = nodes[t][i]
      BY <1>1, <3>2 DEF RowOK, Fcn
    <3> QED
      BY <1>1, <1>2, <1>3, <2>3, <3>3, <3>4 DEF TheNode, Retired
  <2> QED
    BY <2>2, <2>3
<1>4. CASE ~ Retired(old)
  <2>1. n = DefaultId /\ Active(nodes[t]) # {} /\ nodes[t][n] = old
    BY <1>1, <1>4 DEF ActiveNode, TheNode
  <2>2. Known(observed) /\ observed.status = old.status /\ observed.session = old.session
    BY <1>1 DEF Known
  <2>3. CASE ws[t].status \notin {"missing", "done"}
    <3>1. type \in {"none", "refresh-observed-revision"}
      BY <1>1, <2>1, <2>3 DEF Action
    <3>2. Reconciled(t) = nodes[t] \/ Reconciled(t) = [nodes[t] EXCEPT ![DefaultId] = observed]
      BY <2>1, <3>1 DEF Reconciled, TheNode
    <3> HIDE DEF observed
    <3>3. /\ Reconciled(t)[DefaultId] \in {old, observed}
          /\ \A i \in NodeId \ {DefaultId} : Reconciled(t)[i] = nodes[t][i]
      BY <1>1, <3>2 DEF RowOK, Fcn, TheNode
    <3> QED
      BY <1>1, <1>2, <1>4, <2>2, <2>3, <3>1, <3>3 DEF Retired, Known
  <2>4. CASE ws[t].status \in {"missing", "done"} /\ old.status = "running"
    <3>1. type = "interrupt-and-supersede" /\ ~ NeedsReplacement(ws[t])
      BY <2>1, <2>4 DEF Action, InFlight, NeedsReplacement
    <3>2. Reconciled(t) = [nodes[t] EXCEPT ![DefaultId].status = "superseded", ![DefaultId].work = TRUE]
      BY <2>1, <3>1 DEF Reconciled
    <3> DEFINE gone == [[old EXCEPT !.status = "superseded"] EXCEPT !.work = TRUE]
    <3>3. Known(gone) /\ gone.status = "superseded"
      BY <1>1 DEF Known
    <3>4. /\ Reconciled(t)[DefaultId] = gone
          /\ \A i \in NodeId \ {DefaultId} : Reconciled(t)[i] = nodes[t][i]
      BY <1>1, <3>2 DEF RowOK, Fcn, TheNode
    <3> HIDE DEF gone
    <3> QED
      BY <1>1, <1>2, <1>4, <2>4, <3>3, <3>4 DEF Retired
  <2>5. CASE ws[t].status = "missing" /\ old.status # "running"
    <3>1. type = "cancel-node"
      BY <2>1, <2>5 DEF Action, InFlight
    <3>2. Reconciled(t) = [nodes[t] EXCEPT ![DefaultId].status = "cancelled"]
      BY <2>1, <3>1 DEF Reconciled
    <3> DEFINE gone == [old EXCEPT !.status = "cancelled"]
    <3>3. Known(gone) /\ gone.status = "cancelled"
      BY <1>1 DEF Known
    <3>4. /\ Reconciled(t)[DefaultId] = gone
          /\ \A i \in NodeId \ {DefaultId} : Reconciled(t)[i] = nodes[t][i]
      BY <1>1, <3>2 DEF RowOK, Fcn, TheNode
    <3> HIDE DEF gone
    <3> QED
      BY <1>1, <1>2, <1>4, <2>5, <3>3, <3>4 DEF Retired
  <2>6. CASE ws[t].status = "done" /\ old.status # "running"
    <3>1. type = IF old.status = "done" THEN "none" ELSE "drop-from-queue"
      BY <2>1, <2>6 DEF Action, InFlight
    <3> DEFINE dropped == [observed EXCEPT !.status = "done"]
    <3>2. Known(dropped) /\ dropped.status = "done" /\ dropped.session = old.session
      BY <2>2 DEF Known
    <3>3. \/ old.status = "done" /\ Reconciled(t) = nodes[t]
          \/ Reconciled(t) = [nodes[t] EXCEPT ![DefaultId] = dropped]
      BY <2>1, <3>1 DEF Reconciled, TheNode
    <3> HIDE DEF dropped, observed
    <3>4. /\ (old.status = "done" /\ Reconciled(t)[DefaultId] = old) \/ Reconciled(t)[DefaultId] = dropped
          /\ \A i \in NodeId \ {DefaultId} : Reconciled(t)[i] = nodes[t][i]
      BY <1>1, <3>3 DEF RowOK, Fcn, TheNode
    <3> QED
      BY <1>1, <1>2, <1>4, <2>6, <3>2, <3>4 DEF Retired
  <2> QED
    BY <2>3, <2>4, <2>5, <2>6
<1> QED
  BY <1>3, <1>4

\* The plan of a checkpoint, or the part of it that is carried out.
LEMMA QuietApply ==
  ASSUME IInv, QuietStore, NEW S \in SUBSET Task, Apply(S), UNCHANGED ws
  PROVE  /\ StoreInv'
         /\ \A c \in Child : TheNode(c).status = "done" => nodes'[c][DefaultId].status = "done"
         /\ pc' = "idle" \/ S = Task => ChildInv'
         /\ UNCHANGED active => BusyInv'
<1>1. \A t \in Task : nodes'[t] = IF t \in S THEN Reconciled(t) ELSE nodes[t]
  BY DEF Apply
<1>2. ASSUME NEW t \in Task
      PROVE  /\ Known(nodes'[t][DefaultId])
             /\ \A n \in NodeId \ {DefaultId} : nodes'[t][n].status = "absent"
             /\ \/ Retired(nodes'[t][DefaultId]) \/ nodes'[t][DefaultId].session = None
                \/ /\ ~ Retired(TheNode(t))
                   /\ nodes'[t][DefaultId].session = TheNode(t).session
  <2>1. CASE t \in S
    BY <1>1, <2>1, ReconciledNode DEF QuietStore
  <2>2. CASE t \notin S
    BY <1>1, <2>2 DEF QuietStore, StoreInv, OneNode, TheNode
  <2> QED
    BY <2>1, <2>2
<1>3. OneNode'
  BY <1>2 DEF OneNode, TheNode
<1>4. OwnSessions'
  <2> SUFFICES ASSUME NEW t \in Task, NEW u \in Task, t # u,
                      ~ Retired(nodes'[t][DefaultId]), ~ Retired(nodes'[u][DefaultId])
               PROVE  \/ nodes'[t][DefaultId].session = None
                      \/ nodes'[t][DefaultId].session # nodes'[u][DefaultId].session
    BY DEF OwnSessions, TheNode
  <2> QED
    BY <1>2 DEF QuietStore, StoreInv, OwnSessions
<1>5. IsFiniteSet(live')
  <2>1. live' \in SUBSET live
    BY DEF Apply
  <2> QED
    BY <2>1, FS_Subset DEF QuietStore, StoreInv
<1>6. StoreInv'
  BY <1>3, <1>4, <1>5, PlanRests DEF QuietStore, StoreInv
<1>7. ASSUME NEW c \in Child
      PROVE  /\ TheNode(c).status = "done" => nodes'[c][DefaultId].status = "done"
             /\ ws[c].status = "missing" => nodes'[c][DefaultId].status = "absent"
             /\ nodes'[c][DefaultId].status \notin {"cancelled", "superseded"}
             /\ ws[c].status = "done" /\ c \in S => nodes'[c][DefaultId].status = "done"
  <2>1. /\ c \in Task
        /\ ws[c].status = "missing" => TheNode(c).status = "absent"
        /\ TheNode(c).status \notin {"cancelled", "superseded"}
        /\ ws[c].status = "done" => TheNode(c).status \in {"done", "failed"}
    BY DEF QuietStore, ChildInv, Task
  <2>2. CASE c \in S
    BY <1>1, <2>1, <2>2, ReconciledNode DEF QuietStore
  <2>3. CASE c \notin S
    BY <1>1, <2>1, <2>3 DEF TheNode
  <2> QED
    BY <2>2, <2>3
<1>8. ASSUME pc' = "idle" \/ S = Task PROVE ChildInv'
  <2> SUFFICES ASSUME NEW c \in Child
               PROVE  ws[c].status = "done" =>
                        \/ nodes'[c][DefaultId].status = "done"
                        \/ Planned # Child /\ nodes'[c][DefaultId].status = "failed" /\ Rejected'
    BY <1>7 DEF ChildInv, TheNode
  <2>1. CASE c \in S
    BY <1>7, <2>1
  <2>2. CASE c \notin S
    <3>1. Rejected' /\ nodes'[c] = nodes[c]
      BY <1>1, <1>8, <2>2 DEF Rejected, Task
    <3> QED
      BY <3>1 DEF QuietStore, ChildInv, TheNode
  <2> QED
    BY <2>1, <2>2
<1>9. ASSUME UNCHANGED active PROVE BusyInv'
  <2>1. Busy' = Busy
    BY <1>9, BusyRests
  <2> SUFFICES ASSUME NEW c \in Busy
               PROVE  /\ nodes'[c][DefaultId].status = "running"
                      /\ nodes'[c][DefaultId].session = active[c].node.session
                      /\ active[c].node.session \in live' \ {None}
                      /\ ws[c].status = "active"
    BY <1>9, <2>1 DEF BusyInv, TheNode
  <2>2. /\ c \in Task /\ TheNode(c).status = "running" /\ ws[c].status = "active"
        /\ TheNode(c).session = active[c].node.session
        /\ active[c].node.session \in live \ {None}
    BY DEF QuietStore, BusyInv, Busy, Task
  <2>3. /\ Action(ws[c], nodes[c]) # "interrupt-and-supersede"
        /\ nodes'[c][DefaultId].status = "running"
        /\ nodes'[c][DefaultId].session = active[c].node.session
    <3>1. /\ Action(ws[c], nodes[c]) # "interrupt-and-supersede"
          /\ Reconciled(c)[DefaultId].status = "running"
          /\ Reconciled(c)[DefaultId].session = TheNode(c).session
      BY <2>2, ReconciledNode DEF QuietStore
    <3> QED
      BY <1>1, <2>2, <3>1 DEF TheNode
  <2>4. ASSUME NEW t \in ToInterrupt(S), t \in Task PROVE SessionOf(t) # active[c].node.session
    <3>1. Action(ws[t], nodes[t]) = "interrupt-and-supersede"
      BY <2>4 DEF ToInterrupt
    <3>2. t # c /\ Active(nodes[t]) # {}
      BY <2>3, <3>1 DEF Action
    <3>3. ~ Retired(TheNode(t)) /\ SessionOf(t) = TheNode(t).session
      BY <2>4, <3>2, NodeThere DEF QuietStore, StoreInv, SessionOf, ActiveNode, TheNode
    <3>4. ~ Retired(TheNode(c)) /\ TheNode(c).session # None
      BY <2>2 DEF Retired
    <3> QED
      BY <2>2, <2>4, <3>2, <3>3, <3>4 DEF QuietStore, StoreInv, OwnSessions
  <2>5. \A t \in ToInterrupt(S) : t \in Task
    BY DEF ToInterrupt
  <2> QED
    BY <2>2, <2>3, <2>4, <2>5 DEF Apply
<1> QED
  BY <1>6, <1>7, <1>8, <1>9

\* What is in a sequence over a set is of that set.
LEMMA Elements == ASSUME NEW S, NEW q \in Seq(S) PROVE \A i \in DOMAIN q : q[i] \in S
OBVIOUS

\* Only children are claimed.
LEMMA ClaimsOfChildren == ASSUME IInv PROVE Claimed \subseteq Child
<1>1. completed \in Seq([task : Child, at : NodeId])
  BY DEF IInv, ShapeInv
<1>2. \A i \in DOMAIN completed : completed[i] \in [task : Child, at : NodeId]
  BY <1>1, Elements
<1> QED
  BY <1>2 DEF Claimed

\* A child of the wave that is dealt with apart.
LEMMA SetAside ==
  ASSUME IInv, Aside, caller # "root" \/ pc \notin {"ensure", "watch"}
  PROVE  /\ caller # "root" /\ doing \in members /\ members \subseteq Child
         /\ doing \in Child /\ doing \in Task
         /\ doing \notin Busy /\ doing \notin Claimed
<1>1. /\ caller # "root" /\ Placed /\ members \subseteq Child /\ quiesced \subseteq members
      /\ doing \in members \/ doing \in quiesced
  BY DEF IInv, PlaceInv
<1>2. doing # Parent /\ doing \in Child
  BY <1>1, WaveAssumption DEF Parent
<1>3. doing \in Apart
  BY <1>2 DEF Apart
<1> QED
  BY <1>1, <1>2, <1>3 DEF Placed, Task

\* The checkpoint makes done what the WorkSource has as done.
LEMMA QuietCheckpoint == ASSUME IInv, QuietStore, Checkpoint PROVE QuietStore'
<1>1. /\ UNCHANGED <<ws, wave, impact, nested, then, outcome>> /\ Apply(Task)
      /\ pc = "checkpoint" /\ pc' = then /\ then \in {"descend", "ensure", "settle", "return"}
  BY DEF Checkpoint, Goto, IInv, ShapeInv
<1>2. /\ StoreInv' /\ ChildInv' /\ BusyInv'
      /\ \A c \in Child : TheNode(c).status = "done" => nodes'[c][DefaultId].status = "done"
  BY <1>1, QuietApply DEF wave
<1>3. HeldInv'
  BY <1>1, HeldRests DEF QuietStore, wave, nested
<1>4. AloneInv'
  <2>1. then = "settle" => doing \in Child
    BY <1>1, SetAside DEF Aside
  <2> QED
    BY <1>1, <1>2, <2>1 DEF QuietStore, AloneInv, nested, TheNode
<1>5. Claimed' = Claimed /\ Claimed \subseteq Child /\ members' = members
  BY <1>1, ClaimedRests, ClaimsOfChildren DEF wave
<1>6. ClaimInv'
  BY <1>1, <1>2, <1>5 DEF QuietStore, ClaimInv, Unreported, TheNode
<1> QED
  BY <1>2, <1>3, <1>4, <1>6 DEF QuietStore

\* A rejected checkpoint has written nothing that is not so.
LEMMA QuietCheckpointRejected ==
  ASSUME IInv, QuietStore, CheckpointRejected PROVE QuietStore'
<1>1. UNCHANGED ws /\ Finish("rejected") /\ pc' = "idle"
  BY DEF CheckpointRejected, Finish
<1>2. CASE UNCHANGED <<nodes, live>>
  BY <1>1, <1>2, QuietQuit
<1>3. CASE \E S \in SUBSET (Task \ Unreachable) : Apply(S)
  <2>1. StoreInv' /\ ChildInv'
    BY <1>1, <1>3, QuietApply
  <2> QED
    BY <1>1, <2>1, QuietFinish
<1> QED
  BY <1>2, <1>3 DEF CheckpointRejected

-----------------------------------------------------------------------------
\* Into the wave.

\* The parent is none of its children.
LEMMA ParentApart == Parent \in Task /\ Parent \notin Child /\ Child \subseteq Task
BY WaveAssumption DEF Parent, Task

\* The parent is marked, with what was captured of its node.
LEMMA ParentMarked ==
  ASSUME IInv, QuietStore, NEW status, status # "absent", MarkParent(status),
         UNCHANGED ws, live' \subseteq live, Rejected => Rejected'
  PROVE  StoreInv' /\ ChildInv' /\ Elsewhere(Parent) /\ PlanElsewhere(Parent)
<1>1. MarkNode(Parent, DefaultId, parentNode.node, status, parentNode.node.retry, None)
  BY DEF MarkParent, QuietStore, HeldInv
<1>2. StoreInv' /\ Elsewhere(Parent)
  BY <1>1, ParentApart, PlanRests, StoreMarked DEF QuietStore, HeldInv
<1>3. PlanElsewhere(Parent)
  BY DEF PlanElsewhere
<1> QED
  BY <1>2, <1>3, ParentApart, ChildrenRest DEF QuietStore

\* The run goes to its target, or to the children still to be done.
LEMMA QuietDescend == ASSUME IInv, QuietStore, Descend PROVE QuietStore'
<1>0. /\ pc = "descend" /\ UNCHANGED <<ws, live>> /\ PlanInv'
      /\ Clean /\ doing = Parent /\ ~ Rejected /\ Claimed = {}
  <2>1. pc = "descend" /\ UNCHANGED <<ws, live>>
    BY DEF Descend
  <2>2. Clean /\ doing = Parent
    BY <2>1 DEF IInv, PlaceInv, Before
  <2> QED
    BY <2>1, <2>2, PlanRests DEF QuietStore, Rejected, Clean, Claimed
<1>1. CASE Finish("rejected") /\ UNCHANGED nodes
  BY <1>0, <1>1, QuietQuit
<1>2. CASE /\ Present(target) /\ doing' = target /\ Goto("ensure")
           /\ UNCHANGED <<nodes, wave, impact, at, mine, caller, outcome>>
  <2>1. pc' = "ensure" /\ UNCHANGED <<active, completed, parentNode, members>>
    BY <1>2 DEF Goto, wave
  <2>2. StoreInv'
    BY <1>0, <1>2, StoreRests DEF QuietStore
  <2>3. HeldInv' /\ ChildInv' /\ BusyInv'
    BY <1>0, <1>2, <2>1, HeldRests, ChildrenSame, WorkersSame DEF QuietStore
  <2>4. AloneInv'
    BY <1>0, <1>2, <2>1 DEF AloneInv, Present
  <2>5. ClaimInv'
    BY <1>0, <2>1, ClaimedRests DEF ClaimInv, Clean
  <2> QED
    BY <2>2, <2>3, <2>4, <2>5 DEF QuietStore
<1>3. CASE /\ target = Parent /\ Undone # {} /\ members' = Undone /\ Goto("mark active")
           /\ UNCHANGED <<remaining, active, completed, impact, nested, outcome>>
           /\ LET kept == Ensured(Parent)
                  n == ActiveNode(kept)
              IN /\ parentNode' = [at |-> n, node |-> kept[n]]
                 /\ nodes' = [nodes EXCEPT ![Parent] =
                      [kept EXCEPT ![n] = [@ EXCEPT !.status = "running",
                                             !.session = None, !.resumable = FALSE]]]
  <2> DEFINE kept == Ensured(Parent)
             n == ActiveNode(kept)
             running == [kept[n] EXCEPT !.status = "running", !.session = None, !.resumable = FALSE]
  <2>1. n = DefaultId
    BY ParentApart, EnsuredNode DEF QuietStore
  <2>2. PICK node : /\ Known(node) /\ kept[DefaultId] = node
                    /\ kept = [nodes[Parent] EXCEPT ![DefaultId] = node]
    BY ParentApart, EnsuredNode DEF QuietStore
  <2>3. Known(running) /\ running.session = None
    BY <2>1, <2>2 DEF Known
  <2>4. /\ nodes' = [nodes EXCEPT ![Parent] = [kept EXCEPT ![n] = running]]
        /\ parentNode'.at = n /\ parentNode'.node = kept[n]
    BY <1>3
  <2> HIDE DEF running
  <2>5. nodes' = [nodes EXCEPT ![Parent] = [nodes[Parent] EXCEPT ![DefaultId] = running]]
    <3>1. RowOK(nodes[Parent]) /\ DefaultId \in NodeId
      BY ParentApart, NodeThere DEF QuietStore, StoreInv
    <3> QED
      BY <2>1, <2>2, <2>4, <3>1 DEF RowOK, Fcn
  <2> HIDE DEF kept, n
  <2>6. OneNode' /\ Elsewhere(Parent) /\ nodes'[Parent][DefaultId] = running
    BY <2>3, <2>5, ParentApart, RowReplaced DEF QuietStore, StoreInv
  <2>7. StoreInv'
    <3>1. OwnSessions'
      BY <2>3, <2>6, ParentApart, SessionsApart DEF QuietStore, StoreInv
    <3> QED
      BY <1>0, <2>6, <3>1 DEF QuietStore, StoreInv
  <2>8. PlanElsewhere(Parent) /\ Busy' = Busy /\ Busy \subseteq Child
    BY <1>0, <1>3, BusyRests DEF PlanElsewhere, Busy
  <2>9. ChildInv'
    BY <1>0, <2>6, <2>8, ParentApart, ChildrenRest DEF QuietStore
  <2>10. BusyInv'
    BY <1>0, <2>8 DEF BusyInv, Clean
  <2>11. HeldInv'
    BY <1>3, <2>1, <2>2, <2>4 DEF QuietStore, HeldInv, nested
  <2>12. pc' = "mark active" /\ AloneInv'
    BY <1>3 DEF Goto, AloneInv
  <2>13. ClaimInv'
    BY <1>0, <1>3, <2>12, ClaimedRests DEF ClaimInv, Undone
  <2> QED
    BY <2>7, <2>9, <2>10, <2>11, <2>12, <2>13 DEF QuietStore
<1> QED
  BY <1>1, <1>2, <1>3 DEF Descend

\* A write to a task that keeps it there, and not for the first time done.
LEMMA QuietMarkParentActive ==
  ASSUME IInv, QuietStore, MarkParentActive PROVE QuietStore'
<1>1. /\ pc = "mark active" /\ UNCHANGED <<nodes, live>>
      /\ Write(Parent, "active") \/ UNCHANGED ws
  BY DEF MarkParentActive
<1>2. PlanInv' /\ PlanElsewhere(Parent)
  BY <1>1, ParentApart, PlanWrites, PlanRests DEF QuietStore, StoreInv, PlanElsewhere
<1>3. StoreInv'
  BY <1>1, <1>2, StoreRests DEF QuietStore
<1>4. ~ Rejected /\ Elsewhere(Parent)
  BY <1>1 DEF Rejected, Elsewhere
<1>5. ChildInv'
  BY <1>2, <1>4, ParentApart, ChildrenRest DEF QuietStore
<1>6. CASE Finish("rejected")
  BY <1>3, <1>5, <1>6, QuietFinish
<1>7. CASE /\ remaining' = members /\ Goto("wave")
           /\ UNCHANGED <<parentNode, members, active, completed, impact, nested, outcome>>
  <2>1. pc' = "wave" /\ UNCHANGED <<at, mine>>
    BY <1>7 DEF Goto, nested
  <2>2. HeldInv'
    BY <1>7, <2>1, HeldRests DEF QuietStore
  <2>3. \A c \in Child : ws'[c] = ws[c]
    BY <1>2, ParentApart DEF PlanElsewhere
  <2>4. BusyInv' /\ AloneInv'
    BY <1>1, <1>7, <2>1, <2>3, WorkersSame DEF QuietStore, AloneInv
  <2>5. members \subseteq Child
    BY DEF IInv, PlaceInv
  <2>6. ClaimInv'
    BY <1>1, <1>7, <2>1, <2>3, <2>5, ClaimedRests DEF QuietStore, ClaimInv, Unreported, TheNode
  <2> QED
    BY <1>3, <1>5, <2>2, <2>4, <2>6 DEF QuietStore
<1> QED
  BY <1>6, <1>7 DEF MarkParentActive

-----------------------------------------------------------------------------
\* The main loop.

\* The main loop starts workers up to maxConcurrency.
LEMMA QuietFill == ASSUME EndlessSessions, IInv, QuietStore, Fill PROVE QuietStore'
<1> DEFINE c == First(remaining)
<1>0. /\ pc = "wave" /\ remaining # {} /\ remaining \subseteq Child
      /\ Placed /\ doing = Parent /\ members \subseteq Child
  BY DEF Fill, Filling, IInv, PlaceInv
<1>1. c \in remaining /\ c \in Child /\ c \in Task /\ c \notin Claimed
  BY <1>0, LeastIsThere DEF Task, Placed
<1> HIDE DEF c
<1>2. CASE Finish("rejected") /\ UNCHANGED <<ws, nodes, live>>
  BY <1>2, QuietQuit
<1>3. CASE /\ StartWorker(c) /\ active' = [active EXCEPT ![c] = StartedWorker(c)]
           /\ Goto("wave")
           /\ UNCHANGED <<parentNode, members, completed, impact, nested, outcome>>
  <2> DEFINE node == nodes'[c][DefaultId]
  <2>1. /\ StoreInv' /\ Elsewhere(c) /\ node.status = "running" /\ node.session \in live'
        /\ node.session # None /\ live \subseteq live' /\ Known(node)
        /\ StartedWorker(c) = [at |-> DefaultId, node |-> node]
        /\ ws'[c].status = "active" /\ PlanElsewhere(c)
    BY <1>1, <1>3, WorkerStarts DEF QuietStore, PlanElsewhere
  <2>2. active' = [d \in Child |-> IF d = c THEN [at |-> DefaultId, node |-> node] ELSE active[d]]
    BY <1>3, <2>1 DEF IInv, ShapeInv, Fcn
  <2>3. pc' = "wave" /\ UNCHANGED <<at, mine>> /\ ~ Rejected
    BY <1>0, <1>3 DEF Goto, nested, Rejected
  <2> HIDE DEF node
  <2>4. HeldInv'
    BY <1>3, <2>1, <2>2, <2>3 DEF QuietStore, HeldInv
  <2>5. ChildInv'
    BY <1>1, <2>1, <2>3, ChildrenRest DEF QuietStore, node
  <2>6. BusyInv'
    <3> SUFFICES ASSUME NEW d \in Child, active'[d].node.status # "absent"
                 PROVE  /\ nodes'[d][DefaultId].status = "running"
                        /\ nodes'[d][DefaultId].session = active'[d].node.session
                        /\ active'[d].node.session \in live' \ {None}
                        /\ ws'[d].status = "active"
      BY DEF BusyInv, Busy, TheNode
    <3>1. CASE d = c
      BY <2>1, <2>2, <3>1 DEF node
    <3>2. CASE d # c
      <4>1. d \in Busy /\ d \in Task \ {c} /\ active'[d] = active[d]
        BY <2>2, <3>2 DEF Busy, Task
      <4> QED
        BY <2>1, <4>1 DEF QuietStore, BusyInv, TheNode, Elsewhere, PlanElsewhere
    <3> QED
      BY <3>1, <3>2
  <2>7. AloneInv'
    BY <2>3 DEF AloneInv
  <2>8. Claimed' = Claimed /\ Claimed \subseteq Child
    BY <1>3, ClaimedRests, ClaimsOfChildren
  <2>9. \A d \in Claimed : nodes'[d][DefaultId].status = "done"
    BY <1>0, <1>1, <2>1, <2>8 DEF QuietStore, ClaimInv, TheNode, Elsewhere, Task
  <2>10. Planned = Child => \A d \in members : ws'[d].status # "done"
    BY <1>0, <2>1 DEF QuietStore, ClaimInv, Unreported, PlanElsewhere, Task
  <2>11. ClaimInv'
    BY <1>3, <2>3, <2>8, <2>9, <2>10 DEF ClaimInv, TheNode
  <2> QED
    BY <2>1, <2>4, <2>5, <2>6, <2>7, <2>11 DEF QuietStore
<1> QED
  BY <1>2, <1>3 DEF Fill, c

\* A pause ends the run with its workers on disk.
LEMMA QuietPause == ASSUME IInv, QuietStore, Pause PROVE QuietStore'
BY QuietQuit DEF Pause

\* A WorkSource that cannot be read ends the run.
LEMMA QuietReadRejected ==
  ASSUME IInv, QuietStore, NEW c \in Child, ReadRejected(c) PROVE QuietStore'
BY QuietQuit DEF ReadRejected

\* A worker of the wave that stops.
LEMMA QuietStop ==
  ASSUME IInv, QuietStore, NEW c \in Busy, Stopped(c), ~ Rejected, StoreInv', Elsewhere(c),
         UNCHANGED ws, nodes'[c][DefaultId].status \notin {"cancelled", "superseded"},
         live' = live \/ live' = live \ {active[c].node.session}
  PROVE  /\ ChildInv' /\ BusyInv'
         /\ \A d \in Child : active'[d].at = DefaultId /\ Known(active'[d].node)
<1>1. /\ c \in Child /\ c \in Task /\ ws[c].status = "active" /\ ~ Retired(TheNode(c))
      /\ TheNode(c).session = active[c].node.session
  BY DEF QuietStore, BusyInv, Busy, Task, Retired
<1>2. active' = [d \in Child |-> IF d = c THEN NoWorker ELSE active[d]]
  BY DEF Stopped, IInv, ShapeInv, Fcn
<1>3. Known(NoWorker.node) /\ NoWorker.at = DefaultId
  BY DEF Known, AbsentNode, NoWorker
<1>4. PlanElsewhere(c) /\ Busy' = Busy \ {c} /\ Busy \subseteq Child
  BY <1>1, StoppedLess DEF PlanElsewhere, IInv, Busy
<1>5. ChildInv'
  BY <1>1, <1>4, ChildrenRest DEF QuietStore
<1>6. \A d \in Busy' : active[d].node.session \in live'
  <2>1. CASE live' = live
    BY <1>4, <2>1 DEF QuietStore, BusyInv
  <2>2. CASE live' = live \ {active[c].node.session}
    BY <1>1, <1>4, <2>2, OthersLive DEF QuietStore
  <2> QED
    BY <2>1, <2>2
<1>7. \A d \in Busy' : active'[d] = active[d]
  BY <1>2, <1>4
<1>8. BusyInv'
  BY <1>1, <1>4, <1>6, <1>7, WorkersRest DEF QuietStore
<1>9. \A d \in Child : active'[d].at = DefaultId /\ Known(active'[d].node)
  BY <1>2, <1>3 DEF QuietStore, HeldInv
<1> QED
  BY <1>5, <1>8, <1>9

\* What a worker that is listened to leaves in the store.
LEMMA HeardMarked ==
  ASSUME IInv, QuietStore, NEW c \in Child, Listening(c), Stopped(c), UNCHANGED ws,
         NEW captured \in {active[c].node, TheNode(c)},
         NEW status \in {"done", "pending", "failed", "needs-decision"}, NEW retry,
         MarkNode(c, active[c].at, captured, status, retry, None),
         live' = live \/ live' = live \ {active[c].node.session}
  PROVE  /\ StoreInv' /\ ChildInv' /\ BusyInv' /\ Elsewhere(c)
         /\ nodes'[c][DefaultId].status = status
         /\ \A d \in Child : active'[d].at = DefaultId /\ Known(active'[d].node)
         /\ active[c].at = DefaultId
<1>1. /\ pc = "wave" /\ c \in Busy /\ c \in Task /\ active[c].at = DefaultId /\ Known(captured)
      /\ ~ Rejected
  BY Heard, NodeThere DEF QuietStore, HeldInv, StoreInv, Rejected
<1>2. StoreInv' /\ Elsewhere(c) /\ nodes'[c][DefaultId].status = status
  <2>1. PlanInv'
    BY PlanRests DEF QuietStore
  <2> QED
    BY <1>1, <2>1, StoreMarked DEF QuietStore
<1> QED
  BY <1>1, <1>2, QuietStop

\* Claims other than the one that is looked at.
LEMMA OtherClaims ==
  ASSUME IInv, QuietStore, pc # "reject claims", NEW c, Elsewhere(c), c \notin Claimed
  PROVE  \A d \in Claimed : nodes'[d][DefaultId].status = "done"
BY ClaimsOfChildren DEF QuietStore, ClaimInv, TheNode, Elsewhere, Task

\* A worker that is done is a claim, its node done.
LEMMA QuietWorkerDone ==
  ASSUME IInv, QuietStore, NEW c \in Child, WorkerDone(c) PROVE QuietStore'
<1> DEFINE w == active[c]
<1>1. /\ Listening(c) /\ MarkNode(c, w.at, w.node, "done", w.node.retry, None)
      /\ live' = live \ {w.node.session} /\ Stopped(c) /\ Complete(c, w.at)
      /\ pc' \in {"wave", "soft", "hard"}
      /\ UNCHANGED <<ws, parentNode, members, doing, at, mine>>
  BY DEF WorkerDone, Goto, nested
<1>2. /\ StoreInv' /\ ChildInv' /\ BusyInv' /\ Elsewhere(c)
      /\ nodes'[c][DefaultId].status = "done" /\ w.at = DefaultId
      /\ \A d \in Child : active'[d].at = DefaultId /\ Known(active'[d].node)
  BY <1>1, HeardMarked
<1>3. pc = "wave" /\ c \notin Claimed /\ Claimed' = Claimed \cup {c}
  BY <1>1, Heard, CompletedMore DEF IInv
<1>4. HeldInv'
  <2>1. completed' = Append(completed, [task |-> c, at |-> DefaultId])
    BY <1>1, <1>2, <1>3 DEF Complete
  <2>2. \A i \in DOMAIN completed' : completed'[i].at = DefaultId
    <3>1. completed \in Seq([task : Child, at : NodeId])
      BY DEF IInv, ShapeInv
    <3> QED
      BY <2>1, <3>1 DEF QuietStore, HeldInv
  <2> QED
    BY <1>1, <1>2, <2>2 DEF QuietStore, HeldInv
<1>5. \A d \in Claimed' : nodes'[d][DefaultId].status = "done"
  BY <1>2, <1>3, OtherClaims
<1>6. ClaimInv'
  BY <1>1, <1>3, <1>5 DEF QuietStore, ClaimInv, Unreported, TheNode
<1>7. AloneInv'
  BY <1>1 DEF AloneInv
<1> QED
  BY <1>2, <1>4, <1>6, <1>7 DEF QuietStore

\* The others that stop claim nothing.
LEMMA QuietStopped ==
  ASSUME IInv, QuietStore, NEW c \in Child, Listening(c), Stopped(c), UNCHANGED ws,
         NEW captured \in {active[c].node, TheNode(c)},
         NEW status \in {"pending", "failed", "needs-decision"}, NEW retry,
         MarkNode(c, active[c].at, captured, status, retry, None),
         live' = live \/ live' = live \ {active[c].node.session},
         UNCHANGED <<parentNode, members, completed, mine>>, at' \in {at, active[c].at},
         pc' \in {"escalate", "decide", "bubble"}
           \/ (pc' = "checkpoint" /\ then' = "ensure" /\ doing' = c)
  PROVE  QuietStore'
<1>1. /\ StoreInv' /\ ChildInv' /\ BusyInv' /\ Elsewhere(c) /\ active[c].at = DefaultId
      /\ \A d \in Child : active'[d].at = DefaultId /\ Known(active'[d].node)
  BY HeardMarked
<1>2. pc = "wave" /\ c \notin Claimed /\ Claimed' = Claimed /\ c \in Busy
  BY Heard, ClaimedRests
<1>3. HeldInv'
  BY <1>1 DEF QuietStore, HeldInv
<1>4. \A d \in Claimed' : nodes'[d][DefaultId].status = "done"
  BY <1>1, <1>2, OtherClaims
<1>5. ClaimInv'
  BY <1>2, <1>4 DEF QuietStore, ClaimInv, Unreported, TheNode
<1>6. AloneInv'
  BY <1>2 DEF AloneInv, QuietStore, BusyInv
<1> QED
  BY <1>1, <1>3, <1>5, <1>6 DEF QuietStore

\* A worker told to rework has a node and a session again.
LEMMA QuietRework ==
  ASSUME IInv, QuietStore, NEW c \in Child, Rework(c) PROVE QuietStore'
<1>1. active[c].at = DefaultId
  BY DEF QuietStore, HeldInv
<1> QED
  BY <1>1, QuietStopped DEF Rework, Reconcile, TheNode

\* A worker out of retries, or failed, takes its wave with it.
LEMMA QuietFailChild ==
  ASSUME IInv, QuietStore, NEW c \in Child, FailChild(c) PROVE QuietStore'
<1>1. active[c].at = DefaultId
  BY DEF QuietStore, HeldInv
<1> QED
  BY <1>1, QuietStopped DEF FailChild, Goto, nested, TheNode

\* A worker that asks for a decision is taken out of the loop.
LEMMA QuietWorkerAsks ==
  ASSUME IInv, QuietStore, NEW c \in Child, WorkerAsks(c) PROVE QuietStore'
BY QuietStopped DEF WorkerAsks, Goto

\* No claim, nobody claimed.
LEMMA NoClaims == ASSUME completed = <<>> PROVE Claimed = {}
<1>1. DOMAIN completed = {}
  OBVIOUS
<1> QED
  BY <1>1 DEF Claimed

\* The parent is marked and nothing else happens but the next step.
LEMMA QuietParentMarked ==
  ASSUME IInv, QuietStore, NEW status, status # "absent", MarkParent(status),
         UNCHANGED <<ws, live, wave, impact, nested>>, ~ Rejected,
         \/ pc' = "checkpoint" /\ then' = "return"
         \/ pc = "report" /\ completed = <<>> /\ pc' = "report parent"
  PROVE  QuietStore'
<1>1. StoreInv' /\ ChildInv' /\ Elsewhere(Parent) /\ PlanElsewhere(Parent)
  BY ParentMarked
<1>2. UNCHANGED <<parentNode, active, completed, at, mine, members>>
  BY DEF wave, nested
<1>3. HeldInv'
  BY <1>2, HeldRests DEF QuietStore
<1>4. Busy' = Busy /\ Busy \subseteq Child /\ Claimed' = Claimed /\ Claimed \subseteq Child
  BY <1>2, BusyRests, ClaimedRests, ClaimsOfChildren DEF Busy
<1>5. BusyInv'
  BY <1>1, <1>2, <1>4, ParentApart DEF QuietStore, BusyInv, TheNode, Elsewhere
<1>6. AloneInv'
  BY DEF AloneInv
<1>7. \A c \in Claimed : nodes'[c][DefaultId].status = "done"
  BY <1>1, <1>4, ParentApart DEF QuietStore, ClaimInv, TheNode, Elsewhere, Rejected
<1>8. completed = <<>> => Claimed = {}
  BY NoClaims
<1>9. ClaimInv'
  BY <1>2, <1>4, <1>7, <1>8 DEF QuietStore, ClaimInv, Unreported, TheNode
<1> QED
  BY <1>1, <1>3, <1>5, <1>6, <1>9 DEF QuietStore

\* An escalated question marks the child and its parent.
LEMMA QuietEscalate == ASSUME IInv, QuietStore, Escalate PROVE QuietStore'
BY QuietParentMarked DEF Escalate, Reconcile, Rejected

\* A decision left to a human marks the child that asked.
LEMMA QuietDecideHuman == ASSUME IInv, QuietStore, DecideHuman PROVE QuietStore'
BY QuietParentMarked DEF DecideHuman, Reconcile, Rejected

\* The parent is marked at the end of the run.
LEMMA QuietParentEnds ==
  ASSUME IInv, QuietStore, NEW status, status # "absent", MarkParent(status),
         UNCHANGED <<ws, live>>, NEW r, Finish(r)
  PROVE  QuietStore'
<1>1. Rejected'
  BY DEF Finish, Rejected
<1> QED
  BY <1>1, ParentMarked, QuietFinish

\* A question that goes further up ends the run.
LEMMA QuietBubble == ASSUME IInv, QuietStore, Bubble PROVE QuietStore'
BY QuietParentEnds DEF Bubble

-----------------------------------------------------------------------------
\* Siblings.

\* A sibling told of the change stays at work.
LEMMA QuietShareContext == ASSUME IInv, QuietStore, ShareContext PROVE QuietStore'
<1> DEFINE t == First(affected)
<1>1. /\ pc = "soft" /\ UNCHANGED <<nodes, live>> /\ affected # {} /\ affected \subseteq Child
      /\ members \subseteq Child
  BY DEF ShareContext, IInv, PlaceInv
<1>2. t \in Task
  BY <1>1, LeastIsThere DEF Task
<1>3. CASE Finish("rejected") /\ UNCHANGED ws
  BY <1>1, <1>3, QuietQuit
<1>4. CASE /\ Write(t, ws[t].status) /\ pc' \in {"wave", "soft"}
           /\ UNCHANGED <<wave, quiesced, nested, outcome>>
  <2> HIDE DEF t
  <2>1. PlanInv' /\ \A u \in Task : ws'[u].status = ws[u].status
    BY <1>2, <1>4, PlanWrites DEF QuietStore, StoreInv
  <2>2. UNCHANGED <<parentNode, active, completed, at, mine, members>>
    BY <1>4 DEF wave, nested
  <2>3. StoreInv' /\ HeldInv' /\ BusyInv'
    BY <1>1, <2>1, <2>2, StoreRests, HeldRests, WorkersSame, ParentApart DEF QuietStore
  <2>4. ChildInv'
    BY <1>1, <2>1, ParentApart DEF QuietStore, ChildInv, TheNode, Rejected
  <2>5. AloneInv'
    BY <1>4 DEF AloneInv
  <2>6. ClaimInv'
    BY <1>1, <1>4, <2>1, <2>2, ClaimedRests, ParentApart
    DEF QuietStore, ClaimInv, Unreported, TheNode
  <2> QED
    BY <2>3, <2>4, <2>5, <2>6 DEF QuietStore
<1> QED
  BY <1>3, <1>4 DEF ShareContext, Goto

\* A sibling stopped for a conflict is no worker any more.
LEMMA QuietQuiesce == ASSUME IInv, QuietStore, Quiesce PROVE QuietStore'
<1> DEFINE c == First(affected \cap Busy)
           w == active[c]
           marked == [w.node EXCEPT !.status = "pending", !.retry = w.node.retry,
                        !.session = w.node.session, !.resumable = w.node.session # None]
           kept == [marked EXCEPT !.work = nodes[c][DefaultId].work]
           node == [kept EXCEPT !.work = TRUE]
<1>0. pc = "hard" /\ affected \cap Busy # {} /\ Busy \subseteq Child /\ Placed
  BY DEF Quiesce, Busy, IInv, PlaceInv
<1>1. c \in Busy /\ c \in Child /\ c \in Task
  BY <1>0, LeastIsThere DEF Task
<1> HIDE DEF c
<1>2. CASE Finish("rejected") /\ UNCHANGED <<ws, nodes, live>>
  BY <1>2, QuietQuit
<1>3. CASE /\ nodes' = [nodes EXCEPT ![c] = [Marked(c, w.at, w.node, "pending",
                w.node.retry, w.node.session) EXCEPT ![w.at].work = TRUE]]
           /\ Stopped(c) /\ Goto("hard") /\ UNCHANGED <<ws, live>>
           /\ UNCHANGED <<parentNode, members, remaining, completed, affected, nested, outcome>>
  <2>1. /\ w.at = DefaultId /\ Known(w.node) /\ w.node.session = TheNode(c).session
        /\ ~ Retired(TheNode(c)) /\ ws[c].status = "active" /\ RowOK(nodes[c])
        /\ DefaultId \in NodeId
    BY <1>1, NodeThere DEF QuietStore, HeldInv, BusyInv, Retired, StoreInv
  <2>2. Known(marked) /\ marked.status = "pending" /\ marked.session = w.node.session
    BY <2>1 DEF Known
  <2>3. Marked(c, w.at, w.node, "pending", w.node.retry, w.node.session)
          = [nodes[c] EXCEPT ![DefaultId] = kept]
    BY <2>1 DEF Marked, Upserted
  <2> HIDE DEF marked
  <2>4. Known(kept) /\ kept.status = "pending" /\ kept.session = w.node.session
    BY <2>2 DEF Known
  <2> HIDE DEF kept
  <2>5. Known(node) /\ node.status = "pending" /\ node.session = w.node.session
    BY <2>4 DEF Known
  <2>6. [[nodes[c] EXCEPT ![DefaultId] = kept] EXCEPT ![w.at].work = TRUE]
          = [nodes[c] EXCEPT ![DefaultId] = node]
    BY <2>1 DEF RowOK, Fcn
  <2> HIDE DEF node
  <2>7. OneNode' /\ Elsewhere(c) /\ nodes'[c][DefaultId] = node
    <3>1. nodes' = [nodes EXCEPT ![c] = [nodes[c] EXCEPT ![DefaultId] = node]]
      BY <1>3, <2>3, <2>6
    <3> QED
      BY <1>1, <2>5, <3>1, RowReplaced DEF QuietStore, StoreInv
  <2>8. StoreInv'
    <3>1. OwnSessions'
      BY <1>1, <2>1, <2>5, <2>7, SessionsApart DEF QuietStore, StoreInv
    <3> QED
      BY <1>3, <2>7, <3>1, PlanRests DEF QuietStore, StoreInv
  <2>9. ~ Rejected /\ pc' = "hard" /\ UNCHANGED <<at, mine>>
    BY <1>0, <1>3 DEF Rejected, Goto, nested
  <2>10. /\ ChildInv' /\ BusyInv'
         /\ \A d \in Child : active'[d].at = DefaultId /\ Known(active'[d].node)
    BY <1>1, <1>3, <2>5, <2>7, <2>8, <2>9, QuietStop
  <2>11. HeldInv'
    BY <1>3, <2>9, <2>10 DEF QuietStore, HeldInv
  <2>12. AloneInv'
    BY <2>9 DEF AloneInv
  <2>13. c \notin Claimed /\ Claimed' = Claimed
    BY <1>0, <1>1, <1>3, ClaimedRests DEF Placed
  <2>14. \A d \in Claimed : nodes'[d][DefaultId].status = "done"
    BY <1>0, <2>7, <2>13, OtherClaims
  <2>15. ClaimInv'
    BY <1>0, <1>3, <2>9, <2>13, <2>14 DEF QuietStore, ClaimInv, Unreported, TheNode
  <2> QED
    BY <2>8, <2>10, <2>11, <2>12, <2>15 DEF QuietStore
<1> QED
  BY <1>2, <1>3 DEF Quiesce, c

\* The stopped siblings and the one that asked go on.
LEMMA QuietResolveConflict == ASSUME IInv, QuietStore, ResolveConflict PROVE QuietStore'
<1>1. pc = "hard" /\ UNCHANGED <<ws, live>>
  BY DEF ResolveConflict
<1>2. CASE MarkParent("needs-decision") /\ Finish("needs-decision")
  BY <1>1, <1>2, QuietParentEnds
<1>3. CASE /\ at' = DefaultId /\ Goto("decide") /\ UNCHANGED <<nodes, wave, impact, mine, outcome>>
  <2>1. UNCHANGED <<parentNode, active, completed, mine, members>> /\ pc' = "decide"
    BY <1>3 DEF wave, Goto
  <2>2. StoreInv' /\ ChildInv' /\ BusyInv'
    BY <1>1, <1>3, <2>1, StoreRests, PlanRests, ChildrenSame, WorkersSame DEF QuietStore, Rejected
  <2>3. HeldInv' /\ AloneInv'
    BY <1>3, <2>1 DEF QuietStore, HeldInv, AloneInv
  <2>4. ClaimInv'
    BY <1>1, <1>3, <2>1, ClaimedRests DEF QuietStore, ClaimInv, Unreported, TheNode
  <2> QED
    BY <2>2, <2>3, <2>4 DEF QuietStore
<1> QED
  BY <1>2, <1>3 DEF ResolveConflict

-----------------------------------------------------------------------------
\* Decisions.

\* A follow-up is there, and the child that asked for it is done.
LEMMA QuietDecideFollowUp == ASSUME IInv, QuietStore, DecideFollowUp PROVE QuietStore'
<1>1. /\ pc = "decide" /\ pc' = "checkpoint" /\ then' = "settle"
      /\ MarkNode(doing, at, nodes[doing][at], "done", 0, None)
      /\ UNCHANGED <<live, wave, impact, doing, at, mine, caller>>
      /\ ws[doing].status # "missing"
  BY DEF DecideFollowUp, Reconcile, nested, Present
<1>2. PICK t \in Child \ Planned :
        /\ ws[t].status = "missing"
        /\ ws' = [ws EXCEPT ![t] = Written(t, "todo", FirstDefinition),
                            ![doing] = Written(doing, "done", ws[doing].def)]
  BY DEF DecideFollowUp
<1>3. /\ doing \in Child /\ doing \in Task /\ doing \notin Busy /\ doing \notin Claimed
      /\ t \in Task /\ t # doing /\ ~ Rejected
  BY <1>1, <1>2, SetAside DEF Aside, Task, Rejected
<1>4. /\ Written(t, "todo", FirstDefinition).status = "todo"
      /\ Written(t, "todo", FirstDefinition).def = FirstDefinition
      /\ Written(doing, "done", ws[doing].def).status = "done"
      /\ Written(doing, "done", ws[doing].def).def = FirstDefinition
      /\ {"status", "def"} \subseteq DOMAIN Written(t, "todo", FirstDefinition)
      /\ {"status", "def"} \subseteq DOMAIN Written(doing, "done", ws[doing].def)
  BY <1>3 DEF Written, QuietStore, StoreInv, PlanInv
<1>5. /\ ws'[t].status = "todo" /\ ws'[doing].status = "done" /\ PlanInv'
      /\ \A u \in Task \ {t, doing} : ws'[u] = ws[u]
  BY <1>2, <1>3, <1>4 DEF QuietStore, StoreInv, PlanInv, Fcn
<1>6. /\ StoreInv' /\ Elsewhere(doing) /\ nodes'[doing][DefaultId].status = "done"
  BY <1>1, <1>3, <1>5, NodeThere, StoreMarked DEF QuietStore, HeldInv, StoreInv, TheNode
<1>7. UNCHANGED <<parentNode, active, completed, members>>
  BY <1>1 DEF wave
<1>8. HeldInv'
  BY <1>1, <1>7, HeldRests DEF QuietStore
<1>9. nodes'[t] = nodes[t]
  BY <1>3, <1>6 DEF Elsewhere
<1>10. ChildInv'
  <2> SUFFICES ASSUME NEW c \in Child
               PROVE  /\ ws'[c].status = "missing" => nodes'[c][DefaultId].status = "absent"
                      /\ nodes'[c][DefaultId].status \notin {"cancelled", "superseded"}
                      /\ ws'[c].status = "done" => nodes'[c][DefaultId].status = "done"
    BY DEF ChildInv, TheNode
  <2>1. CASE c \in {t, doing}
    BY <1>5, <1>6, <1>9, <2>1 DEF QuietStore, ChildInv, TheNode
  <2>2. CASE c \notin {t, doing}
    BY <1>3, <1>5, <1>6, <2>2 DEF QuietStore, ChildInv, TheNode, Elsewhere, Task
  <2> QED
    BY <2>1, <2>2
<1>11. BusyInv'
  <2>1. Busy' = Busy
    BY <1>7, BusyRests
  <2>2. ASSUME NEW c \in Busy PROVE ws'[c] = ws[c] /\ nodes'[c] = nodes[c]
    <3>1. c \in Task /\ c # doing /\ c # t
      BY <1>2, <1>3 DEF QuietStore, BusyInv, Busy, Task
    <3> QED
      BY <1>5, <1>6, <3>1 DEF Elsewhere
  <2> QED
    BY <1>1, <1>7, <2>1, <2>2 DEF QuietStore, BusyInv, TheNode
<1>12. AloneInv'
  BY <1>1, <1>6 DEF AloneInv, TheNode
<1>13. \A c \in Claimed : nodes'[c][DefaultId].status = "done"
  BY <1>1, <1>3, <1>6, OtherClaims
<1>14. Planned # Child
  BY <1>2
<1>15. ClaimInv'
  BY <1>1, <1>7, <1>13, <1>14, ClaimedRests DEF ClaimInv, TheNode
<1> QED
  BY <1>6, <1>8, <1>10, <1>11, <1>12, <1>15 DEF QuietStore

\* A patched child is started again.
LEMMA QuietDecidePatch == ASSUME IInv, QuietStore, DecidePatch PROVE QuietStore'
<1>1. /\ pc = "decide" /\ pc' = "checkpoint" /\ then' = "ensure" /\ Write(doing, "active")
      /\ MarkNode(doing, at, nodes[doing][at], "pending", 0, nodes[doing][at].session)
      /\ UNCHANGED <<live, wave, impact, doing, at, mine, caller>>
  BY DEF DecidePatch, Reconcile, nested
<1>2. /\ doing \in Child /\ doing \in Task /\ doing \notin Busy /\ doing \notin Claimed
      /\ members \subseteq Child /\ at = DefaultId /\ ~ Rejected
  BY <1>1, SetAside DEF Aside, QuietStore, HeldInv, Rejected
<1>3. PlanInv' /\ ws'[doing].status = "active" /\ PlanElsewhere(doing)
  BY <1>1, <1>2, PlanWrites DEF QuietStore, StoreInv, PlanElsewhere
<1>4. TheNode(doing).session = None \/ ~ Retired(TheNode(doing))
  <2>1. Known(TheNode(doing)) /\ TheNode(doing).status \notin {"cancelled", "superseded"}
    BY <1>2, NodeThere DEF QuietStore, StoreInv, ChildInv
  <2> QED
    BY <2>1 DEF Known, Retired
<1>5. StoreInv' /\ Elsewhere(doing) /\ nodes'[doing][DefaultId].status = "pending"
  BY <1>1, <1>2, <1>3, <1>4, NodeThere, StoreMarked DEF QuietStore, StoreInv, TheNode
<1>6. UNCHANGED <<parentNode, active, completed, members>>
  BY <1>1 DEF wave
<1>7. HeldInv'
  BY <1>1, <1>6, HeldRests DEF QuietStore
<1>8. ChildInv'
  BY <1>2, <1>3, <1>5, ChildrenRest DEF QuietStore
<1>9. BusyInv'
  <2>1. Busy' = Busy
    BY <1>6, BusyRests
  <2> QED
    BY <1>1, <1>2, <1>3, <1>5, <1>6, <2>1, WorkersRest DEF QuietStore, BusyInv
<1>10. AloneInv'
  BY <1>1, <1>3 DEF AloneInv
<1>11. \A c \in Claimed : nodes'[c][DefaultId].status = "done"
  BY <1>1, <1>2, <1>5, OtherClaims
<1>12. Planned = Child => \A c \in members : ws'[c].status # "done"
  BY <1>1, <1>2, <1>3 DEF QuietStore, ClaimInv, Unreported, PlanElsewhere, Task
<1>13. ClaimInv'
  BY <1>1, <1>6, <1>11, <1>12, ClaimedRests DEF ClaimInv, TheNode
<1> QED
  BY <1>5, <1>7, <1>8, <1>9, <1>10, <1>13 DEF QuietStore

\* A decision that cannot be carried out ends the run.
LEMMA QuietDecideRejected == ASSUME IInv, QuietStore, DecideRejected PROVE QuietStore'
BY QuietQuit DEF DecideRejected

\* The child dealt with apart claims to be done.
LEMMA QuietSettle == ASSUME IInv, QuietStore, Settle PROVE QuietStore'
<1>1. /\ pc = "settle" /\ UNCHANGED <<ws, nodes, live>>
  BY DEF Settle
<1>2. doing \in Child /\ doing \in members /\ at = DefaultId /\ at \in NodeId /\ ~ Rejected
  BY <1>1, SetAside DEF Aside, QuietStore, HeldInv, NodeId, Rejected
<1>3. CASE Finish(outcome)
  BY <1>1, <1>3, QuietQuit
<1>4. CASE /\ outcome = "done" /\ Complete(doing, at) /\ at' = DefaultId /\ mine' = AbsentNode
           /\ pc' \in {"wave", "decide"}
           /\ UNCHANGED <<parentNode, members, remaining, active>>
  <2>1. TheNode(doing).status = "done"
    BY <1>1, <1>4 DEF QuietStore, AloneInv
  <2>2. Claimed' = Claimed \cup {doing} /\ doing \notin Claimed
    BY <1>1, <1>2, <1>4, SetAside, CompletedMore DEF Aside, IInv
  <2>3. \A i \in DOMAIN completed' : completed'[i].at = DefaultId
    <3>1. completed' = Append(completed, [task |-> doing, at |-> DefaultId])
      BY <1>2, <1>4, <2>2 DEF Complete
    <3>2. completed \in Seq([task : Child, at : NodeId])
      BY DEF IInv, ShapeInv
    <3> QED
      BY <3>1, <3>2 DEF QuietStore, HeldInv
  <2>4. HeldInv'
    <3>1. Known(AbsentNode)
      BY DEF Known, AbsentNode
    <3> QED
      BY <1>4, <2>3, <3>1 DEF QuietStore, HeldInv
  <2>5. StoreInv' /\ ChildInv' /\ BusyInv'
    BY <1>1, <1>2, <1>4, StoreRests, PlanRests, ChildrenSame, WorkersSame DEF QuietStore
  <2>6. AloneInv'
    BY <1>4 DEF AloneInv
  <2>7. ClaimInv'
    BY <1>1, <1>4, <2>1, <2>2 DEF QuietStore, ClaimInv, Unreported, TheNode
  <2> QED
    BY <2>4, <2>5, <2>6, <2>7 DEF QuietStore
<1> QED
  BY <1>3, <1>4 DEF Settle, Goto

-----------------------------------------------------------------------------
\* A child, or the run's own task, at work by itself.

\* The task dealt with by itself is neither a worker nor a claim of the wave.
LEMMA Alone ==
  ASSUME IInv, pc \in {"ensure", "watch"}
  PROVE  /\ doing \in Task /\ doing \notin Busy /\ doing \notin Claimed
         /\ members \subseteq Child
<1>1. doing \in Task /\ members \subseteq Child
  BY DEF IInv, ShapeInv, PlaceInv
<1>2. CASE caller = "root"
  <2>1. Busy = {} /\ completed = <<>>
    BY <1>2 DEF IInv, PlaceInv, Aside, Clean
  <2> QED
    BY <1>1, <2>1, NoClaims
<1>3. CASE caller # "root"
  BY <1>1, <1>3, SetAside DEF Aside
<1> QED
  BY <1>2, <1>3

\* What is left of the wave while one works by itself.
LEMMA AloneRests ==
  ASSUME IInv, QuietStore, pc \in {"ensure", "watch"}, UNCHANGED <<active, completed, members>>,
         Elsewhere(doing), PlanElsewhere(doing),
         doing \in Child => ws'[doing].status \notin {"missing", "done"},
         doing \in Child => nodes'[doing][DefaultId].status \notin {"cancelled", "superseded"},
         \A c \in Busy : active[c].node.session \in live'
  PROVE  /\ ChildInv' /\ BusyInv'
         /\ \A c \in Claimed' : nodes'[c][DefaultId].status = "done"
         /\ Planned = Child => \A c \in members' : ws'[c].status # "done"
<1>1. ~ Rejected
  BY DEF Rejected
<1>2. ChildInv'
  BY <1>1, Alone, ChildrenRest DEF QuietStore
<1>3. Busy' = Busy /\ Claimed' = Claimed
  BY BusyRests, ClaimedRests
<1>4. BusyInv'
  BY <1>3, Alone, WorkersRest DEF QuietStore
<1>5. \A c \in Claimed : nodes'[c][DefaultId].status = "done"
  BY Alone, OtherClaims
<1>6. Planned = Child => \A c \in members : ws'[c].status # "done"
  BY Alone DEF QuietStore, ClaimInv, Unreported, PlanElsewhere, Task
<1> QED
  BY <1>2, <1>3, <1>4, <1>5, <1>6

\* Its return, to the wave or as the end of the run.
LEMMA QuietReturn ==
  ASSUME IInv, QuietStore, pc \in {"ensure", "watch"}, StoreInv',
         Elsewhere(doing), PlanElsewhere(doing),
         doing \in Child => ws'[doing].status \notin {"missing", "done"}
                              \/ (UNCHANGED <<ws, nodes>>),
         doing \in Child => nodes'[doing][DefaultId].status \notin {"cancelled", "superseded"},
         \A c \in Busy : active[c].node.session \in live',
         NEW o, LeafReturn(o, DefaultId),
         o = "done" => nodes'[doing][DefaultId].status = "done"
  PROVE  QuietStore'
<1>1. ~ Rejected /\ doing \in Task
  BY Alone DEF Rejected
<1>2. ChildInv'
  BY <1>1, ChildrenRest, ChildrenSame DEF QuietStore
<1>3. CASE caller = "root"
  BY <1>2, <1>3, QuietFinish DEF LeafReturn
<1>4. CASE caller # "root"
  <2>1. /\ outcome' = o /\ at' = DefaultId /\ mine' = AbsentNode
        /\ pc' = "checkpoint" /\ then' = "settle"
        /\ UNCHANGED <<parentNode, active, completed, members, doing>>
    BY <1>4 DEF LeafReturn, Reconcile, wave
  <2>2. Known(AbsentNode)
    BY DEF Known, AbsentNode
  <2>3. HeldInv' /\ AloneInv'
    BY <2>1, <2>2 DEF QuietStore, HeldInv, AloneInv, TheNode
  <2>4. Busy' = Busy /\ Claimed' = Claimed
    BY <2>1, BusyRests, ClaimedRests
  <2>5. BusyInv'
    BY <1>1, <2>1, <2>4, Alone, WorkersRest DEF QuietStore
  <2>6. \A c \in Claimed : nodes'[c][DefaultId].status = "done"
    BY <1>1, Alone, OtherClaims
  <2>7. Planned = Child => \A c \in members : ws'[c].status # "done"
    BY <1>4, Alone, SetAside DEF QuietStore, ClaimInv, Unreported, PlanElsewhere, Task, Aside
  <2>8. ClaimInv'
    BY <2>1, <2>4, <2>6, <2>7 DEF ClaimInv, TheNode
  <2> QED
    BY <1>2, <2>3, <2>5, <2>8 DEF QuietStore
<1> QED
  BY <1>3, <1>4

\* It is started, with a session of its own.
LEMMA QuietStartLeaf == ASSUME EndlessSessions, IInv, QuietStore, StartLeaf PROVE QuietStore'
<1> DEFINE kept == Ensured(doing)
           n == ActiveNode(kept)
<1>1. /\ pc = "ensure" /\ ws[doing].status # "missing" /\ doing \in Task /\ n = DefaultId
  <2>1. pc = "ensure"
    BY DEF StartLeaf
  <2> QED
    BY <2>1, Alone, EnsuredNode DEF QuietStore, AloneInv
<1>2. CASE /\ kept[n].status \in {"done", "failed"} /\ LeafReturn(kept[n].status, n)
           /\ UNCHANGED <<ws, nodes, live>>
  <2>1. kept[n] = TheNode(doing) \/ kept[n].status = "pending"
    BY <1>1, EnsuredNode DEF QuietStore
  <2>2. kept[n].status = TheNode(doing).status
    BY <1>2, <2>1
  <2> HIDE DEF kept, n
  <2>3. StoreInv' /\ Elsewhere(doing) /\ PlanElsewhere(doing)
    BY <1>2, StoreRests, PlanRests DEF QuietStore, Elsewhere, PlanElsewhere
  <2>4. \A c \in Busy : active[c].node.session \in live'
    BY <1>2 DEF QuietStore, BusyInv
  <2>5. nodes'[doing][DefaultId] = TheNode(doing)
    BY <1>2 DEF TheNode
  <2>6. doing \in Child => nodes'[doing][DefaultId].status \notin {"cancelled", "superseded"}
    BY <2>5 DEF QuietStore, ChildInv
  <2> QED
    BY <1>1, <1>2, <2>2, <2>3, <2>4, <2>5, <2>6, QuietReturn
<1>3. CASE /\ StartWorker(doing) /\ at' = n /\ mine' = nodes'[doing][n] /\ Goto("watch")
           /\ UNCHANGED <<wave, impact, doing, caller, outcome>>
  <2>1. /\ StoreInv' /\ Elsewhere(doing) /\ nodes'[doing][DefaultId].status = "running"
        /\ live \subseteq live' /\ Known(nodes'[doing][DefaultId])
        /\ ws'[doing].status = "active" /\ PlanElsewhere(doing)
    BY <1>1, <1>3, WorkerStarts DEF QuietStore, PlanElsewhere
  <2>2. /\ pc' = "watch" /\ at' = DefaultId /\ mine' = nodes'[doing][DefaultId] /\ doing' = doing
        /\ UNCHANGED <<parentNode, active, completed, members>>
    BY <1>1, <1>3 DEF Goto, wave
  <2>3. HeldInv' /\ AloneInv'
    BY <2>1, <2>2 DEF QuietStore, HeldInv, AloneInv, TheNode
  <2>4. \A c \in Busy : active[c].node.session \in live'
    BY <2>1 DEF QuietStore, BusyInv
  <2>5. /\ ChildInv' /\ BusyInv' /\ \A c \in Claimed' : nodes'[c][DefaultId].status = "done"
        /\ Planned = Child => \A c \in members' : ws'[c].status # "done"
    BY <1>1, <2>1, <2>2, <2>4, AloneRests
  <2>6. ClaimInv'
    BY <2>2, <2>5 DEF ClaimInv, TheNode
  <2> QED
    BY <2>1, <2>3, <2>5, <2>6 DEF QuietStore
<1> QED
  BY <1>1, <1>2, <1>3 DEF StartLeaf, Present

\* What a worker by itself leaves behind.
LEMMA AloneMarked ==
  ASSUME IInv, QuietStore, pc = "watch",
         NEW status \in {"done", "pending", "failed", "needs-decision"}, NEW retry,
         MarkNode(doing, at, mine, status, retry, None), PlanInv',
         live' = live \ {mine.session}
  PROVE  /\ StoreInv' /\ Elsewhere(doing) /\ nodes'[doing][DefaultId].status = status
         /\ \A c \in Busy : active[c].node.session \in live'
         /\ at = DefaultId
<1>1. /\ doing \in Task /\ doing \notin Busy /\ at = DefaultId /\ Known(mine)
      /\ mine = TheNode(doing) /\ ~ Retired(TheNode(doing))
  BY Alone DEF QuietStore, HeldInv, AloneInv, Retired
<1>2. \A c \in Busy : active[c].node.session \in live'
  BY <1>1, OthersLive DEF QuietStore
<1> QED
  BY <1>1, <1>2, StoreMarked DEF QuietStore

\* It is done, and its node with it.
LEMMA QuietLeafDone == ASSUME IInv, QuietStore, LeafDone PROVE QuietStore'
<1>1. pc = "watch" /\ MarkNode(doing, at, mine, "done", mine.retry, None)
  BY DEF LeafDone
<1>2. /\ ws[doing].status = "active" /\ doing \in Task
  BY <1>1, Alone DEF QuietStore, AloneInv
<1>3. CASE doing # Parent /\ live' = live \ {mine.session} /\ LeafReturn("done", at) /\ UNCHANGED ws
  <2>1. PlanInv' /\ PlanElsewhere(doing)
    BY <1>3, PlanRests DEF QuietStore, PlanElsewhere
  <2>2. /\ StoreInv' /\ Elsewhere(doing) /\ nodes'[doing][DefaultId].status = "done"
        /\ \A c \in Busy : active[c].node.session \in live'
        /\ at = DefaultId
    BY <1>1, <1>3, <2>1, AloneMarked
  <2> QED
    BY <1>1, <1>2, <1>3, <2>1, <2>2, QuietReturn
<1>4. CASE doing = Parent /\ Write(Parent, "done") /\ live' = live \ {mine.session} /\ LeafReturn("done", at)
  <2>1. PlanInv' /\ PlanElsewhere(doing)
    BY <1>2, <1>4, PlanWrites DEF QuietStore, StoreInv, PlanElsewhere
  <2>2. /\ StoreInv' /\ Elsewhere(doing) /\ nodes'[doing][DefaultId].status = "done"
        /\ \A c \in Busy : active[c].node.session \in live'
        /\ at = DefaultId
    BY <1>1, <1>4, <2>1, AloneMarked
  <2> QED
    BY <1>1, <1>4, <2>1, <2>2, ParentApart, QuietReturn
<1> QED
  BY <1>2, <1>3, <1>4 DEF LeafDone, Present

\* It asks for a decision.
LEMMA QuietLeafAsks == ASSUME IInv, QuietStore, LeafAsks PROVE QuietStore'
<1>1. /\ pc = "watch" /\ MarkNode(doing, at, mine, "needs-decision", mine.retry, None)
      /\ live' = live \ {mine.session} /\ LeafReturn("needs-decision", at) /\ UNCHANGED ws
  BY DEF LeafAsks
<1>2. /\ ws[doing].status = "active" /\ PlanInv' /\ PlanElsewhere(doing)
  BY <1>1, PlanRests DEF QuietStore, AloneInv, PlanElsewhere
<1>3. /\ StoreInv' /\ Elsewhere(doing) /\ nodes'[doing][DefaultId].status = "needs-decision"
      /\ \A c \in Busy : active[c].node.session \in live'
      /\ at = DefaultId
  BY <1>1, <1>2, AloneMarked
<1> QED
  BY <1>1, <1>2, <1>3, QuietReturn

\* It is paused.
LEMMA QuietLeafPauses == ASSUME IInv, QuietStore, LeafPauses PROVE QuietStore'
<1>1. pc = "watch" /\ LeafReturn("paused", at) /\ UNCHANGED <<ws, nodes, live>> /\ at = DefaultId
  BY DEF LeafPauses, QuietStore, HeldInv
<1>2. StoreInv' /\ Elsewhere(doing) /\ PlanElsewhere(doing)
  BY <1>1, StoreRests, PlanRests DEF QuietStore, Elsewhere, PlanElsewhere
<1>3. nodes'[doing][DefaultId].status = "running" /\ \A c \in Busy : active[c].node.session \in live'
  BY <1>1 DEF QuietStore, AloneInv, BusyInv, TheNode
<1> QED
  BY <1>1, <1>2, <1>3, QuietReturn

\* It fails and is tried again, with a session nobody had.
LEMMA QuietLeafRetries == ASSUME IInv, QuietStore, LeafRetries PROVE QuietStore'
<1>1. /\ pc = "watch" /\ MarkNode(doing, at, mine, "pending", mine.retry + 1, None)
      /\ live' = live \ {mine.session} /\ mine' = AbsentNode /\ pc' = "ensure"
      /\ UNCHANGED <<ws, doing, at, parentNode, active, completed, members>>
  BY DEF LeafRetries, Goto, wave
<1>2. /\ ws[doing].status = "active" /\ PlanInv' /\ PlanElsewhere(doing)
  BY <1>1, PlanRests DEF QuietStore, AloneInv, PlanElsewhere
<1>3. /\ StoreInv' /\ Elsewhere(doing) /\ nodes'[doing][DefaultId].status = "pending"
      /\ \A c \in Busy : active[c].node.session \in live'
  BY <1>1, <1>2, AloneMarked
<1>4. /\ ChildInv' /\ BusyInv' /\ \A c \in Claimed' : nodes'[c][DefaultId].status = "done"
      /\ Planned = Child => \A c \in members' : ws'[c].status # "done"
  BY <1>1, <1>2, <1>3, AloneRests
<1>5. HeldInv' /\ AloneInv'
  <2>1. Known(AbsentNode)
    BY DEF Known, AbsentNode
  <2> QED
    BY <1>1, <1>2, <2>1 DEF QuietStore, HeldInv, AloneInv
<1>6. ClaimInv'
  BY <1>1, <1>4 DEF ClaimInv, TheNode
<1> QED
  BY <1>3, <1>4, <1>5, <1>6 DEF QuietStore

\* It fails for good.
LEMMA QuietLeafFails == ASSUME IInv, QuietStore, LeafFails PROVE QuietStore'
<1>1. /\ pc = "watch" /\ MarkNode(doing, at, mine, "failed", mine.retry, None)
      /\ live' = live \ {mine.session}
  BY DEF LeafFails
<1>2. ws[doing].status = "active" /\ doing \in Task
  BY <1>1, Alone DEF QuietStore, AloneInv
<1>3. Write(doing, "blocked") /\ LeafReturn("failed", at)
  BY <1>2 DEF LeafFails, Present
<1>4. PlanInv' /\ PlanElsewhere(doing) /\ ws'[doing].status = "blocked"
  BY <1>2, <1>3, PlanWrites DEF QuietStore, StoreInv, PlanElsewhere
<1>5. /\ StoreInv' /\ Elsewhere(doing) /\ nodes'[doing][DefaultId].status = "failed"
      /\ \A c \in Busy : active[c].node.session \in live'
      /\ at = DefaultId
  BY <1>1, <1>4, AloneMarked
<1> QED
  BY <1>1, <1>3, <1>4, <1>5, QuietReturn

-----------------------------------------------------------------------------
\* The end of the wave.

\* Validation accepts the wave's claims, or they are to be rejected.
LEMMA QuietValidate == ASSUME IInv, QuietStore, Validate PROVE QuietStore'
<1>1. /\ pc = "wave" /\ remaining = {} /\ Busy = {} /\ pc' \in {"report", "reject claims"}
      /\ UNCHANGED <<ws, nodes, live, wave, impact, nested, outcome>>
  BY DEF Validate, Goto
<1>2. UNCHANGED <<parentNode, active, completed, at, mine, members>>
  BY <1>1 DEF wave, nested
<1>3. StoreInv' /\ HeldInv' /\ ChildInv' /\ BusyInv' /\ AloneInv'
  BY <1>1, <1>2, StoreRests, PlanRests, HeldRests, ChildrenSame, WorkersSame
  DEF QuietStore, Rejected, AloneInv
<1>4. members = Claimed /\ Claimed' = Claimed /\ Busy' = Busy
  BY <1>1, <1>2, ClaimedRests, BusyRests DEF IInv, PlaceInv, Placed, Apart
<1>5. ClaimInv'
  BY <1>1, <1>2, <1>4 DEF QuietStore, ClaimInv, Unreported, TheNode
<1> QED
  BY <1>3, <1>5 DEF QuietStore

\* The rest of a queue.
LEMMA TailOf ==
  ASSUME NEW S, NEW q \in Seq(S), q # <<>>
  PROVE  /\ 1 \in DOMAIN q /\ Head(q) = q[1]
         /\ \A i \in DOMAIN Tail(q) : i + 1 \in DOMAIN q /\ Tail(q)[i] = q[i + 1]
         /\ \A i \in DOMAIN q : i = 1 \/ (i - 1 \in DOMAIN Tail(q) /\ q[i] = Tail(q)[i - 1])
<1>1. /\ Len(q) \in Nat \ {0} /\ DOMAIN q = 1 .. Len(q) /\ Head(q) = q[1]
  OBVIOUS
<1>2. /\ Len(Tail(q)) = Len(q) - 1 /\ DOMAIN Tail(q) = 1 .. Len(q) - 1
      /\ \A i \in 1 .. Len(q) - 1 : Tail(q)[i] = q[i + 1]
  BY <1>1
<1>3. \A i \in DOMAIN q : i # 1 => i - 1 \in 1 .. Len(q) - 1 /\ (i - 1) + 1 = i
  BY <1>1
<1> QED
  BY <1>1, <1>2, <1>3

\* With the first claim taken away, the others are as before.
LEMMA ClaimPopped ==
  ASSUME IInv, HeldInv, completed # <<>>, completed' = Tail(completed)
  PROVE  /\ Claimed' \subseteq Claimed /\ Claimed \subseteq Claimed' \cup {Head(completed).task}
         /\ Head(completed).task \in Claimed /\ Head(completed).at = DefaultId
         /\ \A i \in DOMAIN completed' : completed'[i].at = DefaultId
<1>1. completed \in Seq([task : Child, at : NodeId])
  BY DEF IInv, ShapeInv
<1>2. /\ 1 \in DOMAIN completed /\ Head(completed) = completed[1]
      /\ \A i \in DOMAIN completed' : i + 1 \in DOMAIN completed /\ completed'[i] = completed[i + 1]
      /\ \A i \in DOMAIN completed :
           i = 1 \/ (i - 1 \in DOMAIN completed' /\ completed[i] = completed'[i - 1])
  BY <1>1, TailOf
<1>3. Claimed' \subseteq Claimed
  BY <1>2 DEF Claimed
<1>4. ASSUME NEW i \in DOMAIN completed
      PROVE  completed[i].task \in Claimed' \cup {Head(completed).task}
  <2>1. CASE i = 1
    BY <1>2, <2>1
  <2>2. CASE i # 1
    BY <1>2, <1>4, <2>2 DEF Claimed
  <2> QED
    BY <2>1, <2>2
<1>5. Claimed \subseteq Claimed' \cup {Head(completed).task}
  BY <1>4 DEF Claimed
<1> QED
  BY <1>2, <1>3, <1>5 DEF Claimed, HeldInv

\* Rejected claims are failed one by one; none was reported unless a follow-up did.
LEMMA QuietRejectClaims == ASSUME IInv, QuietStore, RejectClaims PROVE QuietStore'
<1>1. pc = "reject claims" /\ UNCHANGED <<ws, live>> /\ Busy = {}
  BY DEF RejectClaims, QuietStore, ClaimInv
<1>2. CASE MarkParent("needs-decision") /\ Finish("needs-decision")
  BY <1>1, <1>2, QuietParentEnds
<1>3. CASE Finish("rejected") /\ UNCHANGED nodes
  BY <1>1, <1>3, QuietQuit
<1>4. CASE /\ completed # <<>>
           /\ LET c == Head(completed).task
                  n == Head(completed).at
              IN /\ Present(c)
                 /\ MarkNode(c, n, nodes[c][n], "failed", nodes[c][n].retry, None)
           /\ completed' = Tail(completed) /\ Goto("reject claims")
           /\ UNCHANGED <<parentNode, members, active, nested>>
  <2> DEFINE c == Head(completed).task
             n == Head(completed).at
  <2>1. /\ Claimed' \subseteq Claimed /\ c \in Claimed /\ n = DefaultId
        /\ \A i \in DOMAIN completed' : completed'[i].at = DefaultId
    BY <1>4, ClaimPopped DEF QuietStore
  <2>2. c \in Child /\ c \in Task /\ c \in members /\ ws[c].status # "missing"
    BY <1>1, <1>4, <2>1, ClaimsOfChildren DEF QuietStore, ClaimInv, Task, Present
  <2>3. MarkNode(c, DefaultId, TheNode(c), "failed", TheNode(c).retry, None)
    BY <1>4, <2>1 DEF TheNode
  <2> HIDE DEF c, n
  <2>4. StoreInv' /\ Elsewhere(c) /\ nodes'[c][DefaultId].status = "failed"
    BY <1>1, <2>2, <2>3, NodeThere, PlanRests, StoreMarked DEF QuietStore, StoreInv
  <2>5. pc' = "reject claims" /\ UNCHANGED <<at, mine>> /\ Rejected' /\ PlanElsewhere(c)
    BY <1>1, <1>4 DEF Goto, nested, Rejected, PlanElsewhere
  <2>6. Planned = Child => ws[c].status # "done"
    BY <1>1, <2>2 DEF QuietStore, ClaimInv, Unreported
  <2>7. ChildInv'
    BY <1>1, <2>2, <2>4, <2>5, <2>6, ChildrenRest DEF QuietStore
  <2>8. Busy' = Busy
    BY <1>4, BusyRests
  <2>9. BusyInv' /\ AloneInv' /\ HeldInv'
    BY <1>1, <1>4, <2>1, <2>5, <2>8 DEF QuietStore, BusyInv, AloneInv, HeldInv
  <2>10. ClaimInv'
    BY <1>1, <1>4, <2>1, <2>5, <2>8 DEF QuietStore, ClaimInv, Unreported
  <2> QED
    BY <2>4, <2>7, <2>9, <2>10 DEF QuietStore
<1> QED
  BY <1>2, <1>3, <1>4 DEF RejectClaims

\* Claims are reported one by one to the WorkSource, their nodes done.
LEMMA QuietReport == ASSUME IInv, QuietStore, Report PROVE QuietStore'
<1>1. pc = "report" /\ UNCHANGED live /\ Busy = {} /\ ~ Rejected
  BY DEF Report, QuietStore, ClaimInv, Rejected
<1>2. CASE /\ completed = <<>> /\ MarkParent("done") /\ Goto("report parent")
           /\ UNCHANGED <<ws, wave, impact, nested, outcome>>
  BY <1>1, <1>2, QuietParentMarked DEF Goto
<1>3. CASE Finish("rejected") /\ UNCHANGED <<ws, nodes>>
  BY <1>1, <1>3, QuietQuit
<1>4. CASE /\ completed # <<>> /\ Write(Head(completed).task, "done")
           /\ completed' = Tail(completed) /\ Goto("report")
           /\ UNCHANGED <<nodes, parentNode, members, remaining, active, impact, nested, outcome>>
  <2> DEFINE c == Head(completed).task
  <2>1. /\ Claimed' \subseteq Claimed /\ Claimed \subseteq Claimed' \cup {c} /\ c \in Claimed
        /\ \A i \in DOMAIN completed' : completed'[i].at = DefaultId
    BY <1>4, ClaimPopped DEF QuietStore
  <2>2. c \in Child /\ c \in Task /\ Claimed \subseteq members /\ members \subseteq Child
    BY <1>1, <2>1, ClaimsOfChildren DEF QuietStore, ClaimInv, Task, IInv, PlaceInv
  <2> HIDE DEF c
  <2>3. PlanInv' /\ ws'[c].status = "done" /\ PlanElsewhere(c)
    BY <1>4, <2>2, PlanWrites DEF QuietStore, StoreInv, PlanElsewhere, c
  <2>4. StoreInv' /\ Elsewhere(c)
    BY <1>1, <1>4, <2>3, StoreRests DEF QuietStore, Elsewhere
  <2>5. \A d \in Claimed : TheNode(d).status = "done"
    BY <1>1 DEF QuietStore, ClaimInv
  <2>6. ChildInv'
    BY <1>1, <1>4, <2>1, <2>2, <2>3, <2>4, <2>5, ChildrenRest DEF QuietStore, TheNode
  <2>7. Busy' = Busy /\ pc' = "report" /\ UNCHANGED <<at, mine>>
    BY <1>4, BusyRests DEF Goto, nested
  <2>8. BusyInv' /\ AloneInv' /\ HeldInv'
    BY <1>1, <1>4, <2>1, <2>7 DEF QuietStore, BusyInv, AloneInv, HeldInv
  <2>9. \A d \in members : d \in Claimed' \/ ws'[d].status = "done"
    BY <1>1, <2>1, <2>2, <2>3 DEF QuietStore, ClaimInv, PlanElsewhere, Task
  <2>10. ClaimInv'
    BY <1>1, <1>4, <2>1, <2>2, <2>5, <2>7, <2>9 DEF QuietStore, ClaimInv, Unreported, TheNode
  <2> QED
    BY <2>4, <2>6, <2>8, <2>10 DEF QuietStore
<1> QED
  BY <1>2, <1>3, <1>4 DEF Report

\* The parent is reported after its children.
LEMMA QuietReportParent == ASSUME IInv, QuietStore, ReportParent PROVE QuietStore'
<1>1. pc = "report parent" /\ UNCHANGED <<nodes, live>> /\ ~ Rejected
  BY DEF ReportParent, Rejected
<1>2. CASE Finish("rejected") /\ UNCHANGED ws
  BY <1>1, <1>2, QuietQuit
<1>3. CASE Write(Parent, "done") /\ Reconcile("return") /\ UNCHANGED <<wave, impact, nested>>
  <2>1. PlanInv' /\ PlanElsewhere(Parent) /\ Elsewhere(Parent)
    BY <1>1, <1>3, ParentApart, PlanWrites DEF QuietStore, StoreInv, PlanElsewhere, Elsewhere
  <2>2. /\ pc' = "checkpoint" /\ then' = "return"
        /\ UNCHANGED <<parentNode, active, completed, at, mine, members>>
    BY <1>3 DEF Reconcile, wave, nested
  <2>3. \A c \in Child : ws'[c] = ws[c]
    BY <2>1, ParentApart DEF PlanElsewhere
  <2>4. StoreInv' /\ HeldInv' /\ ChildInv' /\ BusyInv' /\ AloneInv'
    BY <1>1, <2>1, <2>2, <2>3, StoreRests, HeldRests, ParentApart, ChildrenRest, WorkersSame
    DEF QuietStore, AloneInv
  <2>5. ClaimInv'
    BY <1>1, <2>2, ClaimedRests DEF QuietStore, ClaimInv, Unreported, TheNode
  <2> QED
    BY <2>4, <2>5 DEF QuietStore
<1> QED
  BY <1>2, <1>3 DEF ReportParent

\* The outcome is returned.
LEMMA QuietReturnOutcome == ASSUME IInv, QuietStore, ReturnOutcome PROVE QuietStore'
BY QuietQuit DEF ReturnOutcome

-----------------------------------------------------------------------------
\* Restarts and kills, and all of it together.

\* A kill leaves plan and store as they are, and fewer sessions.
LEMMA QuietCrash == ASSUME IInv, QuietStore, Crash PROVE QuietStore'
<1>1. UNCHANGED <<ws, nodes>> /\ pc' = "idle" /\ live' \subseteq live
  BY DEF Crash
<1>2. StoreInv' /\ ChildInv'
  BY <1>1, StoreRests, PlanRests, ChildrenSame DEF QuietStore, Rejected
<1> QED
  BY <1>1, <1>2, QuietEnd DEF Crash

\* So does a restart.
LEMMA QuietRestart == ASSUME IInv, QuietStore, Restart PROVE QuietStore'
<1>1. /\ UNCHANGED <<ws, nodes, pc, then, wave, nested, outcome>> /\ live' \subseteq live
      /\ pc = "idle"
  BY DEF Restart
<1>2. UNCHANGED <<parentNode, active, completed, at, mine, members>>
  BY <1>1 DEF wave, nested
<1>3. Busy = {} /\ Busy' = Busy
  BY <1>1, <1>2, BusyRests DEF IInv, PlaceInv, Before, Clean
<1>4. StoreInv' /\ HeldInv' /\ ChildInv' /\ BusyInv' /\ AloneInv'
  BY <1>1, <1>2, <1>3, StoreRests, PlanRests, HeldRests, ChildrenSame
  DEF QuietStore, Rejected, AloneInv, BusyInv
<1>5. ClaimInv'
  BY <1>1, <1>2, <1>3, ClaimedRests DEF QuietStore, ClaimInv, Unreported, TheNode
<1> QED
  BY <1>4, <1>5 DEF QuietStore

\* Every step keeps it, until somebody edits the plan.
LEMMA QuietNext ==
  ASSUME EndlessSessions, IInv, Undisturbed, [Next]_vars PROVE Undisturbed'
<1>1. CASE \E t \in Task : Edit(t)
  <2>1. edits \in Nat /\ edits' = edits + 1
    BY <1>1 DEF Edit, Undisturbed
  <2> QED
    BY <2>1 DEF Undisturbed
<1>2. CASE UNCHANGED vars
  <2>1. UNCHANGED <<ws, nodes, live, pc, then, wave, nested, outcome, edits>>
    BY <1>2 DEF vars, bounds
  <2>2. UNCHANGED <<parentNode, active, completed, members, doing, at, mine>>
    BY <2>1 DEF wave, nested
  <2>3. Busy' = Busy /\ Claimed' = Claimed
    BY <2>2, BusyRests, ClaimedRests
  <2>4. ASSUME QuietStore PROVE QuietStore'
    <3>1. StoreInv' /\ ChildInv' /\ HeldInv'
      BY <2>1, <2>2, <2>4, StoreRests, PlanRests, ChildrenSame, HeldRests
      DEF QuietStore, Rejected
    <3>2. BusyInv'
      BY <2>1, <2>2, <2>3, <2>4 DEF QuietStore, BusyInv, TheNode
    <3>3. AloneInv'
      BY <2>1, <2>2, <2>3, <2>4 DEF QuietStore, AloneInv, TheNode
    <3>4. ClaimInv'
      BY <2>1, <2>2, <2>3, <2>4 DEF QuietStore, ClaimInv, TheNode, Unreported
    <3> QED
      BY <3>1, <3>2, <3>3, <3>4 DEF QuietStore
  <2> QED
    BY <2>1, <2>4 DEF Undisturbed
<1>3. ASSUME ~ (\E t \in Task : Edit(t)), Next PROVE UNCHANGED edits
  BY <1>3
  DEF Next, Work, Run, Pause, LeafPauses, Restart, Crash, bounds, Finish, Goto, Reconcile, LeafReturn,
      Checkpoint, CheckpointRejected, Descend, MarkParentActive, Fill, ReadRejected,
      WorkerDone, Rework, FailChild, WorkerAsks, Escalate, Bubble, ShareContext, Quiesce,
      ResolveConflict, DecideHuman, DecideFollowUp, DecidePatch, DecideRejected, Settle,
      StartLeaf, LeafDone, LeafAsks, LeafRetries, LeafFails, Validate, RejectClaims, Report,
      ReportParent, ReturnOutcome
<1>4. ASSUME QuietStore, ~ (\E t \in Task : Edit(t)), Next PROVE QuietStore'
  <2>1. CASE Work
    BY <1>4, <2>1, QuietCheckpoint, QuietCheckpointRejected, QuietDescend,
       QuietMarkParentActive, QuietFill, QuietReadRejected, QuietWorkerDone, QuietRework,
       QuietFailChild, QuietWorkerAsks, QuietEscalate, QuietBubble, QuietShareContext,
       QuietQuiesce, QuietResolveConflict, QuietDecideHuman, QuietDecideFollowUp,
       QuietDecidePatch, QuietDecideRejected, QuietSettle, QuietStartLeaf, QuietLeafDone,
       QuietLeafAsks, QuietLeafRetries, QuietLeafFails, QuietValidate, QuietRejectClaims,
       QuietReport, QuietReportParent, QuietReturnOutcome
    DEF Work
  <2>2. CASE ~ Work
    BY <1>4, <2>2, QuietRun, QuietPause, QuietLeafPauses, QuietRestart, QuietCrash DEF Next
  <2> QED
    BY <2>1, <2>2
<1> QED
  BY <1>1, <1>2, <1>3, <1>4 DEF Undisturbed

-----------------------------------------------------------------------------
\* As long as nobody edits the plan: what the store has of every task agrees with
\* the WorkSource and with the workers of the run, at every step of it, through
\* kills and restarts (executeChildWave, runLeaf, applyCheckpoint).
THEOREM PlanAndStoreAgree ==
  ASSUME EndlessSessions PROVE Spec => []Undisturbed
<1>1. Init => Undisturbed
  BY QuietInit
<1>2. IInv /\ Undisturbed /\ [Next]_vars => Undisturbed'
  BY QuietNext
<1> QED
  BY <1>1, <1>2, Invariant, PTL DEF Spec

\* A child the main loop awaits is on disk as running, with the session that is
\* awaited, and active in the plan: a kill at any step leaves a restart all it
\* needs to find the worker (startWorker before active.set in executeChildWave).
THEOREM WorkersAreOnDisk ==
  ASSUME EndlessSessions PROVE Spec => []ActiveWorkersRunning
<1>1. Undisturbed => ActiveWorkersRunning
  BY DEF Undisturbed, QuietStore, BusyInv, HeldInv, ActiveWorkersRunning, TheNode, Busy
<1> QED
  BY <1>1, PlanAndStoreAgree, PTL

\* Which of its nodes a task is taken by.
LEMMA NodeTaken ==
  ASSUME IInv, OneNode, NEW c \in Child, TheNode(c).status = "done"
  PROVE  nodes[c][ActiveNode(nodes[c])].status = "done"
<1>1. Active(nodes[c]) = {DefaultId}
  BY NodeThere DEF Retired, Task
<1> QED
  BY <1>1 DEF ActiveNode, TheNode

\* However reworks, follow-ups, rejected waves and kills have gone before, a parent
\* is reported done only over children that the WorkSource and the store both
\* have as done (the end of executeChildWave).
THEOREM ParentsAreDoneLast ==
  ASSUME EndlessSessions PROVE Spec => []ParentDoneOverDoneChildren
<1>1. ASSUME IInv, Undisturbed PROVE ParentDoneOverDoneChildren
  <2> SUFFICES ASSUME edits = 0, pc = "report parent", NEW c \in members
               PROVE  ws[c].status = "done" /\ nodes[c][ActiveNode(nodes[c])].status = "done"
    BY DEF ParentDoneOverDoneChildren
  <2>1. c \in Child /\ QuietStore
    BY <1>1 DEF IInv, PlaceInv, Undisturbed
  <2>2. ws[c].status = "done"
    BY <2>1 DEF QuietStore, ClaimInv
  <2>3. TheNode(c).status = "done"
    BY <2>1, <2>2 DEF QuietStore, ChildInv, Rejected
  <2> QED
    BY <1>1, <2>1, <2>2, <2>3, NodeTaken DEF QuietStore, StoreInv
<1> QED
  BY <1>1, Invariant, PlanAndStoreAgree, PTL

\* With all children planned from the start, what is reported done is done in the
\* store too, at every step: no kill and no rejected wave comes between the two
\* (reportClaims after markNodeState). A follow-up is the exception the code makes,
\* see ChildInv.
THEOREM ReportsAreTrue ==
  ASSUME EndlessSessions, Planned = Child PROVE Spec => []ReportedDoneIsDone
<1>1. ASSUME IInv, Undisturbed PROVE ReportedDoneIsDone
  <2> SUFFICES ASSUME edits = 0, NEW c \in Child, ws[c].status = "done"
               PROVE  nodes[c][ActiveNode(nodes[c])].status = "done"
    BY DEF ReportedDoneIsDone
  <2>1. TheNode(c).status = "done"
    BY <1>1 DEF QuietStore, ChildInv, Undisturbed
  <2> QED
    BY <1>1, <2>1, NodeTaken DEF QuietStore, StoreInv, Undisturbed
<1> QED
  BY <1>1, Invariant, PlanAndStoreAgree, PTL
==============================================================================
