--------------------------- MODULE Reconciliation ---------------------------
(***************************************************************************)
(* reconcileCheckpoints: what the Supervisor does, at a checkpoint, about   *)
(* each task, given the WorkSource's view of it and the nodes the execution *)
(* store holds for it. The rules are diff-by-id, one task at a time; only a *)
(* throw concerns all of them.                                              *)
(*                                                                          *)
(* A revision stands for an etag and is compared for equality only; a       *)
(* definition stands for the fingerprint of the acceptance criteria and     *)
(* dependencies. Nodes of one task are a function from node ids: a node is  *)
(* "absent" until it is first recorded.                                     *)
(***************************************************************************)
EXTENDS Naturals

CONSTANTS Revision,     \* etags
          Definition,   \* what a worker would be asked to do
          Session,      \* agent sessions
          DefaultId,    \* node:<task>, the id defaultNodeIdForTask gives
          None          \* an optional field that is not there

ASSUME IdsAreDistinct ==
  /\ DefaultId \notin Revision
  /\ None \notin Revision \cup Definition \cup Session

WorkStatus == {"todo", "active", "done", "blocked"}

NodeStatus == {"pending", "running", "done", "needs-decision", "failed",
               "awaiting-human", "cancelled", "superseded"}

\* The replacement of a superseded node is named after the revision that
\* called for it: node:<task>:reconciled:<revision>.
NodeId == {DefaultId} \cup Revision
ReplacementId(revision) == revision

\* A task as the WorkSource lists it, or "missing".
WorkTask == [status : WorkStatus \cup {"missing"}, rev : Revision, def : Definition]

\* tokenStatus is kept apart from the session; work tells whether the work
\* product of an interrupted worker is among the node's evidence.
Node == [status : NodeStatus \cup {"absent"}, retry : Nat,
         session : Session \cup {None}, resumable : BOOLEAN,
         rev : Revision \cup {None}, def : Definition \cup {None}, work : BOOLEAN]

AbsentNode == [status |-> "absent", retry |-> 0, session |-> None,
               resumable |-> FALSE, rev |-> None, def |-> None, work |-> FALSE]

Retired(node) == node.status \in {"absent", "cancelled", "superseded"}
InFlight(node) == node.status = "running"

Active(nodes) == {n \in NodeId : ~ Retired(nodes[n])}

\* latestActiveNodesByTask: the first active node in the order of the log. A
\* task's first node has the default id, and two replacements are never active.
ActiveNode(nodes) ==
  IF DefaultId \in Active(nodes) THEN DefaultId
  ELSE CHOOSE n \in NodeId : ~ Retired(nodes[n])

\* Mutation: a changed revision alone counts as a changed definition.
ActionOnRevision(task, nodes) ==
  LET node == nodes[ActiveNode(nodes)]
      gone == task.status = "missing"
      finished == task.status = "done"
  IN IF Active(nodes) = {}
     THEN IF gone \/ finished THEN "none" ELSE "schedule-node"
     ELSE IF gone \/ finished \/ task.rev # node.rev
     THEN IF InFlight(node) THEN "interrupt-and-supersede"
          ELSE IF gone THEN "cancel-node"
          ELSE IF ~ finished THEN "mark-stale"
          ELSE IF node.status = "done" THEN "none" ELSE "drop-from-queue"
     ELSE "none"

\* The type of the action for one task; "none" if nothing is to be done.
Action(task, nodes) ==
  LET node == nodes[ActiveNode(nodes)]
      gone == task.status = "missing"
      finished == task.status = "done"
      changed == task.rev # node.rev /\ node.def \notin {None, task.def}
  IN IF Active(nodes) = {}
     THEN IF gone \/ finished THEN "none" ELSE "schedule-node"
     ELSE IF gone \/ finished \/ changed
     THEN IF InFlight(node) THEN "interrupt-and-supersede"
          ELSE IF gone THEN "cancel-node"
          ELSE IF ~ finished THEN "mark-stale"
          ELSE IF node.status = "done" THEN "none" ELSE "drop-from-queue"
     ELSE IF task.rev # node.rev THEN "refresh-observed-revision" ELSE "none"

\* interruptAndSupersede throws for a node without a session id, and the
\* whole reconciliation with it.
Throws(task, nodes) ==
  /\ Action(task, nodes) = "interrupt-and-supersede"
  /\ nodes[ActiveNode(nodes)].session = None

\* Mutation: only a missing task needs no replacement.
NeedsReplacementUnlessMissing(task) == task.status # "missing"

\* A superseded node is replaced when its task is still there to be done.
NeedsReplacement(task) == task.status \notin {"missing", "done"}
=============================================================================
