----------------------------- MODULE Projection -----------------------------
(***************************************************************************)
(* JsonlExecutionStore.load: a snapshot of one task is what its events       *)
(* project to. An event that names a node no earlier event introduced, or    *)
(* that invalidates a resume token no session holds, makes the load throw,    *)
(* and with it every later load: the store appends without projecting first. *)
(***************************************************************************)
EXTENDS Naturals, Sequences, SequencesExt

CONSTANTS NodeId,      \* ids the Supervisor gives to the nodes of the task
          Ref,         \* ids of decisions and validation reports
          MaxEvents    \* bound: length of the log

VARIABLE log           \* the decoded lines of the task's file

-----------------------------------------------------------------------------
\* Projected snapshots. nodes lists the nodes in Map insertion order.

Node == [id : NodeId, session : {"none", "resumable", "restart-required"},
         decisions : Seq(Ref), reports : Seq(Ref), evidence : Seq(Nat)]

Cursor == {{}} \cup {{n} : n \in NodeId}

Snapshot == [nodes : Seq(Node), decisions : SUBSET Ref, reports : SUBSET Ref,
             cursor : Cursor, failed : BOOLEAN]

Empty == [nodes |-> <<>>, decisions |-> {}, reports |-> {}, cursor |-> {},
          failed |-> FALSE]

Has(p, n) == \E i \in DOMAIN p.nodes : p.nodes[i].id = n
Place(p, n) == CHOOSE i \in DOMAIN p.nodes : p.nodes[i].id = n
Get(p, n) == p.nodes[Place(p, n)]

\* Map.set: an existing key keeps its place.
Put(p, node) ==
  IF Has(p, node.id) THEN [p EXCEPT !.nodes[Place(p, node.id)] = node]
                     ELSE [p EXCEPT !.nodes = Append(@, node)]

\* list.includes(ref) ? list : [...list, ref]
AddOnce(list, ref) == IF Contains(list, ref) THEN list ELSE Append(list, ref)

Failure(p) == [p EXCEPT !.failed = TRUE]

\* Mutation: an upsert starts the node's history afresh.
ProjectUpsertAfresh(p, e) ==
  Put(p, [id |-> e.node, session |-> e.session,
          decisions |-> <<>>, reports |-> <<>>, evidence |-> <<>>])

\* node_upsert: everything the event carries, and the history so far.
ProjectUpsert(p, e) ==
  LET old == IF Has(p, e.node) THEN Get(p, e.node)
             ELSE [decisions |-> <<>>, reports |-> <<>>, evidence |-> <<>>]
  IN Put(p, [id |-> e.node, session |-> e.session, decisions |-> old.decisions,
             reports |-> old.reports, evidence |-> old.evidence])

ProjectDecision(p, e) ==
  LET q == [p EXCEPT !.decisions = @ \cup {e.ref}]
  IN IF ~ Has(p, e.node) THEN Failure(q)
     ELSE Put(q, [Get(p, e.node) EXCEPT !.decisions = AddOnce(@, e.ref)])

ProjectReport(p, e) ==
  LET q == [p EXCEPT !.reports = @ \cup {e.ref}]
  IN IF ~ Has(p, e.node) THEN Failure(q)
     ELSE Put(q, [Get(p, e.node) EXCEPT !.reports = AddOnce(@, e.ref)])

\* e.at identifies the piece of evidence: the position of its event.
ProjectEvidence(p, e) ==
  IF ~ Has(p, e.node) THEN Failure(p)
  ELSE Put(p, [Get(p, e.node) EXCEPT !.evidence = Append(@, e.at)])

ProjectCursor(p, e) == [p EXCEPT !.cursor = e.cursor]

\* Mutation: invalidating without a session is ignored.
ProjectInvalidateLeniently(p, e) ==
  IF ~ Has(p, e.node) \/ Get(p, e.node).session = "none" THEN p
  ELSE Put(p, [Get(p, e.node) EXCEPT !.session = "restart-required"])

ProjectInvalidate(p, e) ==
  IF ~ Has(p, e.node) \/ Get(p, e.node).session = "none" THEN Failure(p)
  ELSE Put(p, [Get(p, e.node) EXCEPT !.session = "restart-required"])

\* The switch of projectEvents; nothing is projected after a throw.
ProjectEvent(p, e) ==
  IF p.failed THEN p
  ELSE CASE e.type = "node_upsert" -> ProjectUpsert(p, e)
         [] e.type = "decision_recorded" -> ProjectDecision(p, e)
         [] e.type = "validation_report_recorded" -> ProjectReport(p, e)
         [] e.type = "evidence_appended" -> ProjectEvidence(p, e)
         [] e.type = "cursor_set" -> ProjectCursor(p, e)
         [] e.type = "resume_token_invalidated" -> ProjectInvalidate(p, e)

\* The loop over the decoded lines: the snapshot after each of them.
Snapshots(events) ==
  LET after[i \in 0..Len(events)] ==
        IF i = 0 THEN Empty ELSE ProjectEvent(after[i - 1], events[i])
  IN after

Project(events) == Snapshots(events)[Len(events)]

-----------------------------------------------------------------------------
\* The store's operations: each appends one event, none projects first.

Init == log = <<>>

Store(e) == Len(log) < MaxEvents /\ log' = Append(log, e)

UpsertNode(n, s) ==
  Store([type |-> "node_upsert", node |-> n, session |-> s])
RecordDecision(n, d) ==
  Store([type |-> "decision_recorded", node |-> n, ref |-> d])
RecordValidationReport(n, r) ==
  Store([type |-> "validation_report_recorded", node |-> n, ref |-> r])
AppendEvidence(n) ==
  Store([type |-> "evidence_appended", node |-> n, at |-> Len(log) + 1])
SetCursor(c) ==
  Store([type |-> "cursor_set", cursor |-> c])
InvalidateResumeToken(n) ==
  Store([type |-> "resume_token_invalidated", node |-> n])

Next ==
  \/ \E n \in NodeId, s \in {"none", "resumable"} : UpsertNode(n, s)
  \/ \E n \in NodeId, d \in Ref : RecordDecision(n, d)
  \/ \E n \in NodeId, r \in Ref : RecordValidationReport(n, r)
  \/ \E n \in NodeId : AppendEvidence(n)
  \/ \E c \in Cursor : SetCursor(c)
  \/ \E n \in NodeId : InvalidateResumeToken(n)

Spec == Init /\ [][Next]_log

-----------------------------------------------------------------------------
\* The snapshot that a load returns is well formed and lists no node twice.
TypeOK ==
  /\ Project(log) \in Snapshot
  /\ \A i, j \in DOMAIN Project(log).nodes :
       Project(log).nodes[i].id = Project(log).nodes[j].id => i = j

\* The events of a type that are about a node, by their place.
About(events, type, n) ==
  {i \in DOMAIN events : events[i].type = type /\ events[i].node = n}

\* The upsert that made the node what it is after i events.
LastUpsert(events, n, i, j) ==
  /\ j \in About(events, "node_upsert", n) /\ j <= i
  /\ \A k \in About(events, "node_upsert", n) : k <= i => k <= j

\* Whether the i-th event names a node, or a session, nothing before it made.
Dangling(events, i) ==
  /\ events[i].type \notin {"node_upsert", "cursor_set"}
  /\ \/ \A j \in About(events, "node_upsert", events[i].node) : j >= i
     \/ /\ events[i].type = "resume_token_invalidated"
        /\ \E j \in DOMAIN events : /\ LastUpsert(events, events[i].node, i - 1, j)
                                  /\ events[j].session = "none"

\* A load throws exactly when some event of the log dangles: a single stray
\* operation makes the task unreadable for good, nothing else does.
LoadFailsOnlyOnDanglingEvents ==
  Project(log).failed <=> \E i \in DOMAIN log : Dangling(log, i)

\* refs lists, without repeats and in the order in which they first came,
\* exactly the refs that events of this type gave the node.
InOrderOfFirstRecord(events, refs, type, n) ==
  /\ ToSet(refs) = {events[i].ref : i \in About(events, type, n)}
  /\ \A i, j \in DOMAIN refs : i < j =>
       \E k \in About(events, type, n) :
         /\ events[k].ref = refs[i]
         /\ \A m \in About(events, type, n) : events[m].ref = refs[j] => k < m

\* All the evidence of a node, in the order in which it came.
AllEvidence(events, list, n) ==
  /\ ToSet(list) = {events[i].at : i \in About(events, "evidence_appended", n)}
  /\ \A i, j \in DOMAIN list : i < j => list[i] < list[j]

History(events, n) ==
  /\ InOrderOfFirstRecord(events, n.decisions, "decision_recorded", n.id)
  /\ InOrderOfFirstRecord(events, n.reports, "validation_report_recorded", n.id)
  /\ AllEvidence(events, n.evidence, n.id)

\* What a node went through survives every later upsert, in order and without
\* repeats: the upserts of markNode carry no history, the projection does.
HistorySurvivesUpserts ==
  ~ Project(log).failed =>
    \A i \in DOMAIN Project(log).nodes : History(log, Project(log).nodes[i])

\* A session is the last upsert's, or one whose token was invalidated since.
Session(events, n) ==
  \E j \in DOMAIN events :
    /\ LastUpsert(events, n.id, Len(events), j)
    /\ n.session = IF \E k \in About(events, "resume_token_invalidated", n.id) : k > j
                   THEN "restart-required" ELSE events[j].session

\* A token stays restart-required from the event that invalidated it until the
\* node is upserted again, whatever else is recorded in between.
RestartRequiredUntilUpsert ==
  ~ Project(log).failed =>
    \A i \in DOMAIN Project(log).nodes : Session(log, Project(log).nodes[i])

\* Loads list the nodes in the order in which they were first recorded: which
\* node the Supervisor finds first never changes.
NodesKeepTheirPlace ==
  [][\A i \in DOMAIN Project(log).nodes :
       /\ i \in DOMAIN Project(log').nodes
       /\ Project(log').nodes[i].id = Project(log).nodes[i].id]_log
=============================================================================
