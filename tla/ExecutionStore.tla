---------------------------- MODULE ExecutionStore ----------------------------
(***************************************************************************)
(* What the Supervisor keeps on disk: the file that holds the log of a task  *)
(* (TaskLog), what the events of a log project to, and the WorkSource's file. *)
(***************************************************************************)
EXTENDS TaskLog

CONSTANTS NodeId, Ref, MaxEvents,
          Title, Definition, FirstLine, None, MaxTasks, MaxEdits

VARIABLES log, format, content, held, call, at, edits

Projected == INSTANCE Projection

Source == INSTANCE WorkSourceFile WITH file <- content, pc <- at

ASSUME SourceAssumption == Source!FileAssumption

sourceVars == <<format, content, held, call, at, edits>>
-----------------------------------------------------------------------------
\* A load throws exactly when some event of the log dangles: a single stray
\* operation makes the task unreadable for good, nothing else does.
LoadFailsOnlyOnDanglingEvents == Projected!LoadFailsOnlyOnDanglingEvents

\* What a node went through survives every later upsert, in order and without
\* repeats: the upserts of markNode carry no history, the projection does.
HistorySurvivesUpserts == Projected!HistorySurvivesUpserts

\* A call that nobody interferes with changes the task that it names, in what it
\* names of it, and nothing that is to be seen of any other.
CallsChangeOneTask == Source!CallsChangeOneTask
=============================================================================
