------------------------------- MODULE MCRuns -------------------------------
(***************************************************************************)
(* Whatever is started comes to an end, side by side: a session of an agent,  *)
(* the run of a parent, the runs of a leaf that crashes and is started again,  *)
(* and the validation of what they have done. They share nothing; a behaviour *)
(* is one of one side, the others rest.                                       *)
(*                                                                          *)
(* Session: as with the defaults, a stall takes longer to notice than an      *)
(* interrupt that is ignored. Messages enough for two questions and an answer  *)
(* that comes late, or a stall, a message in its way and another stall.       *)
(* Wave: two children, one of them a follow-up of the other, and room for one *)
(* at a time, with a retry. Leaf: two crashes, a retry, a budget of events.    *)
(* Validation: three calls, of every kind of command, timeout and model.      *)
(***************************************************************************)
EXTENDS AgentSession

CONSTANTS Revision, Definition, Session, DefaultId, None,
          r0, r1, r2, r3, r4, r5, d1, d2, s1, s2, s3, s4, s5, s6, default, none

MCRevision == {r0, r1, r2, r3, r4, r5}
MCDefinition == {d1, d2}
MCSession == {s1, s2, s3, s4, s5, s6}

VARIABLES side,
          ws, nodes, live, wavePc, then, target, parentNode, members, remaining, active,
          completed, affected, quiesced, doing, at, mine, caller, outcome, result,
          edits, crashes,
          leafWs, leafNodes, leafLive, leafPc, leafTarget, checkpoint, seenTasks, todo,
          acting, task, leafAt, leafSession, leafResult, leafEdits, leafCrashes,
          declared, scope, model, valPc, late, status, reports, evidence, answer, calls

Parents == INSTANCE Wave
             WITH Child <- {1, 2}, Planned <- {1}, Target <- {0}, MaxConcurrency <- 1,
                  MaxRetries <- 1, EventBudget <- FALSE, MaxEdits <- 0, MaxCrashes <- 0,
                  pc <- wavePc

Leaf == INSTANCE LeafRun
          WITH Task <- {1}, MaxRetries <- 1, EventBudget <- TRUE, MaxEdits <- 0, MaxCrashes <- 2,
               ws <- leafWs, nodes <- leafNodes, live <- leafLive, pc <- leafPc,
               target <- leafTarget, at <- leafAt, session <- leafSession,
               result <- leafResult, edits <- leafEdits, crashes <- leafCrashes

Validated == INSTANCE Validation WITH MaxCalls <- 3, pc <- valPc, client <- model

ASSUME Parents!WaveAssumption /\ Leaf!LeafRunAssumption /\ Validated!ValidationAssumption

waveVars == <<ws, nodes, live, wavePc, then, target, parentNode, members, remaining, active,
              completed, affected, quiesced, doing, at, mine, caller, outcome, result,
              edits, crashes>>
leafVars == <<leafWs, leafNodes, leafLive, leafPc, leafTarget, checkpoint, seenTasks, todo,
              acting, task, leafAt, leafSession, leafResult, leafEdits, leafCrashes>>
valVars == <<declared, scope, model, valPc, late, status, reports, evidence, answer, calls>>
allVars == <<side, vars, waveVars, leafVars, valVars>>

SessionRests ==
  /\ queue = <<>> /\ pending = NoPending /\ stalledIn = 1 /\ interruptIn = 0 /\ quiet = 0
  /\ terminal = FALSE /\ interrupting = FALSE /\ correlation = 0 /\ open = TRUE
  /\ rearms = TRUE /\ pc = "read" /\ event = NoEvent
  /\ said = 0 /\ over = FALSE /\ exits = 0 /\ gaveUp = FALSE
  /\ granted = {} /\ received = {}

WaveRests ==
  /\ ws = <<>> /\ nodes = <<>> /\ live = {} /\ wavePc = "idle" /\ then = "none"
  /\ target = 0 /\ parentNode = <<>> /\ members = {} /\ remaining = {} /\ active = <<>>
  /\ completed = <<>> /\ affected = {} /\ quiesced = {} /\ doing = 0 /\ at = DefaultId
  /\ mine = <<>> /\ caller = "none" /\ outcome = "none" /\ result = "none"
  /\ edits = 0 /\ crashes = 0

LeafRests ==
  /\ leafWs = <<[status |-> "missing"]>> /\ leafNodes = <<[n \in Leaf!NodeId |-> Leaf!AbsentNode]>>
  /\ leafLive = {} /\ leafPc = "idle" /\ leafTarget = 0
  /\ checkpoint = <<>> /\ seenTasks = {} /\ todo = {} /\ acting = <<>> /\ task = 0
  /\ leafAt = DefaultId /\ leafSession = None /\ leafResult = "none" /\ leafEdits = 0
  /\ leafCrashes = 0

ValidationRests ==
  /\ declared = Validated!NoCommand /\ scope = "leaf" /\ model = "structured"
  /\ valPc = "idle" /\ late = FALSE /\ status = "fail"
  /\ reports = {} /\ evidence = {} /\ answer = <<>> /\ calls = 0

MCInit ==
  \/ side = "session" /\ Init /\ WaveRests /\ LeafRests /\ ValidationRests
  \/ side = "wave" /\ SessionRests /\ Parents!Init /\ LeafRests /\ ValidationRests
  \/ side = "leaf" /\ SessionRests /\ WaveRests /\ Leaf!Init /\ ValidationRests
  \/ side = "validation" /\ SessionRests /\ WaveRests /\ LeafRests /\ Validated!Init

OnSession(A) == side = "session" /\ A /\ UNCHANGED <<side, waveVars, leafVars, valVars>>
OnWave(A) == side = "wave" /\ A /\ UNCHANGED <<side, vars, leafVars, valVars>>
OnLeaf(A) == side = "leaf" /\ A /\ UNCHANGED <<side, vars, waveVars, valVars>>
OnValidation(A) == side = "validation" /\ A /\ UNCHANGED <<side, vars, waveVars, leafVars>>

MCNext ==
  \/ OnSession(Next) \/ OnWave(Parents!Next) \/ OnLeaf(Leaf!Next)
  \/ OnValidation(Validated!Next)

MCFairness ==
  /\ WF_allVars(OnSession(Tick)) /\ WF_allVars(OnSession(Timer))
  /\ WF_allVars(OnSession(Client))
  /\ ~ InterruptHangs => WF_allVars(OnSession(InterruptSettles))
  /\ WF_allVars(OnWave(Parents!Work))
  /\ WF_allVars(OnLeaf(Leaf!Checkpoint)) /\ WF_allVars(OnLeaf(Leaf!Leaf))
  /\ SF_allVars(OnLeaf(Leaf!TurnEnds)) /\ SF_allVars(OnLeaf(Leaf!Run(1)))
  /\ WF_allVars(OnValidation(Validated!Settles)) /\ WF_allVars(OnValidation(Validated!Timeout))
  /\ WF_allVars(OnValidation(Validated!RecordReport))
  /\ WF_allVars(OnValidation(Validated!AppendEvidence))

MCSpec == MCInit /\ [][MCNext]_allVars /\ MCFairness
-----------------------------------------------------------------------------
\* Each of them speaks of the behaviours of its side only.

\* A run of a parent and its children ends, in some way.
RunsEnd == side = "wave" => Parents!RunsEnd

\* A task that is not taken out of the WorkSource is brought to an outcome,
\* though the process is killed and started again.
TasksReachAnOutcome == side = "leaf" => Leaf!TasksReachAnOutcome

\* A validation does not keep the supervisor waiting for ever, unless its command
\* ignores SIGTERM or was declared without a timeout.
ValidationsEnd == side = "validation" => Validated!ValidationsEnd
=============================================================================
