---------------------------- MODULE AgentSession ----------------------------
(***************************************************************************)
(* ClaudeSdkAgentTransport: one session, from spawnSession to               *)
(* disposeSession, among those who act on it: the agent (its stream of      *)
(* messages and its callbacks for tools and questions), two timers, and the *)
(* client of the port, which is the loop of the Supervisor that reads one   *)
(* event after the other. What runs between two awaits is one step.         *)
(*                                                                          *)
(* Time passes in units. A timer that is due goes off before more time      *)
(* passes, but anything else may come first. A client that resumes a        *)
(* session gets another one, with a queue and timers of its own.            *)
(***************************************************************************)
EXTENDS Naturals, Sequences

CONSTANTS StallAfter,        \* units of silence before a session is stalled
          InterruptTimeout,  \* units an interrupted agent has to end its turn
          InterruptHangs,    \* external: may query.interrupt() never settle?
          MaxMessages        \* bound: messages, requests and resumptions

ASSUME AgentSessionAssumption ==
  /\ StallAfter \in Nat \ {0} /\ InterruptTimeout \in Nat \ {0}
  /\ InterruptHangs \in BOOLEAN /\ MaxMessages \in Nat

VARIABLES queue,       \* events no one has read yet
          pending,     \* the question that a command would answer
          stalledIn,   \* stalledTimer: units until it goes off, plus one; 0: none
          interruptIn, \* interruptTimer, likewise
          quiet,       \* units since the last progress, as far as they count
          terminal, interrupting,
          correlation, \* correlationSequence
          open,        \* the agent's stream of messages has not ended
          rearms,      \* does the client pass stallAfterMs with every read?
          pc, event,   \* where the client is, the event it deals with
          said,        \* MaxMessages bounds it
          over,        \* history: the end of the turn, or of the session, was seen
          exits,       \* history: how often the session said that it has exited
          gaveUp,      \* history: the agent has given up a request
          granted,     \* history: requests that the client answered with yes
          received     \* history: requests for which the agent got a yes

session == <<queue, pending, stalledIn, interruptIn, quiet, terminal>>
client == <<pc, event>>
history == <<over, exits, gaveUp, granted, received>>
vars == <<session, interrupting, correlation, open, rearms, client, said, history>>

Question == {"needs_permission", "needs_input"}
Correlated == Question \cup {"stalled"}
\* id: the correlation id that the port gives. no: which of the agent's
\* requests it is, 0 for an event that is none (history).
Event == [type : Correlated \cup {"log", "turn_ended", "exited"}, id : Nat, no : Nat]
NoPending == [type |-> "none", id |-> 0, no |-> 0]
NoEvent == NoPending
Plain(type) == [type |-> type, id |-> 0, no |-> 0]

TypeOK ==
  /\ queue \in Seq(Event)
  /\ pending \in {NoPending} \cup [type : Correlated, id : 1..correlation, no : 0..said]
  /\ stalledIn \in 0..(StallAfter + 1) /\ interruptIn \in 0..(InterruptTimeout + 1)
  /\ quiet \in 0..StallAfter
  /\ terminal \in BOOLEAN /\ interrupting \in BOOLEAN
  /\ correlation \in Nat /\ open \in BOOLEAN /\ rearms \in BOOLEAN
  /\ pc \in {"read", "wait", "handle", "interrupt", "quiesce", "quiesced",
             "dispose", "disposed", "thrown"}
  /\ event \in {NoEvent} \cup Event
  /\ said \in Nat /\ exits \in Nat /\ over \in BOOLEAN /\ gaveUp \in BOOLEAN
  /\ granted \subseteq Nat /\ received \subseteq Nat

\* spawnSession: the stream is pumped, the stalled timer armed.
Init ==
  /\ queue = <<>> /\ pending = NoPending
  /\ stalledIn = StallAfter + 1 /\ interruptIn = 0 /\ quiet = 0
  /\ terminal = FALSE /\ interrupting = FALSE /\ correlation = 0 /\ open = TRUE
  /\ rearms \in BOOLEAN
  /\ pc = "read" /\ event = NoEvent
  /\ said = 0 /\ over = FALSE /\ exits = 0 /\ gaveUp = FALSE
  /\ granted = {} /\ received = {}

-----------------------------------------------------------------------------
\* armStalledTimer, markProgress, enqueue.

\* The timer starts anew, unless the session is over or waits for an answer.
ArmStalledTimer ==
  stalledIn' = IF terminal \/ pending # NoPending THEN 0 ELSE StallAfter + 1

\* Mutation: a message of the agent does not restart the timer.
MarkProgressOnly == quiet' = 0 /\ UNCHANGED stalledIn

\* A timer that runs while a question is open is left alone.
MarkProgress ==
  /\ quiet' = 0
  /\ stalledIn' = IF ~ terminal' /\ pending' = NoPending THEN StallAfter + 1
                                                         ELSE stalledIn

\* An event goes to the reader that waits for it, or into the queue.
Deliver(e) ==
  IF pc = "wait" THEN pc' = "handle" /\ event' = e /\ UNCHANGED queue
                 ELSE queue' = Append(queue, e) /\ UNCHANGED client

\* enqueueExit.
Exit ==
  /\ pending' = NoPending /\ terminal' = TRUE
  /\ stalledIn' = 0 /\ interruptIn' = 0 /\ quiet' = 0
  /\ Deliver(Plain("exited"))
  /\ over' = TRUE /\ exits' = exits + 1
  /\ UNCHANGED <<gaveUp, granted, received>>

Speak == open /\ said < MaxMessages /\ said' = said + 1

-----------------------------------------------------------------------------
\* The agent.

\* "log means observed progress": a stall that was reported is over.
Log ==
  /\ Speak
  /\ pending' = IF pending.type = "stalled" THEN NoPending ELSE pending
  /\ UNCHANGED <<terminal, interruptIn>>
  /\ MarkProgress
  /\ Deliver(Plain("log"))
  /\ UNCHANGED <<interrupting, correlation, open, rearms, history>>

\* requestPermission, requestInput. While another question or a stall is
\* open, the agent is told no at once; once disposed of, it gets an error.
Ask(type) ==
  /\ Speak
  /\ IF pending # NoPending \/ pc = "disposed" THEN UNCHANGED <<session, client, correlation>>
     ELSE /\ correlation' = correlation + 1
          /\ pending' = [type |-> type, id |-> correlation', no |-> said']
          /\ UNCHANGED <<terminal, interruptIn>>
          /\ MarkProgress
          /\ Deliver(pending')
  /\ UNCHANGED <<interrupting, open, rearms, history>>

\* The agent gives up a request (the abort signal of the callback).
AbortRequest ==
  /\ pending.type \in Question
  /\ pending' = NoPending
  /\ gaveUp' = TRUE
  /\ UNCHANGED <<queue, stalledIn, interruptIn, quiet, terminal, interrupting,
                 correlation, open, rearms, client, said, over, exits, granted,
                 received>>

\* A result message. The stream goes on, and so does the stalled timer.
TurnEnds ==
  /\ Speak
  /\ pending' = NoPending /\ interruptIn' = 0
  /\ UNCHANGED terminal
  /\ MarkProgress
  /\ Deliver(Plain("turn_ended"))
  /\ over' = TRUE
  /\ UNCHANGED <<interrupting, correlation, open, rearms, exits, gaveUp, granted,
                 received>>

\* pumpMessages: the stream ends or throws.
StreamEnds ==
  /\ open /\ open' = FALSE
  /\ IF terminal THEN UNCHANGED <<session, client, history>> ELSE Exit
  /\ UNCHANGED <<interrupting, correlation, rearms, said>>

-----------------------------------------------------------------------------
\* The timers.

Tick ==
  /\ stalledIn # 1 /\ interruptIn # 1
  /\ stalledIn' = IF stalledIn = 0 THEN 0 ELSE stalledIn - 1
  /\ interruptIn' = IF interruptIn = 0 THEN 0 ELSE interruptIn - 1
  /\ quiet' = IF quiet = StallAfter THEN quiet ELSE quiet + 1
  /\ UNCHANGED <<queue, pending, terminal, interrupting, correlation, open,
                 rearms, client, said, history>>

StalledTimer ==
  /\ stalledIn = 1 /\ stalledIn' = 0
  /\ IF terminal \/ pending # NoPending
     THEN UNCHANGED <<pending, correlation, queue, client>>
     ELSE /\ correlation' = correlation + 1
          /\ pending' = [type |-> "stalled", id |-> correlation', no |-> 0]
          /\ Deliver(pending')
  /\ UNCHANGED <<interruptIn, quiet, terminal, interrupting, open, rearms, said, history>>

\* The query is closed, whether or not its stream ends then.
InterruptTimer ==
  /\ interruptIn = 1
  /\ IF terminal THEN interruptIn' = 0 /\ UNCHANGED <<queue, pending, stalledIn, quiet,
                                                    terminal, client, history>>
                 ELSE Exit
  /\ UNCHANGED <<interrupting, correlation, open, rearms, said>>

-----------------------------------------------------------------------------
\* The client.

\* Mutation: a reader waits although there are events.
ReadNew ==
  /\ pc = "read" /\ pc' = "wait" /\ event' = NoEvent
  /\ IF rearms THEN ArmStalledTimer ELSE UNCHANGED stalledIn
  /\ UNCHANGED <<queue, pending, interruptIn, quiet, terminal, interrupting,
                 correlation, open, rearms, said, history>>

\* readEvent: the timer starts anew if the client says after how much
\* silence; then the next event, or a place to wait for it.
Read ==
  /\ pc = "read"
  /\ IF rearms THEN ArmStalledTimer ELSE UNCHANGED stalledIn
  /\ IF queue = <<>> THEN pc' = "wait" /\ event' = NoEvent /\ UNCHANGED queue
     ELSE pc' = "handle" /\ event' = Head(queue) /\ queue' = Tail(queue)
  /\ UNCHANGED <<pending, interruptIn, quiet, terminal, interrupting,
                 correlation, open, rearms, said, history>>

HandleLog ==
  /\ pc = "handle" /\ event.type = "log"
  /\ pc' = "read" /\ event' = NoEvent
  /\ UNCHANGED <<session, interrupting, correlation, open, rearms, said, history>>

\* Mutation: a command answers whatever question is open.
AcceptedAnyway == pending # NoPending

\* sendCommand: is this still the question that waits for an answer? A
\* command has the right type for the event it answers.
Accepted == pending # NoPending /\ pending.id = event.id

\* resolvePermission, resolveInput: approve, deny, respond, choose_option.
Answer(yes) ==
  /\ pc = "handle" /\ event.type \in Question /\ Accepted
  /\ yes \/ event.type = "needs_permission"
  /\ pending' = NoPending
  /\ UNCHANGED terminal
  /\ MarkProgress
  /\ granted' = IF yes THEN granted \cup {event.no} ELSE granted
  /\ received' = IF yes THEN received \cup {pending.no} ELSE received
  /\ pc' = "read" /\ event' = NoEvent
  /\ UNCHANGED <<queue, interruptIn, interrupting, correlation, open, rearms,
                 said, over, exits, gaveUp>>

\* The question is no longer open: the command is rejected, and nobody
\* catches that in the client.
CommandRejected ==
  /\ pc = "handle" /\ event.type \in Correlated /\ ~ Accepted
  /\ pc' = "thrown" /\ event' = NoEvent
  /\ UNCHANGED <<session, interrupting, correlation, open, rearms, said, history>>

\* resolveStalled with resume, which the port offers and the Supervisor never
\* sends.
Resume ==
  /\ pc = "handle" /\ event.type = "stalled" /\ Accepted
  /\ said < MaxMessages /\ said' = said + 1
  /\ pending' = NoPending
  /\ UNCHANGED terminal
  /\ MarkProgress
  /\ pc' = "read" /\ event' = NoEvent
  /\ UNCHANGED <<queue, interruptIn, interrupting, correlation, open, rearms, history>>

\* resolveStalled with interrupt, up to the await of query.interrupt().
Interrupt ==
  /\ pc = "handle" /\ event.type = "stalled" /\ Accepted
  /\ pending' = NoPending /\ stalledIn' = 0
  /\ interrupting' = TRUE
  /\ pc' = "interrupt" /\ event' = NoEvent
  /\ UNCHANGED <<queue, interruptIn, quiet, terminal, correlation, open, rearms,
                 said, history>>

\* interruptSession: a sibling of this worker needs it to stop.
Quiesce ==
  /\ pc = "read"
  /\ pending' = NoPending /\ stalledIn' = 0
  /\ interrupting' = TRUE
  /\ pc' = "quiesce"
  /\ UNCHANGED <<queue, interruptIn, quiet, terminal, correlation, open, rearms,
                 event, said, history>>

\* Mutation: only a stalled agent is closed when it ignores the interrupt.
InterruptSentToStalled ==
  /\ pc \in {"interrupt", "quiesce"}
  /\ interruptIn' = IF pc = "interrupt" THEN InterruptTimeout + 1 ELSE interruptIn
  /\ pc' = IF pc = "interrupt" THEN "read" ELSE "quiesced"
  /\ UNCHANGED <<queue, pending, stalledIn, quiet, terminal, interrupting,
                 correlation, open, rearms, event, said, history>>

\* query.interrupt() has resolved: abort, and the timer that closes the query.
InterruptSent ==
  /\ pc \in {"interrupt", "quiesce"}
  /\ interruptIn' = InterruptTimeout + 1
  /\ pc' = IF pc = "interrupt" THEN "read" ELSE "quiesced"
  /\ UNCHANGED <<queue, pending, stalledIn, quiet, terminal, interrupting,
                 correlation, open, rearms, event, said, history>>

\* It rejects, as it does for a query whose stream has ended.
InterruptRejected ==
  /\ pc \in {"interrupt", "quiesce"} /\ ~ open
  /\ pc' = "thrown"
  /\ UNCHANGED <<session, interrupting, correlation, open, rearms, event, said, history>>

HandleEnd ==
  /\ pc = "handle" /\ event.type \in {"turn_ended", "exited"}
  /\ pc' = "dispose" /\ event' = NoEvent
  /\ UNCHANGED <<session, interrupting, correlation, open, rearms, said, history>>

Dispose ==
  /\ pc = "dispose" /\ pc' = "disposed"
  /\ queue' = <<>> /\ pending' = NoPending /\ terminal' = TRUE
  /\ stalledIn' = 0 /\ interruptIn' = 0
  /\ UNCHANGED <<quiet, interrupting, correlation, open, rearms, event, said, history>>

Agent ==
  \/ Log \/ \E type \in Question : Ask(type)
  \/ AbortRequest \/ TurnEnds \/ StreamEnds
Timer == StalledTimer \/ InterruptTimer
Client ==
  \/ Read \/ HandleLog \/ \E yes \in BOOLEAN : Answer(yes)
  \/ CommandRejected \/ Resume \/ Interrupt \/ HandleEnd \/ Dispose
InterruptSettles == InterruptSent \/ InterruptRejected

Next == Agent \/ Tick \/ Timer \/ Client \/ Quiesce \/ InterruptSettles

Spec == Init /\ [][Next]_vars

\* Time passes, timers go off, the client goes on; the agent owes nothing.
Fairness ==
  /\ WF_vars(Tick) /\ WF_vars(Timer) /\ WF_vars(Client)
  /\ ~ InterruptHangs => WF_vars(InterruptSettles)

FairSpec == Spec /\ Fairness
-----------------------------------------------------------------------------
\* A yes reaches the request it was said to, and no other: an answer to a
\* request that the agent has given up, or that has ended with its turn, never
\* allows the next tool (sendCommand knows correlation ids only).
AnswersReachTheirQuestion == received \subseteq granted

\* A client that waits for an event gets one: nothing is left in the queue,
\* nobody waits for the client in turn, and a timer runs that will tell it
\* about a silent agent.
WaitingClientIsWoken ==
  pc = "wait" => /\ queue = <<>> /\ pending = NoPending
                 /\ stalledIn # 0 \/ interruptIn # 0

\* "stalled means no event has been observed for stallAfterMs": however
\* questions, answers, reads and interrupts restart the timer, as long as the
\* agent waits for the answers to its requests.
StalledMeansQuiet ==
  [][ pending' # pending /\ pending'.type = "stalled"
        => quiet = StallAfter \/ gaveUp ]_vars

\* A session exits once, whichever of the stream, its failure and the
\* interrupt timer comes first.
ExitsOnce == exits <= 1

\* Once disposed of, a session has no timer that keeps going off, whatever
\* the agent still says.
DisposedIsSilent == pc = "disposed" => stalledIn = 0 /\ interruptIn = 0

\* "If the agent does not emit turn_ended or exited within the interrupt
\* timeout, the adapter escalates": an interrupted session comes to an end.
InterruptedSessionsEnd == interrupting ~> over

-----------------------------------------------------------------------------
\* What the port promises and this code does not keep; the README tells the
\* steps that lead there.

\* The same, whatever becomes of the requests.
StalledOnlyWhenQuiet ==
  [][ pending' # pending /\ pending'.type = "stalled" => quiet = StallAfter ]_vars

\* "must not emit a second event until the first is answered": at most one
\* correlated event is on its way or with the client.
OneQuestionAtATime ==
  LET asked == {i \in DOMAIN queue : queue[i].type \in Correlated}
  IN /\ \A i, j \in asked : i = j
     /\ event.type \in Correlated => asked = {}
=============================================================================
