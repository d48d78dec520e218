------------------------- MODULE AgentSessionProofs -------------------------
(***************************************************************************)
(* What holds of a session of the Claude SDK transport for every length of  *)
(* the two timers and every number of messages, by one inductive invariant: *)
(* what the client can still come to know, the events it has not dealt with *)
(* yet, accounts for every question that is open, for every timer that does *)
(* not run, and for the end of the session.                                 *)
(***************************************************************************)
EXTENDS AgentSession, SequenceTheorems, TLAPS

\* The events that the client has before it, with the one in its hands.
Queued == {queue[i] : i \in 1..Len(queue)}
Known == Queued \cup {event}

\* The client has an event in its hands just when it deals with it, and waits
\* only when there is none.
HandsInv ==
  /\ pc = "handle" <=> event # NoEvent
  /\ pc = "wait" => queue = <<>>

\* The client knows, or will come to know, of a question that is open.
PendingInv == pending # NoPending => pending \in Known

\* With no timer running and no question open, there is an event before the
\* client whose question is no longer open: its command will be rejected.
TimerInv ==
  (/\ stalledIn = 0 /\ interruptIn = 0 /\ ~ terminal /\ pending = NoPending
   /\ pc \in {"read", "wait", "handle"})
    => \E e \in Known : e.type \in Correlated

\* The client will come to know of the end of a session.
ExitInv ==
  /\ terminal /\ pc \in {"read", "wait", "handle", "interrupt"}
       => \E e \in Known : e.type = "exited"
  /\ exits <= 1 /\ (exits # 0 => terminal)

\* A correlation id names one event.
IdInv ==
  /\ \A e \in Known \cup {pending} : e.id \in 0..correlation
  /\ \A e, f \in Known \cup {pending} : e.id = f.id /\ e.id # 0 => e = f

\* The stalled timer runs only in a session that is not over, and goes off no
\* earlier than the silence it measures: but for a question that holds it up.
StallInv ==
  /\ terminal => stalledIn = 0
  /\ stalledIn # 0 => \/ gaveUp \/ pending # NoPending
                      \/ quiet + stalledIn >= StallAfter + 1

DisposedInv == pc = "disposed" => terminal /\ interruptIn = 0

\* TypeOK, in parts.
FlagsType ==
  /\ terminal \in BOOLEAN /\ interrupting \in BOOLEAN /\ open \in BOOLEAN
  /\ rearms \in BOOLEAN /\ over \in BOOLEAN /\ gaveUp \in BOOLEAN
CountersType ==
  /\ stalledIn \in 0..(StallAfter + 1) /\ interruptIn \in 0..(InterruptTimeout + 1)
  /\ quiet \in 0..StallAfter
  /\ correlation \in Nat /\ said \in Nat /\ exits \in Nat
  /\ granted \subseteq Nat /\ received \subseteq Nat
PendingType ==
  pending \in {NoPending} \cup [type : Correlated, id : 1..correlation, no : 0..said]
ClientType ==
  /\ queue \in Seq(Event) /\ event \in {NoEvent} \cup Event
  /\ pc \in {"read", "wait", "handle", "interrupt", "quiesce", "quiesced",
             "dispose", "disposed", "thrown"}

IInv ==
  /\ TypeOK /\ HandsInv /\ PendingInv /\ TimerInv /\ ExitInv /\ IdInv
  /\ StallInv /\ DisposedInv /\ AnswersReachTheirQuestion

-----------------------------------------------------------------------------
\* An event that is delivered is one the client knows of, with all others.
LEMMA Delivered ==
  ASSUME TypeOK, HandsInv, NEW e \in Event, Deliver(e)
  PROVE  /\ queue' \in Seq(Event) /\ event' \in {NoEvent} \cup Event
         /\ pc' = IF pc = "wait" THEN "handle" ELSE pc
         /\ HandsInv'
         /\ e \in Known'
         /\ \A k \in Known : k # NoEvent => k \in Known'
         /\ Known' \subseteq Known \cup {e}
<1>1. e # NoEvent /\ queue \in Seq(Event) /\ event \in {NoEvent} \cup Event
  BY DEF TypeOK, Event, NoEvent, NoPending, Correlated, Question
<1>2. CASE pc = "wait"
  <2>1. queue' = queue /\ event' = e /\ pc' = "handle" /\ queue = <<>> /\ event = NoEvent
    BY <1>2 DEF HandsInv, Deliver
  <2>2. Known = {NoEvent} /\ Known' = {e}
    BY <2>1 DEF Known, Queued
  <2> QED
    BY <1>1, <1>2, <2>1, <2>2 DEF HandsInv
<1>3. CASE pc # "wait"
  <2>1. queue' = Append(queue, e) /\ event' = event /\ pc' = pc
    BY <1>3 DEF Deliver, client
  <2>2. /\ queue' \in Seq(Event) /\ Len(queue') = Len(queue) + 1 /\ Len(queue) \in Nat
        /\ \A i \in 1..Len(queue) : queue'[i] = queue[i]
        /\ queue'[Len(queue) + 1] = e
    BY <1>1, <2>1, AppendProperties, LenProperties
  <2>3. Queued' = Queued \cup {e}
    BY <2>2 DEF Queued
  <2> QED
    BY <1>1, <1>3, <2>1, <2>2, <2>3 DEF HandsInv, Known
<1> QED
  BY <1>2, <1>3

\* Reading moves an event from the queue to the client's hands.
LEMMA ReadKeepsKnown ==
  ASSUME TypeOK, HandsInv, Read
  PROVE  /\ queue' \in Seq(Event) /\ event' \in {NoEvent} \cup Event
         /\ pc' \in {"wait", "handle"}
         /\ HandsInv'
         /\ \A k \in Known : k # NoEvent => k \in Known'
         /\ Known' \subseteq Known \cup {NoEvent}
<1>1. queue \in Seq(Event) /\ event = NoEvent
  BY DEF TypeOK, HandsInv, Read
<1>2. CASE queue = <<>>
  <2>1. pc' = "wait" /\ event' = NoEvent /\ queue' = <<>>
    BY <1>2 DEF Read
  <2> QED
    BY <1>1, <1>2, <2>1 DEF HandsInv, Known, Queued
<1>3. CASE queue # <<>>
  <2>1. pc' = "handle" /\ event' = Head(queue) /\ queue' = Tail(queue)
    BY <1>3 DEF Read
  <2>2. /\ event' \in Event /\ queue' \in Seq(Event)
        /\ Len(queue) \in Nat /\ Len(queue) > 0 /\ Len(queue') = Len(queue) - 1
        /\ \A i \in 1..Len(queue') : queue'[i] = queue[i + 1]
        /\ event' = queue[1]
    BY <1>1, <1>3, <2>1, HeadTailProperties, LenProperties, EmptySeq
  <2>3. Queued = Queued' \cup {event'}
    <3>1. ASSUME NEW i \in 1..Len(queue) PROVE queue[i] \in Queued' \cup {event'}
      <4>1. CASE i = 1
        BY <2>2, <4>1
      <4>2. CASE i # 1
        <5>1. i - 1 \in 1..Len(queue') /\ queue'[i - 1] = queue[(i - 1) + 1]
          BY <2>2, <4>2
        <5> QED
          BY <5>1 DEF Queued
      <4> QED
        BY <4>1, <4>2
    <3> QED
      BY <2>2, <3>1 DEF Queued
  <2>4. event' # NoEvent
    BY <2>2 DEF Event, NoEvent, NoPending, Correlated, Question
  <2> QED
    BY <1>1, <2>1, <2>2, <2>3, <2>4 DEF HandsInv, Known
<1> QED
  BY <1>2, <1>3

\* A step that leaves queue and hands alone leaves alone what the client knows.
LEMMA SameKnown ==
  ASSUME UNCHANGED <<queue, event>>
  PROVE  Known' = Known
BY DEF Known, Queued

\* The type invariant is its parts.
LEMMA TypeParts == TypeOK <=> FlagsType /\ CountersType /\ PendingType /\ ClientType
BY DEF TypeOK, FlagsType, CountersType, PendingType, ClientType

-----------------------------------------------------------------------------
\* A session that is spawned, and its stalled timer with it.
LEMMA InitInv == Init => IInv
<1> SUFFICES ASSUME Init PROVE IInv
  OBVIOUS
<1>1. StallAfter \in Nat /\ InterruptTimeout \in Nat
  BY AgentSessionAssumption
<1>2. Known = {NoEvent}
  BY DEF Init, Known, Queued
<1>3. FlagsType
  BY DEF Init, FlagsType
<1>4. CountersType
  BY <1>1 DEF Init, CountersType
<1>5. PendingType /\ ClientType
  BY DEF Init, PendingType, ClientType
<1>6. TypeOK
  BY <1>3, <1>4, <1>5, TypeParts
<1>7. HandsInv /\ PendingInv /\ IdInv /\ DisposedInv /\ AnswersReachTheirQuestion
  BY <1>2 DEF Init, HandsInv, PendingInv, IdInv, DisposedInv, AnswersReachTheirQuestion,
     NoEvent, NoPending
<1>8. TimerInv /\ ExitInv /\ StallInv
  BY <1>1 DEF Init, TimerInv, ExitInv, StallInv
<1> QED
  BY <1>6, <1>7, <1>8 DEF IInv

\* A message that is not the end of a turn is an event; it is progress, which
\* restarts the timer.
LEMMA LogInv ==
  ASSUME IInv, Log PROVE IInv'
<1>1. StallAfter \in Nat /\ InterruptTimeout \in Nat
  BY AgentSessionAssumption
<1>2. Plain("log") \in Event /\ Deliver(Plain("log"))
  BY DEF Log, Plain, Event
<1>3. /\ queue' \in Seq(Event) /\ event' \in {NoEvent} \cup Event
      /\ pc' = IF pc = "wait" THEN "handle" ELSE pc
      /\ HandsInv'
      /\ Plain("log") \in Known'
      /\ \A k \in Known : k # NoEvent => k \in Known'
      /\ Known' \subseteq Known \cup {Plain("log")}
  BY <1>2, Delivered DEF IInv
<1>4. FlagsType'
  BY DEF IInv, TypeOK, FlagsType, Log, history
<1>5. CountersType'
  BY <1>1 DEF IInv, TypeOK, CountersType, Log, Speak, MarkProgress, history
<1>6. PendingType'
  BY DEF IInv, TypeOK, PendingType, Log, Speak
<1>7. ClientType'
  BY <1>3 DEF IInv, TypeOK, ClientType
<1>8. HandsInv' /\ PendingInv'
  BY <1>3 DEF IInv, PendingInv, Log, NoEvent
<1>9. TimerInv'
  BY <1>3 DEF IInv, TypeOK, PendingInv, TimerInv, Log, MarkProgress, NoEvent, NoPending,
     Correlated, Question
<1>10. ExitInv'
  BY <1>3 DEF IInv, ExitInv, Log, history, NoEvent, NoPending
<1>11. IdInv'
  BY <1>3 DEF IInv, TypeOK, IdInv, Log, NoPending, Plain
<1>12. StallInv' /\ DisposedInv'
  BY <1>3 DEF IInv, StallInv, DisposedInv, Log, MarkProgress
<1>13. AnswersReachTheirQuestion'
  BY DEF IInv, AnswersReachTheirQuestion, Log, history
<1> QED
  BY <1>4, <1>5, <1>6, <1>7, <1>8, <1>9, <1>10, <1>11, <1>12, <1>13 DEF IInv, TypeOK,
     FlagsType, CountersType, PendingType, ClientType

\* The end of a turn is an event, and progress.
LEMMA TurnEndsInv ==
  ASSUME IInv, TurnEnds PROVE IInv'
<1>1. StallAfter \in Nat /\ InterruptTimeout \in Nat
  BY AgentSessionAssumption
<1>2. Plain("turn_ended") \in Event /\ Deliver(Plain("turn_ended"))
  BY DEF TurnEnds, Plain, Event
<1>3. /\ queue' \in Seq(Event) /\ event' \in {NoEvent} \cup Event
      /\ pc' = IF pc = "wait" THEN "handle" ELSE pc
      /\ HandsInv'
      /\ Plain("turn_ended") \in Known'
      /\ \A k \in Known : k # NoEvent => k \in Known'
      /\ Known' \subseteq Known \cup {Plain("turn_ended")}
  BY <1>2, Delivered DEF IInv
<1>4. FlagsType'
  BY DEF IInv, TypeOK, FlagsType, TurnEnds
<1>5. CountersType'
  BY <1>1 DEF IInv, TypeOK, CountersType, TurnEnds, Speak, MarkProgress
<1>6. PendingType'
  BY DEF PendingType, TurnEnds
<1>7. ClientType'
  BY <1>3 DEF IInv, TypeOK, ClientType
<1>8. HandsInv' /\ PendingInv'
  BY <1>3 DEF PendingInv, TurnEnds
<1>9. TimerInv'
  BY <1>1 DEF TimerInv, TurnEnds, MarkProgress
<1>10. ExitInv'
  BY <1>3 DEF IInv, ExitInv, TurnEnds, NoEvent, NoPending
<1>11. IdInv'
  BY <1>3 DEF IInv, TypeOK, IdInv, TurnEnds, NoPending, Plain
<1>12. StallInv' /\ DisposedInv'
  BY <1>3 DEF IInv, StallInv, DisposedInv, TurnEnds, MarkProgress
<1>13. AnswersReachTheirQuestion'
  BY DEF IInv, AnswersReachTheirQuestion, TurnEnds
<1> QED
  BY <1>4, <1>5, <1>6, <1>7, <1>8, <1>9, <1>10, <1>11, <1>12, <1>13 DEF IInv, TypeOK,
     FlagsType, CountersType, PendingType, ClientType

\* The agent gives up a request: the question is closed, its event remains.
LEMMA AbortRequestInv ==
  ASSUME IInv, AbortRequest PROVE IInv'
<1>1. StallAfter \in Nat /\ InterruptTimeout \in Nat
  BY AgentSessionAssumption
<1>3. UNCHANGED <<queue, event>> /\ Known' = Known
  BY SameKnown DEF AbortRequest, client
<1>4. FlagsType'
  BY DEF IInv, TypeOK, FlagsType, AbortRequest
<1>5. CountersType'
  BY DEF IInv, TypeOK, CountersType, AbortRequest
<1>6. PendingType'
  BY DEF PendingType, AbortRequest
<1>7. ClientType'
  BY DEF IInv, TypeOK, ClientType, AbortRequest, client
<1>8. HandsInv' /\ PendingInv'
  BY DEF IInv, HandsInv, PendingInv, AbortRequest, client
<1>9. TimerInv'
  BY <1>3 DEF IInv, PendingInv, TimerInv, AbortRequest, NoPending, Correlated, Question
<1>10. ExitInv'
  BY <1>3 DEF IInv, ExitInv, AbortRequest, client
<1>11. IdInv'
  BY <1>3 DEF IInv, TypeOK, IdInv, AbortRequest, NoPending
<1>12. StallInv' /\ DisposedInv'
  BY DEF IInv, StallInv, DisposedInv, AbortRequest, client
<1>13. AnswersReachTheirQuestion'
  BY DEF IInv, AnswersReachTheirQuestion, AbortRequest
<1> QED
  BY <1>4, <1>5, <1>6, <1>7, <1>8, <1>9, <1>10, <1>11, <1>12, <1>13 DEF IInv, TypeOK,
     FlagsType, CountersType, PendingType, ClientType

\* Time passes: the timers that run come nearer.
LEMMA TickInv ==
  ASSUME IInv, Tick PROVE IInv'
<1>1. StallAfter \in Nat /\ InterruptTimeout \in Nat
  BY AgentSessionAssumption
<1>3. UNCHANGED <<queue, event>> /\ Known' = Known
  BY SameKnown DEF Tick, client
<1>4. FlagsType'
  BY DEF IInv, TypeOK, FlagsType, Tick, history
<1>5. CountersType'
  BY <1>1 DEF IInv, TypeOK, CountersType, Tick, history
<1>6. PendingType'
  BY DEF IInv, TypeOK, PendingType, Tick
<1>7. ClientType'
  BY DEF IInv, TypeOK, ClientType, Tick, client
<1>8. HandsInv' /\ PendingInv'
  BY <1>3 DEF IInv, HandsInv, PendingInv, Tick, client
<1>9. TimerInv'
  BY <1>3 DEF IInv, TimerInv, Tick, client
<1>10. ExitInv'
  BY <1>3 DEF IInv, ExitInv, Tick, client, history
<1>11. IdInv'
  BY <1>3 DEF IInv, IdInv, Tick
<1>12. StallInv' /\ DisposedInv'
  BY DEF IInv, TypeOK, StallInv, DisposedInv, Tick, client, history
<1>13. AnswersReachTheirQuestion'
  BY DEF IInv, AnswersReachTheirQuestion, Tick, history
<1> QED
  BY <1>4, <1>5, <1>6, <1>7, <1>8, <1>9, <1>10, <1>11, <1>12, <1>13 DEF IInv, TypeOK,
     FlagsType, CountersType, PendingType, ClientType

\* The first end of a session clears the timers and is an event.
LEMMA ExitStepInv ==
  ASSUME IInv, Exit, ~ terminal, UNCHANGED <<interrupting, correlation, rearms, said>>,
         open' \in BOOLEAN
  PROVE  IInv'
<1>1. StallAfter \in Nat /\ InterruptTimeout \in Nat
  BY AgentSessionAssumption
<1>2. Plain("exited") \in Event /\ Deliver(Plain("exited"))
  BY DEF Exit, Plain, Event
<1>3. /\ queue' \in Seq(Event) /\ event' \in {NoEvent} \cup Event
      /\ pc' = IF pc = "wait" THEN "handle" ELSE pc
      /\ HandsInv'
      /\ Plain("exited") \in Known'
      /\ \A k \in Known : k # NoEvent => k \in Known'
      /\ Known' \subseteq Known \cup {Plain("exited")}
  BY <1>2, Delivered DEF IInv
<1>4. FlagsType'
  BY DEF IInv, TypeOK, FlagsType, Exit
<1>5. CountersType'
  BY <1>1 DEF IInv, TypeOK, CountersType, Exit
<1>6. PendingType'
  BY DEF PendingType, Exit
<1>7. ClientType'
  BY <1>3 DEF IInv, TypeOK, ClientType
<1>8. HandsInv' /\ PendingInv'
  BY <1>3 DEF PendingInv, Exit
<1>9. TimerInv'
  BY DEF TimerInv, Exit
<1>10. ExitInv'
  BY <1>3 DEF IInv, ExitInv, Exit, Plain
<1>11. IdInv'
  BY <1>3 DEF IInv, TypeOK, IdInv, Exit, NoPending, Plain
<1>12. StallInv' /\ DisposedInv'
  BY DEF StallInv, DisposedInv, Exit
<1>13. AnswersReachTheirQuestion'
  BY DEF IInv, AnswersReachTheirQuestion, Exit
<1> QED
  BY <1>4, <1>5, <1>6, <1>7, <1>8, <1>9, <1>10, <1>11, <1>12, <1>13 DEF IInv, TypeOK,
     FlagsType, CountersType, PendingType, ClientType

\* readEvent keeps what the client knows; it arms the timer when it waits.
LEMMA ReadInv ==
  ASSUME IInv, Read PROVE IInv'
<1>1. StallAfter \in Nat /\ InterruptTimeout \in Nat
  BY AgentSessionAssumption
<1>3. /\ queue' \in Seq(Event) /\ event' \in {NoEvent} \cup Event
      /\ pc' \in {"wait", "handle"}
      /\ HandsInv'
      /\ \A k \in Known : k # NoEvent => k \in Known'
      /\ Known' \subseteq Known \cup {NoEvent}
  BY ReadKeepsKnown DEF IInv
<1>4. FlagsType'
  BY DEF IInv, TypeOK, FlagsType, Read, history
<1>5. CountersType'
  BY <1>1 DEF IInv, TypeOK, CountersType, Read, ArmStalledTimer, history
<1>6. PendingType'
  BY DEF IInv, TypeOK, PendingType, Read
<1>7. ClientType'
  BY DEF IInv, TypeOK, ClientType, Read
<1>8. HandsInv' /\ PendingInv'
  BY <1>3 DEF IInv, PendingInv, Read, NoEvent
<1>9. TimerInv'
  BY <1>3 DEF IInv, TypeOK, TimerInv, Read, ArmStalledTimer, NoEvent, NoPending,
     Correlated, Question
<1>10. ExitInv'
  BY <1>3 DEF IInv, ExitInv, Read, history, NoEvent, NoPending
<1>11. IdInv'
  BY <1>3 DEF IInv, TypeOK, IdInv, Read, NoEvent, NoPending
<1>12. StallInv' /\ DisposedInv'
  BY <1>1 DEF IInv, TypeOK, StallInv, DisposedInv, Read, ArmStalledTimer, history
<1>13. AnswersReachTheirQuestion'
  BY DEF IInv, AnswersReachTheirQuestion, Read, history
<1> QED
  BY <1>4, <1>5, <1>6, <1>7, <1>8, <1>9, <1>10, <1>11, <1>12, <1>13 DEF IInv, TypeOK,
     FlagsType, CountersType, PendingType, ClientType

\* A log is put out of the client's hands.
LEMMA HandleLogInv ==
  ASSUME IInv, HandleLog PROVE IInv'
<1>1. StallAfter \in Nat /\ InterruptTimeout \in Nat
  BY AgentSessionAssumption
<1>3. UNCHANGED queue /\ event' = NoEvent /\ Known' \cup {event} = Known \cup {NoEvent}
  BY DEF HandleLog, session, Known, Queued
<1>4. FlagsType'
  BY DEF IInv, TypeOK, FlagsType, HandleLog, session, history
<1>5. CountersType'
  BY DEF IInv, TypeOK, CountersType, HandleLog, session, history
<1>6. PendingType'
  BY DEF IInv, TypeOK, PendingType, HandleLog, session
<1>7. ClientType'
  BY DEF IInv, TypeOK, ClientType, HandleLog, session
<1>8. HandsInv' /\ PendingInv'
  BY <1>3 DEF IInv, TypeOK, HandsInv, PendingInv, HandleLog, session, Correlated,
     Question
<1>9. TimerInv'
  BY <1>3 DEF IInv, TimerInv, HandleLog, session, Correlated, Question
<1>10. ExitInv'
  BY <1>3 DEF IInv, ExitInv, HandleLog, session, history
<1>11. IdInv'
  BY <1>3 DEF IInv, TypeOK, IdInv, HandleLog, session, NoEvent, NoPending
<1>12. StallInv' /\ DisposedInv'
  BY DEF IInv, StallInv, DisposedInv, HandleLog, session, history
<1>13. AnswersReachTheirQuestion'
  BY DEF IInv, AnswersReachTheirQuestion, HandleLog, history
<1> QED
  BY <1>4, <1>5, <1>6, <1>7, <1>8, <1>9, <1>10, <1>11, <1>12, <1>13 DEF IInv, TypeOK,
     FlagsType, CountersType, PendingType, ClientType

\* An answer closes the open question and arms the timer.
LEMMA AnswerInv ==
  ASSUME IInv, NEW yes \in BOOLEAN, Answer(yes) PROVE IInv'
<1>1. StallAfter \in Nat /\ InterruptTimeout \in Nat
  BY AgentSessionAssumption
<1>2. event = pending /\ event \in Event /\ event # NoEvent
  <2>1. pending.id # 0 /\ event.id = pending.id
    BY DEF Answer, Accepted, IInv, TypeOK
  <2>2. event = pending
    BY <2>1 DEF IInv, IdInv, Known
  <2> QED
    BY <2>2 DEF Answer, Accepted, IInv, TypeOK, NoEvent
<1>3. /\ UNCHANGED queue /\ event' = NoEvent /\ Known' \cup {event} = Known \cup {NoEvent}
      /\ event = pending /\ event \in Event
  BY <1>2 DEF Answer, Known, Queued
<1>20. granted' \subseteq Nat /\ received' \subseteq Nat
  <2>1. event.no \in Nat /\ pending.no \in Nat
    BY <1>3 DEF Event
  <2> QED
    BY <2>1 DEF Answer, IInv, TypeOK
<1>4. FlagsType'
  BY DEF IInv, TypeOK, FlagsType, Answer
<1>5. CountersType'
  BY <1>1, <1>20 DEF IInv, TypeOK, CountersType, Answer, MarkProgress
<1>6. PendingType'
  BY DEF PendingType, Answer
<1>7. ClientType'
  BY DEF IInv, TypeOK, ClientType, Answer
<1>8. HandsInv' /\ PendingInv'
  BY DEF HandsInv, PendingInv, Answer
<1>9. TimerInv'
  BY <1>1 DEF TimerInv, Answer, MarkProgress
<1>10. ExitInv'
  BY <1>3 DEF IInv, ExitInv, Answer, Question
<1>11. IdInv'
  BY <1>3 DEF IInv, TypeOK, IdInv, Answer, NoEvent, NoPending
<1>12. StallInv' /\ DisposedInv'
  BY DEF IInv, StallInv, DisposedInv, Answer, MarkProgress
<1>13. AnswersReachTheirQuestion'
  BY <1>3 DEF IInv, AnswersReachTheirQuestion, Answer
<1> QED
  BY <1>4, <1>5, <1>6, <1>7, <1>8, <1>9, <1>10, <1>11, <1>12, <1>13 DEF IInv, TypeOK,
     FlagsType, CountersType, PendingType, ClientType

\* A command for a question that is closed is rejected; the client gives up.
LEMMA CommandRejectedInv ==
  ASSUME IInv, CommandRejected PROVE IInv'
<1>1. StallAfter \in Nat /\ InterruptTimeout \in Nat
  BY AgentSessionAssumption
<1>3. UNCHANGED queue /\ event' = NoEvent /\ Known' \cup {event} = Known \cup {NoEvent}
  BY DEF CommandRejected, session, Known, Queued
<1>4. FlagsType'
  BY DEF IInv, TypeOK, FlagsType, CommandRejected, session, history
<1>5. CountersType'
  BY DEF IInv, TypeOK, CountersType, CommandRejected, session, history
<1>6. PendingType'
  BY DEF IInv, TypeOK, PendingType, CommandRejected, session
<1>7. ClientType'
  BY DEF IInv, TypeOK, ClientType, CommandRejected, session
<1>8. HandsInv' /\ PendingInv'
  BY <1>3 DEF IInv, HandsInv, PendingInv, CommandRejected, Accepted, session
<1>9. TimerInv'
  BY DEF TimerInv, CommandRejected
<1>10. ExitInv'
  BY DEF IInv, ExitInv, CommandRejected, session, history
<1>11. IdInv'
  BY <1>3 DEF IInv, TypeOK, IdInv, CommandRejected, session, NoEvent, NoPending
<1>12. StallInv' /\ DisposedInv'
  BY DEF IInv, StallInv, DisposedInv, CommandRejected, session, history
<1>13. AnswersReachTheirQuestion'
  BY DEF IInv, AnswersReachTheirQuestion, CommandRejected, history
<1> QED
  BY <1>4, <1>5, <1>6, <1>7, <1>8, <1>9, <1>10, <1>11, <1>12, <1>13 DEF IInv, TypeOK,
     FlagsType, CountersType, PendingType, ClientType

\* A stall that is waited out is closed, and the timer armed.
LEMMA ResumeInv ==
  ASSUME IInv, Resume PROVE IInv'
<1>1. StallAfter \in Nat /\ InterruptTimeout \in Nat
  BY AgentSessionAssumption
<1>3. UNCHANGED queue /\ event' = NoEvent /\ Known' \cup {event} = Known \cup {NoEvent}
  BY DEF Resume, Known, Queued
<1>4. FlagsType'
  BY DEF IInv, TypeOK, FlagsType, Resume, history
<1>5. CountersType'
  BY <1>1 DEF IInv, TypeOK, CountersType, Resume, MarkProgress, history
<1>6. PendingType'
  BY DEF PendingType, Resume
<1>7. ClientType'
  BY DEF IInv, TypeOK, ClientType, Resume
<1>8. HandsInv' /\ PendingInv'
  BY DEF HandsInv, PendingInv, Resume
<1>9. TimerInv'
  BY <1>1 DEF TimerInv, Resume, MarkProgress
<1>10. ExitInv'
  BY <1>3 DEF IInv, ExitInv, Resume, history
<1>11. IdInv'
  BY <1>3 DEF IInv, TypeOK, IdInv, Resume, NoEvent, NoPending
<1>12. StallInv' /\ DisposedInv'
  BY DEF IInv, StallInv, DisposedInv, Resume, MarkProgress
<1>13. AnswersReachTheirQuestion'
  BY DEF IInv, AnswersReachTheirQuestion, Resume, history
<1> QED
  BY <1>4, <1>5, <1>6, <1>7, <1>8, <1>9, <1>10, <1>11, <1>12, <1>13 DEF IInv, TypeOK,
     FlagsType, CountersType, PendingType, ClientType

\* A stall that is interrupted: the client waits for the SDK.
LEMMA InterruptInv ==
  ASSUME IInv, Interrupt PROVE IInv'
<1>1. StallAfter \in Nat /\ InterruptTimeout \in Nat
  BY AgentSessionAssumption
<1>3. UNCHANGED queue /\ event' = NoEvent /\ Known' \cup {event} = Known \cup {NoEvent}
  BY DEF Interrupt, Known, Queued
<1>4. FlagsType'
  BY DEF IInv, TypeOK, FlagsType, Interrupt, history
<1>5. CountersType'
  BY <1>1 DEF IInv, TypeOK, CountersType, Interrupt, history
<1>6. PendingType'
  BY DEF PendingType, Interrupt
<1>7. ClientType'
  BY DEF IInv, TypeOK, ClientType, Interrupt
<1>8. HandsInv' /\ PendingInv'
  BY DEF HandsInv, PendingInv, Interrupt
<1>9. TimerInv'
  BY DEF TimerInv, Interrupt
<1>10. ExitInv'
  BY <1>3 DEF IInv, ExitInv, Interrupt, history
<1>11. IdInv'
  BY <1>3 DEF IInv, TypeOK, IdInv, Interrupt, NoEvent, NoPending
<1>12. StallInv' /\ DisposedInv'
  BY DEF StallInv, DisposedInv, Interrupt
<1>13. AnswersReachTheirQuestion'
  BY DEF IInv, AnswersReachTheirQuestion, Interrupt, history
<1> QED
  BY <1>4, <1>5, <1>6, <1>7, <1>8, <1>9, <1>10, <1>11, <1>12, <1>13 DEF IInv, TypeOK,
     FlagsType, CountersType, PendingType, ClientType

\* interruptSession, from outside of the client's loop.
LEMMA QuiesceInv ==
  ASSUME IInv, Quiesce PROVE IInv'
<1>1. StallAfter \in Nat /\ InterruptTimeout \in Nat
  BY AgentSessionAssumption
<1>3. UNCHANGED <<queue, event>> /\ Known' = Known
  BY SameKnown DEF Quiesce
<1>4. FlagsType'
  BY DEF IInv, TypeOK, FlagsType, Quiesce, history
<1>5. CountersType'
  BY <1>1 DEF IInv, TypeOK, CountersType, Quiesce, history
<1>6. PendingType'
  BY DEF PendingType, Quiesce
<1>7. ClientType'
  BY DEF IInv, TypeOK, ClientType, Quiesce
<1>8. HandsInv' /\ PendingInv'
  BY DEF IInv, HandsInv, PendingInv, Quiesce
<1>9. TimerInv'
  BY DEF TimerInv, Quiesce
<1>10. ExitInv'
  BY DEF IInv, ExitInv, Quiesce, history
<1>11. IdInv'
  BY <1>3 DEF IInv, TypeOK, IdInv, Quiesce, NoPending
<1>12. StallInv' /\ DisposedInv'
  BY DEF StallInv, DisposedInv, Quiesce
<1>13. AnswersReachTheirQuestion'
  BY DEF IInv, AnswersReachTheirQuestion, Quiesce, history
<1> QED
  BY <1>4, <1>5, <1>6, <1>7, <1>8, <1>9, <1>10, <1>11, <1>12, <1>13 DEF IInv, TypeOK,
     FlagsType, CountersType, PendingType, ClientType

\* The SDK has taken the interrupt: the interrupt timer runs.
LEMMA InterruptSentInv ==
  ASSUME IInv, InterruptSent PROVE IInv'
<1>1. StallAfter \in Nat /\ InterruptTimeout \in Nat
  BY AgentSessionAssumption
<1>3. UNCHANGED <<queue, event>> /\ Known' = Known
  BY SameKnown DEF InterruptSent
<1>4. FlagsType'
  BY DEF IInv, TypeOK, FlagsType, InterruptSent, history
<1>5. CountersType'
  BY DEF IInv, TypeOK, CountersType, InterruptSent, history
<1>6. PendingType'
  BY DEF IInv, TypeOK, PendingType, InterruptSent
<1>7. ClientType'
  BY DEF IInv, TypeOK, ClientType, InterruptSent
<1>8. HandsInv' /\ PendingInv'
  BY <1>3 DEF IInv, HandsInv, PendingInv, InterruptSent
<1>9. TimerInv'
  BY <1>1 DEF TimerInv, InterruptSent
<1>10. ExitInv'
  BY <1>3 DEF IInv, ExitInv, InterruptSent, history
<1>11. IdInv'
  BY <1>3 DEF IInv, IdInv, InterruptSent
<1>12. StallInv' /\ DisposedInv'
  BY DEF IInv, StallInv, DisposedInv, InterruptSent, history
<1>13. AnswersReachTheirQuestion'
  BY DEF IInv, AnswersReachTheirQuestion, InterruptSent, history
<1> QED
  BY <1>4, <1>5, <1>6, <1>7, <1>8, <1>9, <1>10, <1>11, <1>12, <1>13 DEF IInv, TypeOK,
     FlagsType, CountersType, PendingType, ClientType

\* The SDK has refused the interrupt: nothing is armed.
LEMMA InterruptRejectedInv ==
  ASSUME IInv, InterruptRejected PROVE IInv'
<1>1. StallAfter \in Nat /\ InterruptTimeout \in Nat
  BY AgentSessionAssumption
<1>3. UNCHANGED <<queue, event>> /\ Known' = Known
  BY SameKnown DEF InterruptRejected, session
<1>4. FlagsType'
  BY DEF IInv, TypeOK, FlagsType, InterruptRejected, session, history
<1>5. CountersType'
  BY DEF IInv, TypeOK, CountersType, InterruptRejected, session, history
<1>6. PendingType'
  BY DEF IInv, TypeOK, PendingType, InterruptRejected, session
<1>7. ClientType'
  BY DEF IInv, TypeOK, ClientType, InterruptRejected, session
<1>8. HandsInv' /\ PendingInv'
  BY <1>3 DEF IInv, HandsInv, PendingInv, InterruptRejected, session
<1>9. TimerInv'
  BY DEF TimerInv, InterruptRejected
<1>10. ExitInv'
  BY DEF IInv, ExitInv, InterruptRejected, session, history
<1>11. IdInv'
  BY <1>3 DEF IInv, IdInv, InterruptRejected, session
<1>12. StallInv' /\ DisposedInv'
  BY DEF IInv, StallInv, DisposedInv, InterruptRejected, session, history
<1>13. AnswersReachTheirQuestion'
  BY DEF IInv, AnswersReachTheirQuestion, InterruptRejected, history
<1> QED
  BY <1>4, <1>5, <1>6, <1>7, <1>8, <1>9, <1>10, <1>11, <1>12, <1>13 DEF IInv, TypeOK,
     FlagsType, CountersType, PendingType, ClientType

\* The end of a turn, or of the session, ends the client's loop.
LEMMA HandleEndInv ==
  ASSUME IInv, HandleEnd PROVE IInv'
<1>1. StallAfter \in Nat /\ InterruptTimeout \in Nat
  BY AgentSessionAssumption
<1>3. UNCHANGED queue /\ event' = NoEvent /\ Known' \cup {event} = Known \cup {NoEvent}
  BY DEF HandleEnd, session, Known, Queued
<1>4. FlagsType'
  BY DEF IInv, TypeOK, FlagsType, HandleEnd, session, history
<1>5. CountersType'
  BY DEF IInv, TypeOK, CountersType, HandleEnd, session, history
<1>6. PendingType'
  BY DEF IInv, TypeOK, PendingType, HandleEnd, session
<1>7. ClientType'
  BY DEF IInv, TypeOK, ClientType, HandleEnd, session
<1>8. HandsInv' /\ PendingInv'
  BY <1>3 DEF IInv, TypeOK, HandsInv, PendingInv, HandleEnd, session, Correlated,
     Question
<1>9. TimerInv'
  BY DEF TimerInv, HandleEnd
<1>10. ExitInv'
  BY DEF IInv, ExitInv, HandleEnd, session, history
<1>11. IdInv'
  BY <1>3 DEF IInv, TypeOK, IdInv, HandleEnd, session, NoEvent, NoPending
<1>12. StallInv' /\ DisposedInv'
  BY DEF IInv, StallInv, DisposedInv, HandleEnd, session, history
<1>13. AnswersReachTheirQuestion'
  BY DEF IInv, AnswersReachTheirQuestion, HandleEnd, history
<1> QED
  BY <1>4, <1>5, <1>6, <1>7, <1>8, <1>9, <1>10, <1>11, <1>12, <1>13 DEF IInv, TypeOK,
     FlagsType, CountersType, PendingType, ClientType

\* A request is an event with the next correlation id, and stops the timer.
LEMMA AskInv ==
  ASSUME IInv, NEW type \in Question, Ask(type), pending = NoPending, pc # "disposed"
  PROVE  IInv'
<1>1. StallAfter \in Nat /\ InterruptTimeout \in Nat
  BY AgentSessionAssumption
<1>2. pending' \in Event /\ Deliver(pending')
  BY DEF Ask, IInv, TypeOK, Event, Correlated, Speak
<1>3. /\ queue' \in Seq(Event) /\ event' \in {NoEvent} \cup Event
      /\ pc' = IF pc = "wait" THEN "handle" ELSE pc
      /\ HandsInv'
      /\ pending' \in Known'
      /\ \A k \in Known : k # NoEvent => k \in Known'
      /\ Known' \subseteq Known \cup {pending'}
  BY <1>2, Delivered DEF IInv
<1>4. FlagsType'
  BY DEF IInv, TypeOK, FlagsType, Ask, history
<1>5. CountersType'
  BY <1>1 DEF IInv, TypeOK, CountersType, Ask, Speak, MarkProgress, history
<1>6. PendingType'
  BY DEF IInv, TypeOK, PendingType, Ask, Speak, Correlated
<1>7. ClientType'
  BY <1>3 DEF IInv, TypeOK, ClientType
<1>8. HandsInv' /\ PendingInv'
  BY <1>3 DEF PendingInv
<1>9. TimerInv'
  BY DEF TimerInv, Ask, NoPending, Question
<1>10. ExitInv'
  BY <1>3 DEF IInv, ExitInv, Ask, history, NoEvent, NoPending
<1>11. IdInv'
  BY <1>3 DEF IInv, TypeOK, IdInv, Ask
<1>12. StallInv' /\ DisposedInv'
  BY <1>3 DEF IInv, TypeOK, StallInv, DisposedInv, Ask, MarkProgress, NoPending
<1>13. AnswersReachTheirQuestion'
  BY DEF IInv, AnswersReachTheirQuestion, Ask, history
<1> QED
  BY <1>4, <1>5, <1>6, <1>7, <1>8, <1>9, <1>10, <1>11, <1>12, <1>13 DEF IInv, TypeOK,
     FlagsType, CountersType, PendingType, ClientType

\* A request beside one that is open, or after the disposal, is no event.
LEMMA NoAskInv ==
  ASSUME IInv, NEW type \in Question, Ask(type), pending # NoPending \/ pc = "disposed"
  PROVE  IInv'
<1>1. StallAfter \in Nat /\ InterruptTimeout \in Nat
  BY AgentSessionAssumption
<1>3. UNCHANGED <<queue, event>> /\ Known' = Known
  BY SameKnown DEF Ask, session, client
<1>4. FlagsType'
  BY DEF IInv, TypeOK, FlagsType, Ask, session, history
<1>5. CountersType'
  BY <1>3 DEF IInv, TypeOK, CountersType, Ask, Speak, session, history
<1>6. PendingType'
  BY DEF IInv, TypeOK, PendingType, Ask, Speak, session
<1>7. ClientType'
  BY DEF IInv, TypeOK, ClientType, Ask, session, client
<1>8. HandsInv' /\ PendingInv'
  BY <1>3 DEF IInv, HandsInv, PendingInv, Ask, session, client
<1>9. TimerInv'
  BY DEF TimerInv, Ask, session, client
<1>10. ExitInv'
  BY <1>3 DEF IInv, ExitInv, Ask, session, client, history
<1>11. IdInv'
  BY <1>3 DEF IInv, IdInv, Ask, session
<1>12. StallInv' /\ DisposedInv'
  BY DEF IInv, StallInv, DisposedInv, Ask, session, client
<1>13. AnswersReachTheirQuestion'
  BY DEF IInv, AnswersReachTheirQuestion, Ask, history
<1> QED
  BY <1>4, <1>5, <1>6, <1>7, <1>8, <1>9, <1>10, <1>11, <1>12, <1>13 DEF IInv, TypeOK,
     FlagsType, CountersType, PendingType, ClientType

\* The stalled timer goes off with no question open: an event with an id.
LEMMA StalledInv ==
  ASSUME IInv, StalledTimer, ~ terminal, pending = NoPending PROVE IInv'
<1>1. StallAfter \in Nat /\ InterruptTimeout \in Nat
  BY AgentSessionAssumption
<1>2. pending' \in Event /\ Deliver(pending')
  BY DEF StalledTimer, IInv, TypeOK, Event, Correlated
<1>3. /\ queue' \in Seq(Event) /\ event' \in {NoEvent} \cup Event
      /\ pc' = IF pc = "wait" THEN "handle" ELSE pc
      /\ HandsInv'
      /\ pending' \in Known'
      /\ \A k \in Known : k # NoEvent => k \in Known'
      /\ Known' \subseteq Known \cup {pending'}
  BY <1>2, Delivered DEF IInv
<1>4. FlagsType'
  BY DEF IInv, TypeOK, FlagsType, StalledTimer, history
<1>5. CountersType'
  BY <1>1 DEF IInv, TypeOK, CountersType, StalledTimer, history
<1>6. PendingType'
  BY DEF IInv, TypeOK, PendingType, StalledTimer, Correlated
<1>7. ClientType'
  BY <1>3 DEF IInv, TypeOK, ClientType
<1>8. HandsInv' /\ PendingInv'
  BY <1>3 DEF PendingInv
<1>9. TimerInv'
  BY DEF TimerInv, StalledTimer, NoPending
<1>10. ExitInv'
  BY DEF IInv, ExitInv, StalledTimer, history
<1>11. IdInv'
  BY <1>3 DEF IInv, TypeOK, IdInv, StalledTimer
<1>12. StallInv' /\ DisposedInv'
  BY <1>3 DEF IInv, StallInv, DisposedInv, StalledTimer
<1>13. AnswersReachTheirQuestion'
  BY DEF IInv, AnswersReachTheirQuestion, StalledTimer, history
<1> QED
  BY <1>4, <1>5, <1>6, <1>7, <1>8, <1>9, <1>10, <1>11, <1>12, <1>13 DEF IInv, TypeOK,
     FlagsType, CountersType, PendingType, ClientType

\* It goes off in vain while a question is open.
LEMMA NotStalledInv ==
  ASSUME IInv, StalledTimer, terminal \/ pending # NoPending PROVE IInv'
<1>1. StallAfter \in Nat /\ InterruptTimeout \in Nat
  BY AgentSessionAssumption
<1>3. UNCHANGED <<queue, event>> /\ Known' = Known
  BY SameKnown DEF StalledTimer, client
<1>4. FlagsType'
  BY DEF IInv, TypeOK, FlagsType, StalledTimer, history
<1>5. CountersType'
  BY <1>1 DEF IInv, TypeOK, CountersType, StalledTimer, history
<1>6. PendingType'
  BY DEF IInv, TypeOK, PendingType, StalledTimer
<1>7. ClientType'
  BY DEF IInv, TypeOK, ClientType, StalledTimer, client
<1>8. HandsInv' /\ PendingInv'
  BY <1>3 DEF IInv, HandsInv, PendingInv, StalledTimer, client
<1>9. TimerInv'
  BY DEF TimerInv, StalledTimer
<1>10. ExitInv'
  BY <1>3 DEF IInv, ExitInv, StalledTimer, client, history
<1>11. IdInv'
  BY <1>3 DEF IInv, IdInv, StalledTimer
<1>12. StallInv' /\ DisposedInv'
  BY DEF IInv, StallInv, DisposedInv, StalledTimer, client
<1>13. AnswersReachTheirQuestion'
  BY DEF IInv, AnswersReachTheirQuestion, StalledTimer, history
<1> QED
  BY <1>4, <1>5, <1>6, <1>7, <1>8, <1>9, <1>10, <1>11, <1>12, <1>13 DEF IInv, TypeOK,
     FlagsType, CountersType, PendingType, ClientType

\* The interrupt timer goes off in vain when the session has ended.
LEMMA TimerAfterExitInv ==
  ASSUME IInv, InterruptTimer, terminal PROVE IInv'
<1>1. StallAfter \in Nat /\ InterruptTimeout \in Nat
  BY AgentSessionAssumption
<1>3. /\ UNCHANGED <<queue, event, pc, pending, stalledIn, quiet, terminal, correlation, said, exits,
                    granted, received>>
      /\ interruptIn' = 0 /\ Known' = Known
  BY SameKnown DEF InterruptTimer, client, history
<1>4. FlagsType'
  BY DEF IInv, TypeOK, FlagsType, InterruptTimer, history
<1>5. CountersType'
  BY <1>1, <1>3 DEF IInv, TypeOK, CountersType
<1>6. PendingType'
  BY DEF IInv, TypeOK, PendingType, InterruptTimer
<1>7. ClientType'
  BY DEF IInv, TypeOK, ClientType, InterruptTimer, client
<1>8. HandsInv' /\ PendingInv'
  BY <1>3 DEF IInv, HandsInv, PendingInv
<1>9. TimerInv'
  BY DEF TimerInv, InterruptTimer
<1>10. ExitInv'
  BY <1>3 DEF IInv, ExitInv
<1>11. IdInv'
  BY <1>3 DEF IInv, IdInv
<1>12. StallInv' /\ DisposedInv'
  BY DEF IInv, StallInv, DisposedInv, InterruptTimer
<1>13. AnswersReachTheirQuestion'
  BY DEF IInv, AnswersReachTheirQuestion, InterruptTimer, history
<1> QED
  BY <1>4, <1>5, <1>6, <1>7, <1>8, <1>9, <1>10, <1>11, <1>12, <1>13 DEF IInv, TypeOK,
     FlagsType, CountersType, PendingType, ClientType

\* The stream ends after the session did.
LEMMA StreamAfterExitInv ==
  ASSUME IInv, StreamEnds, terminal PROVE IInv'
<1>1. StallAfter \in Nat /\ InterruptTimeout \in Nat
  BY AgentSessionAssumption
<1>3. UNCHANGED <<queue, event>> /\ Known' = Known
  BY SameKnown DEF StreamEnds, session, client
<1>4. FlagsType'
  BY DEF IInv, TypeOK, FlagsType, StreamEnds, session, history
<1>5. CountersType'
  BY DEF IInv, TypeOK, CountersType, StreamEnds, session, history
<1>6. PendingType'
  BY DEF IInv, TypeOK, PendingType, StreamEnds, session
<1>7. ClientType'
  BY DEF IInv, TypeOK, ClientType, StreamEnds, session, client
<1>8. HandsInv' /\ PendingInv'
  BY <1>3 DEF IInv, HandsInv, PendingInv, StreamEnds, session, client
<1>9. TimerInv'
  BY DEF TimerInv, StreamEnds, session
<1>10. ExitInv'
  BY <1>3 DEF IInv, ExitInv, StreamEnds, session, client, history
<1>11. IdInv'
  BY <1>3 DEF IInv, IdInv, StreamEnds, session
<1>12. StallInv' /\ DisposedInv'
  BY DEF IInv, StallInv, DisposedInv, StreamEnds, session, client
<1>13. AnswersReachTheirQuestion'
  BY DEF IInv, AnswersReachTheirQuestion, StreamEnds, history
<1> QED
  BY <1>4, <1>5, <1>6, <1>7, <1>8, <1>9, <1>10, <1>11, <1>12, <1>13 DEF IInv, TypeOK,
     FlagsType, CountersType, PendingType, ClientType

\* disposeSession clears the timers.
LEMMA DisposeInv ==
  ASSUME IInv, Dispose PROVE IInv'
<1>1. StallAfter \in Nat /\ InterruptTimeout \in Nat
  BY AgentSessionAssumption
<1>3. queue' = <<>> /\ <<>> \in Seq(Event) /\ event = NoEvent /\ event' = NoEvent /\ Known' = {NoEvent}
  BY DEF Dispose, IInv, HandsInv, Known, Queued
<1>4. FlagsType'
  BY DEF IInv, TypeOK, FlagsType, Dispose, history
<1>5. CountersType'
  BY <1>1 DEF IInv, TypeOK, CountersType, Dispose, history
<1>6. PendingType'
  BY DEF PendingType, Dispose
<1>7. ClientType'
  BY DEF IInv, TypeOK, ClientType, Dispose
<1>8. HandsInv' /\ PendingInv'
  BY DEF IInv, HandsInv, PendingInv, Dispose
<1>9. TimerInv'
  BY DEF TimerInv, Dispose
<1>10. ExitInv'
  BY DEF IInv, ExitInv, Dispose, history
<1>11. IdInv'
  BY <1>3 DEF IInv, TypeOK, IdInv, Dispose, NoEvent, NoPending
<1>12. StallInv' /\ DisposedInv'
  BY DEF StallInv, DisposedInv, Dispose
<1>13. AnswersReachTheirQuestion'
  BY DEF IInv, AnswersReachTheirQuestion, Dispose, history
<1> QED
  BY <1>4, <1>5, <1>6, <1>7, <1>8, <1>9, <1>10, <1>11, <1>12, <1>13 DEF IInv, TypeOK,
     FlagsType, CountersType, PendingType, ClientType

-----------------------------------------------------------------------------
\* The end of the stream and an interrupt that is ignored: a session exits
\* unless it has exited already.
LEMMA EndOfStreamInv == ASSUME IInv, StreamEnds PROVE IInv'
<1>1. CASE terminal
  BY <1>1, StreamAfterExitInv
<1>2. CASE ~ terminal
  <2>1. Exit /\ UNCHANGED <<interrupting, correlation, rearms, said>> /\ open' \in BOOLEAN
    BY <1>2 DEF StreamEnds
  <2> QED
    BY <1>2, <2>1, ExitStepInv
<1> QED
  BY <1>1, <1>2

\* An interrupt that is ignored ends the session.
LEMMA InterruptTimeoutInv == ASSUME IInv, InterruptTimer PROVE IInv'
<1>1. CASE terminal
  BY <1>1, TimerAfterExitInv
<1>2. CASE ~ terminal
  <2>1. Exit /\ UNCHANGED <<interrupting, correlation, rearms, said>> /\ open' \in BOOLEAN
    BY <1>2 DEF InterruptTimer, IInv, TypeOK
  <2> QED
    BY <1>2, <2>1, ExitStepInv
<1> QED
  BY <1>1, <1>2

\* Steps of nobody.
LEMMA StutterInv == ASSUME IInv, UNCHANGED vars PROVE IInv'
<1>1. Known' = Known
  BY SameKnown DEF vars, session, client
<1> QED
  BY <1>1 DEF vars, session, client, history, IInv, TypeOK, HandsInv, PendingInv,
     TimerInv, ExitInv, IdInv, StallInv, DisposedInv, AnswersReachTheirQuestion

\* The invariant is inductive.
LEMMA StepInv == ASSUME IInv, [Next]_vars PROVE IInv'
<1>1. ASSUME Agent PROVE IInv'
  <2>1. ASSUME NEW type \in Question, Ask(type) PROVE IInv'
    BY <2>1, AskInv, NoAskInv
  <2> QED
    BY <1>1, <2>1, LogInv, AbortRequestInv, TurnEndsInv, EndOfStreamInv DEF Agent
<1>2. ASSUME Timer PROVE IInv'
  BY <1>2, StalledInv, NotStalledInv, InterruptTimeoutInv DEF Timer
<1>3. ASSUME Client PROVE IInv'
  BY <1>3, ReadInv, HandleLogInv, AnswerInv, CommandRejectedInv, ResumeInv, InterruptInv,
     HandleEndInv, DisposeInv DEF Client
<1> QED
  BY <1>1, <1>2, <1>3, TickInv, QuiesceInv, InterruptSentInv, InterruptRejectedInv,
     StutterInv DEF Next, InterruptSettles

\* It holds of every state that a session comes to.
LEMMA Invariance == Spec => []IInv
<1>1. IInv /\ [Next]_vars => IInv'
  BY StepInv
<1> QED
  BY <1>1, InitInv, PTL DEF Spec

-----------------------------------------------------------------------------
\* Every variable keeps its type, for all timeouts and message bounds.
THEOREM TypeCorrect == Spec => []TypeOK
<1>1. IInv => TypeOK
  BY DEF IInv
<1> QED
  BY <1>1, Invariance, PTL

\* An answer reaches the request it was given to: an event is the only one
\* with its correlation id, however requests are given up meanwhile.
THEOREM AnswersAreNotMixedUp == Spec => []AnswersReachTheirQuestion
<1>1. IInv => AnswersReachTheirQuestion
  BY DEF IInv
<1> QED
  BY <1>1, Invariance, PTL

\* A client that waits in readEvent is woken by a timer at the latest.
THEOREM WaitingIsWatched == Spec => []WaitingClientIsWoken
<1>1. IInv => WaitingClientIsWoken
  <2> SUFFICES ASSUME IInv, pc = "wait"
               PROVE  queue = <<>> /\ pending = NoPending /\ (stalledIn # 0 \/ interruptIn # 0)
    BY DEF WaitingClientIsWoken
  <2>1. queue = <<>> /\ event = NoEvent
    BY DEF IInv, HandsInv
  <2>2. Known = {NoEvent}
    BY <2>1 DEF Known, Queued
  <2>3. pending = NoPending
    BY <2>2 DEF IInv, PendingInv, NoEvent
  <2>4. ~ terminal
    BY <2>2 DEF IInv, ExitInv, NoEvent, NoPending
  <2>5. stalledIn # 0 \/ interruptIn # 0
    BY <2>2, <2>3, <2>4 DEF IInv, TimerInv, NoEvent, NoPending, Correlated, Question
  <2> QED
    BY <2>1, <2>3, <2>5
<1> QED
  BY <1>1, Invariance, PTL

\* Of all that may end a session, only the first does.
THEOREM SessionsExitOnce == Spec => []ExitsOnce
<1>1. IInv => ExitsOnce
  BY DEF IInv, ExitInv, ExitsOnce
<1> QED
  BY <1>1, Invariance, PTL

\* No timer survives its session.
THEOREM DisposedSessionsAreSilent == Spec => []DisposedIsSilent
<1>1. IInv => DisposedIsSilent
  BY DEF IInv, DisposedInv, StallInv, DisposedIsSilent
<1> QED
  BY <1>1, Invariance, PTL

\* A stall is reported after a silence of StallAfter units, whatever restarts
\* the timer, unless the agent has given up a request that held the timer up.
THEOREM StallsAreSilence == Spec => StalledMeansQuiet
<1> DEFINE A == pending' # pending /\ pending'.type = "stalled"
                  => quiet = StallAfter \/ gaveUp
<1>1. IInv /\ [Next]_vars => [A]_vars
  <2> SUFFICES ASSUME IInv, [Next]_vars, pending' # pending, pending'.type = "stalled"
               PROVE  quiet = StallAfter \/ gaveUp
    OBVIOUS
  <2>1. StalledTimer
    <3>1. ~ Tick /\ ~ Quiesce /\ ~ InterruptSettles /\ ~ UNCHANGED vars
      BY DEF Tick, Quiesce, InterruptSettles, InterruptSent, InterruptRejected, session,
         vars, NoPending
    <3>2. ~ Client
      BY DEF Client, Read, HandleLog, Answer, CommandRejected, Resume, Interrupt,
         HandleEnd, Dispose, session, NoPending
    <3>3. ~ Agent
      BY DEF Agent, Log, Ask, AbortRequest, TurnEnds, StreamEnds, Exit, session,
         NoPending, Question
    <3>4. ~ InterruptTimer
      BY DEF InterruptTimer, Exit, NoPending
    <3> QED
      BY <3>1, <3>2, <3>3, <3>4 DEF Next, Timer
  <2>2. stalledIn = 1 /\ pending = NoPending
    BY <2>1 DEF StalledTimer
  <2>3. quiet \in 0..StallAfter /\ StallAfter \in Nat
    BY AgentSessionAssumption DEF IInv, TypeOK
  <2> QED
    BY <2>2, <2>3 DEF IInv, StallInv
<1> QED
  BY <1>1, Invariance, PTL DEF Spec, StalledMeansQuiet
=============================================================================
