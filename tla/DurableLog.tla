----------------------------- MODULE DurableLog -----------------------------
(***************************************************************************)
(* What daimyo's execution store promises about the log of one task,       *)
(* whatever the format on disk: operations are appended one at a time, an   *)
(* operation becomes visible as a whole or not at all, and once it has      *)
(* been acknowledged to the Supervisor no crash takes it back.              *)
(***************************************************************************)
EXTENDS Naturals, Sequences

CONSTANT Event,    \* the operations the store records
         NoEvent   \* "no append is running"

VARIABLES log,       \* the operations a load returns, oldest first
          acked,     \* how many of them have been acknowledged
          inflight   \* the operation being appended, or NoEvent

vars == <<log, acked, inflight>>

TypeOK ==
  /\ log \in Seq(Event)
  /\ acked \in 0..Len(log)
  /\ inflight \in Event \cup {NoEvent}

Init ==
  /\ log = <<>>
  /\ acked = 0
  /\ inflight = NoEvent

Begin(e) ==
  /\ inflight = NoEvent
  /\ inflight' = e
  /\ UNCHANGED <<log, acked>>

\* The operation becomes visible to loads; it is not yet acknowledged.
Land ==
  /\ inflight # NoEvent
  /\ log' = Append(log, inflight)
  /\ UNCHANGED <<acked, inflight>>

\* The caller learns that everything up to its operation is durable.
Ack ==
  /\ inflight # NoEvent
  /\ log # <<>>
  /\ log[Len(log)] = inflight
  /\ acked' = Len(log)
  /\ inflight' = NoEvent
  /\ UNCHANGED log

\* The append is given up (an error, a crash, a power loss). What was not
\* acknowledged may or may not be visible afterwards.
Abandon ==
  /\ inflight' = NoEvent
  /\ \E n \in acked..Len(log) : log' = SubSeq(log, 1, n)
  /\ UNCHANGED acked

Next ==
  \/ \E e \in Event : Begin(e)
  \/ Land
  \/ Ack
  \/ Abandon

Spec == Init /\ [][Next]_vars
=============================================================================
