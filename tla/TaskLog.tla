------------------------------ MODULE TaskLog ------------------------------
(***************************************************************************)
(* JsonlExecutionStore: the file that holds the log of one task, one JSON   *)
(* line per operation. The store keeps one such file per task and the       *)
(* Supervisor awaits every operation before the next, so there is one       *)
(* writer. An append repairs a torn tail left by an earlier crash, writes   *)
(* the line, syncs it and closes the file; only then does it return.        *)
(*                                                                          *)
(* The bytes of the file are grouped into pieces: a whole line, newline     *)
(* included, or a run of bytes without a newline (a "torn" piece). A load   *)
(* splits at newlines, so a torn piece merges with whatever follows it.     *)
(*                                                                          *)
(* What a running process reads is file; what is on the medium is disk. A   *)
(* killed process leaves file as it is, a power loss leaves anything        *)
(* between disk and file.                                                   *)
(*                                                                          *)
(* The repair counts in UTF-16 units where the file counts in bytes: behind   *)
(* a line with a character outside ASCII it cuts too much away.              *)
(***************************************************************************)
EXTENDS Naturals, Sequences, SequencesExt

CONSTANTS Event,        \* the operations the Supervisor records
          Wide,         \* those whose line has a character outside ASCII
          NoEvent,      \* "no append is running"
          ShortWrites,  \* may write(2) accept part of the line without an error?
          MaxLines      \* bound: lines the file may hold

ASSUME TaskLogAssumption ==
  /\ NoEvent \notin Event
  /\ Wide \subseteq Event
  /\ ShortWrites \in BOOLEAN
  /\ MaxLines \in Nat

VARIABLES file,      \* the pieces of the file, as a read returns them
          disk,      \* the pieces a power loss cannot take away
          pc,        \* where the running append is
          inflight,  \* the operation it appends
          seen,      \* history: what a load returned when that append began
          promised,  \* history: what the Supervisor may rely on: the log as
                     \* the last append that returned saw it, and its operation
          clipped    \* history: has a repair met a torn tail behind a wide line?

vars == <<file, disk, pc, inflight, seen, promised, clipped>>

Piece == [kind : {"line", "torn"}, event : Event]
Line(e) == [kind |-> "line", event |-> e]
Torn(e) == [kind |-> "torn", event |-> e]

\* The variables have their types, and an operation is in flight exactly
\* while an append (appendEvent) runs.
TypeOK ==
  /\ file \in Seq(Piece)
  /\ disk \in Seq(Piece)
  /\ pc \in {"idle", "repair", "write", "sync", "close"}
  /\ inflight \in Event \cup {NoEvent}
  /\ pc = "idle" <=> inflight = NoEvent
  /\ seen \in Seq(Event)
  /\ promised \in Seq(Event)
  /\ clipped \in BOOLEAN

\* content.lastIndexOf("\n"): how many pieces end at or before the last newline.
LastCompleteLine(f) ==
  CHOOSE n \in 0..Len(f) :
    /\ n > 0 => f[n].kind = "line"
    /\ \A m \in (n + 1)..Len(f) : f[m].kind = "torn"

\* What a load decodes: the lines up to the last newline.
CompleteLines(f) == SubSeq(f, 1, LastCompleteLine(f))

EndsWithNewline(f) == f = <<>> \/ f[Len(f)].kind = "line"

\* decodeStoredEvent accepts every line: no line starts with a torn piece.
Decodable(f) == \A i \in 1..LastCompleteLine(f) : f[i].kind = "line"

Decode(f) == [i \in 1..LastCompleteLine(f) |-> f[i].event]

Init ==
  /\ file = <<>>
  /\ disk = <<>>
  /\ pc = "idle"
  /\ inflight = NoEvent
  /\ seen = <<>>
  /\ promised = <<>>
  /\ clipped = FALSE

\* An operation of the store is called: mkdir, then the append proper.
Begin(e) ==
  /\ pc = "idle"
  /\ Len(file) < MaxLines
  /\ pc' = "repair"
  /\ inflight' = e
  /\ seen' = Decode(file)
  /\ UNCHANGED <<file, disk, promised, clipped>>

\* Mutation: the repair truncates to one line less than it should.
RepairOneLineTooMuch ==
  /\ pc = "repair"
  /\ file' = SubSeq(file, 1, LastCompleteLine(file) - 1)
  /\ pc' = "write"
  /\ UNCHANGED <<disk, inflight, seen, promised, clipped>>

\* What is left of the complete lines when fewer bytes are kept than they have.
CutInto(f) ==
  LET n == LastCompleteLine(f) - 1
  IN  {SubSeq(f, 1, k) : k \in 1..n}
      \cup {Append(SubSeq(f, 1, k), Torn(f[k + 1].event)) : k \in 0..n}

\* truncate(path, lastCompleteLineOffset(content)): as many bytes are kept as
\* the complete lines have UTF-16 units. Those are too few when one of the
\* lines is wide; a piece of a wide line may or may not hold what makes it so.
Truncated(f) ==
  LET complete == {f[i] : i \in 1..LastCompleteLine(f)}
  IN  {g \in {CompleteLines(f)} : \A e \in Wide : Line(e) \notin complete}
      \cup {g \in CutInto(f) : \E p \in complete : p.event \in Wide}

\* A torn tail behind a wide line.
Miscounted(f) == ~EndsWithNewline(f) /\ \E i \in 1..LastCompleteLine(f) : f[i].event \in Wide

\* repairPartialTail: a missing, empty or newline-terminated file is left
\* alone, any other is truncated. The truncation is not synced.
RepairPartialTail ==
  /\ pc = "repair"
  /\ IF EndsWithNewline(file) THEN UNCHANGED file
     ELSE \E f \in Truncated(file) : file' = f
  /\ clipped' = (clipped \/ Miscounted(file))
  /\ pc' = "write"
  /\ UNCHANGED <<disk, inflight, seen, promised>>

\* open(path, "a") and write: the whole line reaches the file. The number of
\* bytes written is not looked at, so a short write goes the same way.
WriteLine ==
  /\ pc = "write"
  /\ \/ file' = Append(file, Line(inflight))
     \/ ShortWrites /\ file' = Append(file, Torn(inflight))
  /\ pc' = "sync"
  /\ UNCHANGED <<disk, inflight, seen, promised, clipped>>

\* Mutation: the line is not synced.
NoSync ==
  /\ pc = "sync"
  /\ pc' = "close"
  /\ UNCHANGED <<file, disk, inflight, seen, promised, clipped>>

\* handle.sync().
Sync ==
  /\ pc = "sync"
  /\ disk' = file
  /\ pc' = "close"
  /\ UNCHANGED <<file, inflight, seen, promised, clipped>>

\* close, and the promise of the operation resolves.
Return ==
  /\ pc = "close"
  /\ promised' = Append(seen, inflight)
  /\ pc' = "idle"
  /\ inflight' = NoEvent
  /\ UNCHANGED <<file, disk, seen, clipped>>

\* The process is killed, or a call rejects and the append rejects with it:
\* the bytes that reached the file stay there. In the middle of the write
\* the line may be torn.
Interrupted ==
  /\ pc # "idle"
  /\ \/ UNCHANGED file
     \/ pc = "write" /\ file' = Append(file, Torn(inflight))
  /\ pc' = "idle"
  /\ inflight' = NoEvent
  /\ UNCHANGED <<disk, seen, promised, clipped>>

\* What can be read after the machine loses power: the medium, the cached
\* file, or the cached file with its last, unsynced line torn.
AfterPowerLoss ==
  {disk, file} \cup
  IF file # <<>> /\ Len(file) > Len(disk)
  THEN {Append(SubSeq(file, 1, Len(file) - 1), Torn(file[Len(file)].event))}
  ELSE {}

PowerLoss ==
  /\ \E f \in AfterPowerLoss : file' = f /\ disk' = f
  /\ pc' = "idle"
  /\ inflight' = NoEvent
  /\ UNCHANGED <<seen, promised, clipped>>

Next ==
  \/ \E e \in Event : Begin(e)
  \/ RepairPartialTail
  \/ WriteLine
  \/ Sync
  \/ Return
  \/ Interrupted
  \/ PowerLoss

Spec == Init /\ [][Next]_vars
-----------------------------------------------------------------------------

\* No load ever meets a line that a torn write ran into: until a repair meets
\* a torn tail behind a line with a character outside ASCII, every complete line of the file decodes, after
\* any sequence of crashes, failed appends and power losses
\* (repairPartialTail before every append is what ensures it).
LoadNeverFails == ~clipped => Decodable(file)

\* "A single fsynced JSON line per operation": once an append has returned,
\* its operation, and all that a load showed when it began, is read back in
\* the same order by every later load, also by one after a power loss; until
\* a repair meets a torn tail behind a line with a character outside ASCII, and
\* cuts into complete lines (KillsCorruptNothing).
PromisedIsDurable ==
  ~clipped => /\ IsPrefix(promised, Decode(file))
              /\ IsPrefix(promised, Decode(disk))

\* "a kill mid-write does not corrupt the store": whatever was acknowledged is
\* read back, and every complete line decodes. Not kept: the offset that
\* repairPartialTail truncates at is one of the decoded string.
KillsCorruptNothing ==
  /\ IsPrefix(promised, Decode(file))
  /\ Decodable(file)

\* The file implements the durable log: its decoded lines change by whole
\* operations, and nothing acknowledged is ever taken back; until a repair
\* meets a torn tail behind a wide line.
Durable == INSTANCE DurableLog
             WITH log <- Decode(file), acked <- Len(promised)

ImplementsDurableLog ==
  Durable!Init /\ [][Durable!Next \/ clipped']_(Durable!vars)
=============================================================================
