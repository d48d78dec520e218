------------------------- MODULE ExecutionStoreProofs -------------------------
(***************************************************************************)
(* Proofs about ExecutionStore, for any operations, nodes, tasks and bounds:  *)
(*  - of the log of a task, as long as no repair has cut into complete lines, *)
(*    that loads never meet a line that does not decode (with or without      *)
(*    short writes), that what was promised is durable, and that the file     *)
(*    implements the durable log (without short writes);                     *)
(*  - of its projection, when a load throws and what a snapshot holds;        *)
(*  - of the WorkSource's file, that a call leaves the other tasks alone.     *)
(***************************************************************************)
EXTENDS ExecutionStore, SequenceTheorems, FiniteSetTheorems, WellFoundedInduction, TLAPS

-----------------------------------------------------------------------------
\* The file that holds the log.

\* A crash tears at most the last piece, and no line is ever written behind
\* a torn piece.
OnlyTailTorn(f) == \A i \in 1..(Len(f) - 1) : f[i].kind = "line"

ShapeInv ==
  /\ OnlyTailTorn(file)
  /\ OnlyTailTorn(disk)
  /\ pc = "write" => EndsWithNewline(file)
  /\ pc # "idle" => inflight \in Event

-----------------------------------------------------------------------------
\* Of some numbers one is the least.
LEMMA LeastOfAll ==
  ASSUME NEW S, S \subseteq Nat, S # {}
  PROVE  \E i \in S : \A j \in S : i <= j
<1>1. PICK i \in S : \A j \in S : <<j, i>> \notin OpToRel(<, Nat)
  BY WFMin, NatLessThanWellFounded, Zenon
<1>2. \A j \in S : ~ (j < i)
  BY <1>1 DEF OpToRel
<1> QED
  BY <1>2

\* Whatever pieces a file holds, there is a last newline, or none at all.
LEMMA LastLineExists ==
  ASSUME NEW f \in Seq(Piece)
  PROVE  LastCompleteLine(f) \in 0..Len(f)
<1> DEFINE P(n) == /\ n > 0 => f[n].kind = "line"
                   /\ \A m \in (n + 1)..Len(f) : f[m].kind = "torn"
           S == {n \in 0..Len(f) : \A m \in (n + 1)..Len(f) : f[m].kind = "torn"}
<1>1. Len(f) \in Nat
  BY LenProperties
<1>2. \A i \in 1..Len(f) : f[i].kind \in {"line", "torn"}
  <2>1. \A i \in 1..Len(f) : f[i] \in Piece
    BY <1>1, ElementOfSeq
  <2> QED
    BY <2>1 DEF Piece
<1>3. Len(f) \in S /\ S \subseteq Nat
  BY <1>1
<1>4. PICK n \in S : \A j \in S : n <= j
  BY <1>3, LeastOfAll, Zenon
<1>5. n \in 0..Len(f) /\ n \in Nat /\ \A m \in (n + 1)..Len(f) : f[m].kind = "torn"
  BY <1>3, <1>4
<1>6. ASSUME n > 0, f[n].kind = "torn" PROVE FALSE
  <2>1. \A m \in ((n - 1) + 1)..Len(f) : m = n \/ m \in (n + 1)..Len(f)
    BY <1>1, <1>5
  <2>2. n - 1 \in S
    BY <1>1, <1>5, <1>6, <2>1
  <2>3. n <= n - 1
    BY <1>4, <2>2, Zenon
  <2> QED
    BY <1>5, <2>3
<1>7. P(n)
  BY <1>1, <1>2, <1>5, <1>6
<1>8. LastCompleteLine(f) = CHOOSE i \in 0..Len(f) : P(i)
  BY DEF LastCompleteLine
<1> HIDE DEF P, S
<1> QED
  BY <1>5, <1>7, <1>8

\* A load returns operations of the log.
LEMMA DecodeType ==
  ASSUME NEW f \in Seq(Piece)
  PROVE  Decode(f) \in Seq(Event)
<1>1. LastCompleteLine(f) \in 0..Len(f) /\ Len(f) \in Nat
  BY LastLineExists, LenProperties
<1>2. \A i \in 1..LastCompleteLine(f) : f[i].event \in Event
  <2>1. \A i \in 1..LastCompleteLine(f) : f[i] \in Piece
    BY <1>1, ElementOfSeq
  <2> QED
    BY <2>1 DEF Piece
<1>3. Decode(f) \in [1..LastCompleteLine(f) -> Event]
  BY <1>2 DEF Decode
<1> QED
  BY <1>1, <1>3, SeqDef

\* The beginning of a file is a file, and so is one with a torn piece more.
LEMMA BeginningType ==
  ASSUME NEW f \in Seq(Piece), NEW k \in 0..Len(f)
  PROVE  /\ SubSeq(f, 1, k) \in Seq(Piece)
         /\ \A e \in Event : Append(SubSeq(f, 1, k), Torn(e)) \in Seq(Piece)
         /\ \A i \in 1..Len(f) : f[i].event \in Event
<1>1. Len(f) \in Nat /\ k \in Nat /\ \A i \in 1..k : i \in 1..Len(f)
  BY LenProperties
<1>2. \A i \in 1..Len(f) : f[i] \in Piece
  BY <1>1, ElementOfSeq
<1>3. \A i \in 1..k : f[i] \in Piece
  BY <1>1, <1>2
<1>4. SubSeq(f, 1, k) \in Seq(Piece)
  BY <1>1, <1>3, SubSeqProperties
<1>5. \A e \in Event : Torn(e) \in Piece
  BY DEF Torn, Piece
<1>6. \A i \in 1..Len(f) : f[i].event \in Event
  BY <1>2 DEF Piece
<1> HIDE DEF Piece
<1> QED
  BY <1>4, <1>5, <1>6, AppendProperties

\* Whatever the truncation leaves is a file.
LEMMA TruncatedType ==
  ASSUME NEW f \in Seq(Piece), f # <<>>, NEW g \in Truncated(f)
  PROVE  g \in Seq(Piece)
<1> DEFINE n == LastCompleteLine(f)
<1>1. n \in 0..Len(f) /\ Len(f) \in Nat \ {0}
  BY LastLineExists, LenProperties, EmptySeq
<1> HIDE DEF n
<1>2. CASE g = CompleteLines(f)
  BY <1>1, <1>2, BeginningType DEF CompleteLines, n
<1>3. ASSUME NEW k \in 1..(n - 1), g = SubSeq(f, 1, k) PROVE g \in Seq(Piece)
  <2>1. k \in 0..Len(f)
    BY <1>1
  <2> QED
    BY <1>3, <2>1, BeginningType
<1>4. ASSUME NEW k \in 0..(n - 1), g = Append(SubSeq(f, 1, k), Torn(f[k + 1].event))
      PROVE  g \in Seq(Piece)
  <2>1. k \in 0..Len(f) /\ k + 1 \in 1..Len(f)
    BY <1>1
  <2>2. f[k + 1].event \in Event
    BY <2>1, BeginningType
  <2> QED
    BY <1>4, <2>1, <2>2, BeginningType
<1>5. g = CompleteLines(f) \/ g \in CutInto(f)
  BY DEF Truncated
<1> QED
  BY <1>2, <1>3, <1>4, <1>5 DEF CutInto, n

\* What a power loss leaves is a file.
LEMMA AfterPowerLossType ==
  ASSUME TypeOK, NEW f \in AfterPowerLoss
  PROVE  f \in Seq(Piece)
<1>1. CASE f \in {disk, file}
  BY <1>1 DEF TypeOK
<1>2. CASE /\ file # <<>>
           /\ f = Append(SubSeq(file, 1, Len(file) - 1), Torn(file[Len(file)].event))
  <2>1. file \in Seq(Piece) /\ Len(file) \in Nat \ {0}
    BY <1>2, LenProperties, EmptySeq DEF TypeOK
  <2>2. Len(file) - 1 \in 0..Len(file) /\ Len(file) \in 1..Len(file)
    BY <2>1
  <2>3. file[Len(file)].event \in Event
    BY <2>1, <2>2, BeginningType
  <2> QED
    BY <1>2, <2>1, <2>2, <2>3, BeginningType
<1> QED
  BY <1>1, <1>2 DEF AfterPowerLoss

\* The types are inductive by themselves, whatever a repair cuts.
LEMMA TypeInductive == TypeOK /\ [Next]_vars => TypeOK'
<1> SUFFICES ASSUME TypeOK, [Next]_vars PROVE TypeOK'
  OBVIOUS
<1> USE DEF TypeOK
<1>1. NoEvent \notin Event
  BY TaskLogAssumption
<1>2. ASSUME NEW e \in Event, Begin(e) PROVE TypeOK'
  BY <1>1, <1>2, DecodeType DEF Begin
<1>3. CASE RepairPartialTail
  <2>1. file' \in Seq(Piece)
    BY <1>3, TruncatedType DEF RepairPartialTail, EndsWithNewline
  <2> QED
    BY <1>3, <2>1 DEF RepairPartialTail
<1>4. CASE WriteLine
  <2>1. inflight \in Event
    BY <1>4 DEF WriteLine
  <2>2. Line(inflight) \in Piece /\ Torn(inflight) \in Piece
    BY <2>1 DEF Line, Torn, Piece
  <2>3. /\ Append(file, Line(inflight)) \in Seq(Piece)
        /\ Append(file, Torn(inflight)) \in Seq(Piece)
    BY <2>2, AppendProperties
  <2> QED
    BY <1>4, <2>3 DEF WriteLine
<1>5. CASE Sync
  BY <1>5 DEF Sync
<1>6. CASE Return
  <2>1. Append(seen, inflight) \in Seq(Event)
    BY <1>6, AppendProperties DEF Return
  <2> QED
    BY <1>6, <2>1 DEF Return
<1>7. CASE Interrupted
  <2>1. inflight \in Event
    BY <1>7 DEF Interrupted
  <2>2. Torn(inflight) \in Piece
    BY <2>1 DEF Torn, Piece
  <2>3. Append(file, Torn(inflight)) \in Seq(Piece)
    BY <2>2, AppendProperties
  <2> QED
    BY <1>7, <2>3 DEF Interrupted
<1>8. CASE PowerLoss
  BY <1>8, AfterPowerLossType DEF PowerLoss
<1>9. CASE UNCHANGED vars
  BY <1>9 DEF vars
<1> QED
  BY <1>2, <1>3, <1>4, <1>5, <1>6, <1>7, <1>8, <1>9 DEF Next

-----------------------------------------------------------------------------
\* lastCompleteLineOffset on a file whose tail alone may be torn.
LEMMA LastCompleteLineValue ==
  ASSUME NEW f \in Seq(Piece), OnlyTailTorn(f)
  PROVE  LastCompleteLine(f) = IF EndsWithNewline(f) THEN Len(f) ELSE Len(f) - 1
<1> DEFINE P(n) == /\ n > 0 => f[n].kind = "line"
                   /\ \A m \in (n + 1)..Len(f) : f[m].kind = "torn"
           k == IF EndsWithNewline(f) THEN Len(f) ELSE Len(f) - 1
<1>1. Len(f) \in Nat /\ (f # <<>> => Len(f) > 0) /\ (f = <<>> => Len(f) = 0)
  BY EmptySeq
<1>2. \A i \in 1..Len(f) : f[i] \in Piece
  OBVIOUS
<1>3. k \in 0..Len(f) /\ P(k)
  BY <1>1, <1>2 DEF OnlyTailTorn, EndsWithNewline, Piece
<1>4. ASSUME NEW n \in 0..Len(f), P(n) PROVE n = k
  BY <1>1, <1>2, <1>4 DEF OnlyTailTorn, EndsWithNewline, Piece
<1>5. LastCompleteLine(f) = CHOOSE n \in 0..Len(f) : P(n)
  BY DEF LastCompleteLine
<1> HIDE DEF P, k
<1>6. LastCompleteLine(f) = k
  BY <1>3, <1>4, <1>5
<1> QED
  BY <1>6 DEF k

\* The lines a load decodes: as many as there are complete lines, in order.
LEMMA DecodeProperties ==
  ASSUME NEW f \in Seq(Piece), OnlyTailTorn(f)
  PROVE  /\ LastCompleteLine(f) \in 0..Len(f)
         /\ Decode(f) \in Seq(Event)
         /\ Len(Decode(f)) = LastCompleteLine(f)
         /\ \A i \in 1..LastCompleteLine(f) : Decode(f)[i] = f[i].event
<1>1. LastCompleteLine(f) \in 0..Len(f)
  BY LastCompleteLineValue, EmptySeq DEF EndsWithNewline
<1>2. \A p \in Piece : p.event \in Event
  BY DEF Piece
<1>3. \A i \in 1..LastCompleteLine(f) : f[i].event \in Event
  BY <1>1, <1>2, ElementOfSeq
<1>4. DOMAIN Decode(f) = 1..LastCompleteLine(f)
  BY DEF Decode
<1>5. Decode(f) \in [1..LastCompleteLine(f) -> Event]
  BY <1>3 DEF Decode
<1>6. Decode(f) \in Seq(Event)
  BY <1>1, <1>5, SeqDef
<1>7. Len(Decode(f)) = LastCompleteLine(f)
  BY <1>1, <1>4, <1>6, LenProperties
<1> QED
  BY <1>1, <1>6, <1>7 DEF Decode

\* Appending a torn piece to a file that ends with a newline decodes as before;
\* appending a line adds its operation.
LEMMA DecodeAppend ==
  ASSUME NEW f \in Seq(Piece), OnlyTailTorn(f), EndsWithNewline(f), NEW e \in Event
  PROVE  /\ Append(f, Torn(e)) \in Seq(Piece)
         /\ Append(f, Line(e)) \in Seq(Piece)
         /\ OnlyTailTorn(Append(f, Torn(e)))
         /\ OnlyTailTorn(Append(f, Line(e)))
         /\ EndsWithNewline(Append(f, Line(e)))
         /\ Decode(Append(f, Torn(e))) = Decode(f)
         /\ Decode(Append(f, Line(e))) = Append(Decode(f), e)
<1> DEFINE t == Append(f, Torn(e))
           l == Append(f, Line(e))
<1>1. Torn(e) \in Piece /\ Line(e) \in Piece
  BY DEF Torn, Line, Piece
<1>2. /\ t \in Seq(Piece) /\ Len(t) = Len(f) + 1 /\ t # <<>>
      /\ l \in Seq(Piece) /\ Len(l) = Len(f) + 1 /\ l # <<>>
      /\ \A i \in 1..Len(f) : t[i] = f[i] /\ l[i] = f[i]
      /\ t[Len(f) + 1] = Torn(e) /\ l[Len(f) + 1] = Line(e)
      /\ Len(f) \in Nat
  BY <1>1, AppendProperties
<1> HIDE DEF t, l
<1>3. \A i \in 1..Len(f) : f[i].kind = "line"
  BY <1>2, EmptySeq DEF OnlyTailTorn, EndsWithNewline
<1>4. /\ OnlyTailTorn(t) /\ OnlyTailTorn(l)
      /\ EndsWithNewline(l) /\ ~ EndsWithNewline(t)
  BY <1>2, <1>3 DEF OnlyTailTorn, EndsWithNewline, Torn, Line
<1>5. /\ LastCompleteLine(f) = Len(f)
      /\ LastCompleteLine(t) = Len(f)
      /\ LastCompleteLine(l) = Len(f) + 1
  BY <1>2, <1>4, LastCompleteLineValue
<1>6. Decode(t) = Decode(f)
  BY <1>2, <1>5 DEF Decode
<1>7. Decode(l) = Append(Decode(f), e)
  <2>1. /\ Decode(f) \in Seq(Event) /\ Len(Decode(f)) = Len(f)
        /\ \A i \in 1..Len(f) : Decode(f)[i] = f[i].event
    BY <1>5, DecodeProperties
  <2>2. /\ Decode(l) \in Seq(Event) /\ Len(Decode(l)) = Len(f) + 1
        /\ \A i \in 1..(Len(f) + 1) : Decode(l)[i] = l[i].event
    BY <1>2, <1>4, <1>5, DecodeProperties
  <2>3. /\ Append(Decode(f), e) \in Seq(Event)
        /\ Len(Append(Decode(f), e)) = Len(f) + 1
        /\ \A i \in 1..Len(f) : Append(Decode(f), e)[i] = f[i].event
        /\ Append(Decode(f), e)[Len(f) + 1] = e
    BY <2>1, AppendProperties
  <2>4. \A i \in 1..Len(Decode(l)) : Decode(l)[i] = Append(Decode(f), e)[i]
    BY <1>2, <2>2, <2>3 DEF Line
  <2> QED
    BY <2>2, <2>3, <2>4, SeqEqual
<1> QED
  BY <1>2, <1>4, <1>6, <1>7 DEF t, l

\* repairPartialTail drops the torn tail and nothing else.
LEMMA CompleteLinesProperties ==
  ASSUME NEW f \in Seq(Piece), OnlyTailTorn(f)
  PROVE  /\ CompleteLines(f) \in Seq(Piece)
         /\ OnlyTailTorn(CompleteLines(f))
         /\ EndsWithNewline(CompleteLines(f))
         /\ Decode(CompleteLines(f)) = Decode(f)
<1> DEFINE n == LastCompleteLine(f)
           c == CompleteLines(f)
<1>1. n \in 0..Len(f) /\ Len(f) \in Nat
  BY DecodeProperties, LenProperties
<1>2. \A i \in 1..n : f[i] \in Piece /\ f[i].kind = "line"
  BY <1>1, LastCompleteLineValue, ElementOfSeq DEF OnlyTailTorn, EndsWithNewline
<1>3. /\ c \in Seq(Piece) /\ Len(c) = n
      /\ \A i \in 1..n : c[i] = f[i]
  BY <1>1, <1>2, SubSeqProperties DEF CompleteLines
<1> HIDE DEF n, c
<1>4. OnlyTailTorn(c) /\ EndsWithNewline(c)
  BY <1>1, <1>2, <1>3, EmptySeq DEF OnlyTailTorn, EndsWithNewline
<1>5. LastCompleteLine(c) = n
  BY <1>3, <1>4, LastCompleteLineValue
<1>6. Decode(c) = Decode(f)
  BY <1>3, <1>5 DEF Decode, n
<1> QED
  BY <1>3, <1>4, <1>6 DEF c

-----------------------------------------------------------------------------
\* IsPrefix by elements, its reflexivity and transitivity.
LEMMA PrefixElements ==
  ASSUME NEW S, NEW s \in Seq(S), NEW t \in Seq(S)
  PROVE  IsPrefix(s, t) <=> /\ Len(s) <= Len(t)
                            /\ \A i \in 1..Len(s) : s[i] = t[i]
<1>1. Len(s) \in Nat /\ Len(t) \in Nat
  BY LenProperties
<1>2. /\ SubSeq(s, 1, Len(s)) = s
  BY SubSeqFull
<1>3. ASSUME Len(s) <= Len(t)
      PROVE  /\ SubSeq(t, 1, Len(s)) \in Seq(S)
             /\ Len(SubSeq(t, 1, Len(s))) = Len(s)
             /\ \A i \in 1..Len(s) : SubSeq(t, 1, Len(s))[i] = t[i]
  <2>1. \A i \in 1..Len(s) : t[i] \in S
    BY <1>1, <1>3, ElementOfSeq
  <2>2. /\ SubSeq(t, 1, Len(s)) \in Seq(S)
        /\ Len(SubSeq(t, 1, Len(s))) = IF 1 <= Len(s) THEN Len(s) - 1 + 1 ELSE 0
        /\ \A i \in 1..(Len(s) - 1 + 1) : SubSeq(t, 1, Len(s))[i] = t[1 + i - 1]
    BY <1>1, <2>1, SubSeqProperties
  <2> QED
    BY <1>1, <2>2
<1>4. ASSUME Len(s) <= Len(t), \A i \in 1..Len(s) : s[i] = t[i]
      PROVE  s = SubSeq(t, 1, Len(s))
  BY <1>1, <1>3, <1>4, SeqEqual
<1> QED
  BY <1>1, <1>2, <1>3, <1>4 DEF IsPrefix

\* A log is a prefix of itself.
LEMMA PrefixReflexive ==
  ASSUME NEW S, NEW s \in Seq(S)
  PROVE  IsPrefix(s, s)
BY PrefixElements, LenProperties

\* What is promised stays promised along a chain of prefixes.
LEMMA PrefixTransitive ==
  ASSUME NEW S, NEW s \in Seq(S), NEW t \in Seq(S), NEW u \in Seq(S),
         IsPrefix(s, t), IsPrefix(t, u)
  PROVE  IsPrefix(s, u)
<1>1. Len(s) \in Nat /\ Len(t) \in Nat /\ Len(u) \in Nat
  BY LenProperties
<1> QED
  BY <1>1, PrefixElements

\* Appending an operation keeps the log as a prefix.
LEMMA PrefixAppend ==
  ASSUME NEW S, NEW s \in Seq(S), NEW e \in S
  PROVE  IsPrefix(s, Append(s, e))
<1>1. Len(s) \in Nat
  BY LenProperties
<1>2. /\ Append(s, e) \in Seq(S)
      /\ Len(Append(s, e)) = Len(s) + 1
      /\ \A i \in 1..Len(s) : Append(s, e)[i] = s[i]
  BY AppendProperties
<1> DEFINE t == Append(s, e)
<1>3. IsPrefix(s, t) <=> /\ Len(s) <= Len(t)
                         /\ \A i \in 1..Len(s) : s[i] = t[i]
  BY <1>2, PrefixElements
<1> HIDE DEF t
<1>4. Len(s) <= Len(t) /\ \A i \in 1..Len(s) : s[i] = t[i]
  BY <1>1, <1>2 DEF t
<1> QED
  BY <1>3, <1>4 DEF t

-----------------------------------------------------------------------------
\* Arithmetic of the length of a front.
LEMMA FrontLength ==
  ASSUME NEW n \in Nat, n # 0, NEW m,
         m = IF 1 <= n - 1 THEN n - 1 - 1 + 1 ELSE 0
  PROVE  m = n - 1
<1>1. CASE n = 1
  BY <1>1
<1>2. CASE n > 1
  BY <1>2
<1> QED
  BY <1>1, <1>2

\* All elements but the last.
LEMMA FrontProperties ==
  ASSUME NEW S, NEW s \in Seq(S), s # <<>>
  PROVE  /\ SubSeq(s, 1, Len(s) - 1) \in Seq(S)
         /\ Len(SubSeq(s, 1, Len(s) - 1)) = Len(s) - 1
         /\ \A i \in 1..(Len(s) - 1) : SubSeq(s, 1, Len(s) - 1)[i] = s[i]
<1> DEFINE g == SubSeq(s, 1, Len(s) - 1)
           n == Len(s)
<1>1. n \in Nat /\ n # 0
  BY EmptySeq, LenProperties
<1>2. \A i \in 1..n : s[i] \in S
  BY ElementOfSeq
<1>3. \A i \in 1..(n - 1) : s[i] \in S
  BY <1>1, <1>2
<1>4. /\ g \in Seq(S)
      /\ Len(g) = IF 1 <= n - 1 THEN n - 1 - 1 + 1 ELSE 0
      /\ \A i \in 1..(n - 1 - 1 + 1) : g[i] = s[1 + i - 1]
  BY <1>1, <1>3, SubSeqProperties
<1>5. \A i \in 1..(n - 1) : i \in 1..(n - 1 - 1 + 1) /\ 1 + i - 1 = i
  BY <1>1
<1> HIDE DEF g, n
<1>6. Len(g) = n - 1
  BY <1>1, <1>4, FrontLength
<1>7. \A i \in 1..(n - 1) : g[i] = s[i]
  BY <1>4, <1>5
<1> QED
  BY <1>4, <1>6, <1>7 DEF g, n

\* What a power loss leaves is a file whose tail alone may be torn; it decodes
\* to what the medium held, or to the cached log, or to that without its last
\* operation when that one had not reached the medium.
LEMMA AfterPowerLossProperties ==
  ASSUME TypeOK, ShapeInv, NEW f \in AfterPowerLoss
  PROVE  /\ f \in Seq(Piece)
         /\ OnlyTailTorn(f)
         /\ \/ f = disk
            \/ f = file
            \/ /\ Len(disk) < Len(file)
               /\ Decode(f) \in Seq(Event)
               /\ Len(Decode(f)) = Len(file) - 1
               /\ Len(Decode(file)) >= Len(file) - 1
               /\ \A i \in 1..(Len(file) - 1) : Decode(f)[i] = Decode(file)[i]
<1> USE DEF TypeOK, ShapeInv
<1>1. CASE f = disk \/ f = file
  BY <1>1
<1>2. CASE /\ file # <<>> /\ Len(file) > Len(disk)
           /\ f = Append(SubSeq(file, 1, Len(file) - 1), Torn(file[Len(file)].event))
  <2> DEFINE g == SubSeq(file, 1, Len(file) - 1)
  <2>1. Len(file) \in Nat \ {0} /\ Len(disk) \in Nat
    BY <1>2, EmptySeq, LenProperties
  <2>2. \A i \in 1..Len(file) : file[i] \in Piece
    BY ElementOfSeq
  <2>3. file[Len(file)].event \in Event
    BY <2>1, <2>2 DEF Piece
  <2>4. /\ g \in Seq(Piece) /\ Len(g) = Len(file) - 1
        /\ \A i \in 1..(Len(file) - 1) : g[i] = file[i]
    BY <1>2, FrontProperties
  <2>5. OnlyTailTorn(g) /\ EndsWithNewline(g)
    BY <2>1, <2>4, EmptySeq DEF OnlyTailTorn, EndsWithNewline
  <2>6. f \in Seq(Piece) /\ OnlyTailTorn(f) /\ Decode(f) = Decode(g)
    BY <1>2, <2>3, <2>4, <2>5, DecodeAppend
  <2> HIDE DEF g
  <2>7. LastCompleteLine(g) = Len(file) - 1
    BY <2>4, <2>5, LastCompleteLineValue
  <2>8. /\ Decode(g) \in Seq(Event) /\ Len(Decode(g)) = Len(file) - 1
        /\ \A i \in 1..(Len(file) - 1) : Decode(g)[i] = file[i].event
    BY <2>4, <2>5, <2>7, DecodeProperties
  <2>9. /\ Len(Decode(file)) >= Len(file) - 1
        /\ \A i \in 1..(Len(file) - 1) : Decode(file)[i] = file[i].event
    <3>1. /\ Len(Decode(file)) = LastCompleteLine(file)
          /\ \A i \in 1..LastCompleteLine(file) : Decode(file)[i] = file[i].event
      BY DecodeProperties
    <3>2. LastCompleteLine(file) = Len(file) \/ LastCompleteLine(file) = Len(file) - 1
      BY LastCompleteLineValue
    <3> HIDE DEF TypeOK, ShapeInv
    <3> QED
      BY <2>1, <3>1, <3>2
  <2> QED
    BY <1>2, <2>1, <2>6, <2>8, <2>9
<1> QED
  BY <1>1, <1>2 DEF AfterPowerLoss

\* A torn tail with no wide line before it is all that a repair takes away.
LEMMA RepairKeepsLines ==
  ASSUME RepairPartialTail, ~clipped'
  PROVE  file' = CompleteLines(file) \/ (file' = file /\ EndsWithNewline(file))
<1>1. CASE EndsWithNewline(file)
  BY <1>1 DEF RepairPartialTail
<1>2. CASE ~EndsWithNewline(file)
  <2>1. file' \in Truncated(file)
    BY <1>2 DEF RepairPartialTail
  <2>2. \A i \in 1..LastCompleteLine(file) : file[i].event \notin Wide
    BY <1>2 DEF RepairPartialTail, Miscounted
  <2>3. ~ \E p \in {file[i] : i \in 1..LastCompleteLine(file)} : p.event \in Wide
    BY <2>2
  <2> QED
    BY <2>1, <2>3, Zenon DEF Truncated
<1> QED
  BY <1>1, <1>2

\* A repair that counts wrong is the last step that the rest speaks of.
LEMMA ClippedStays == TypeOK /\ [Next]_vars /\ ~clipped' => ~clipped
BY DEF TypeOK, Next, vars, Begin, RepairPartialTail, WriteLine, Sync, Return, Interrupted, PowerLoss

\* Until then the file keeps its shape whatever crashes: the inductive
\* invariant behind the results below. It does not need writes to be complete.
LEMMA ShapeInductive ==
  ASSUME TypeOK, ShapeInv, [Next]_vars, ~clipped'
  PROVE  ShapeInv'
<1> USE DEF TypeOK, ShapeInv
<1>1. ASSUME NEW e \in Event, Begin(e) PROVE ShapeInv'
  BY <1>1, TaskLogAssumption DEF Begin
<1>2. CASE RepairPartialTail
  BY <1>2, RepairKeepsLines, CompleteLinesProperties DEF RepairPartialTail
<1>3. CASE WriteLine
  BY <1>3, DecodeAppend DEF WriteLine
<1>4. CASE Sync
  BY <1>4 DEF Sync
<1>5. CASE Return
  BY <1>5 DEF Return
<1>6. CASE Interrupted
  BY <1>6, DecodeAppend DEF Interrupted
<1>7. CASE PowerLoss
  BY <1>7, AfterPowerLossProperties DEF PowerLoss
<1>8. CASE UNCHANGED vars
  BY <1>8 DEF vars
<1> QED
  BY <1>1, <1>2, <1>3, <1>4, <1>5, <1>6, <1>7, <1>8 DEF Next

\* The empty file.
LEMMA InitShape == Init => TypeOK /\ ShapeInv /\ ~clipped
<1> SUFFICES ASSUME Init PROVE TypeOK /\ ShapeInv /\ ~clipped
  OBVIOUS
<1>1. <<>> \in Seq(Piece) /\ <<>> \in Seq(Event) /\ Len(<<>>) = 0
  BY EmptySeq
<1>2. TypeOK
  BY <1>1 DEF Init, TypeOK
<1>3. ShapeInv
  BY <1>1 DEF Init, ShapeInv, OnlyTailTorn, EndsWithNewline
<1> QED
  BY <1>2, <1>3 DEF Init

\* The variables of the store keep their types, for any number of operations
\* and whatever a repair cuts away.
THEOREM TypeCorrect == Spec => []TypeOK
BY InitShape, TypeInductive, PTL DEF Spec

Shaped == TypeOK /\ (~clipped => ShapeInv)

\* Until a repair cuts into complete lines, only the last piece of the file,
\* and of the medium, is ever torn.
LEMMA ShapeInvariant == Spec => []Shaped
<1>1. Init => Shaped
  BY InitShape DEF Shaped
<1>2. Shaped /\ [Next]_vars => Shaped'
  BY TypeInductive, ClippedStays, ShapeInductive DEF Shaped
<1> QED
  BY <1>1, <1>2, PTL DEF Spec

\* No load fails on a line that a torn write ran into, whatever sequence of
\* crashes, failed or short writes and power losses came before it, until a
\* repair cuts into complete lines.
THEOREM LoadsNeverFail == Spec => []LoadNeverFails
<1>1. TypeOK /\ ShapeInv => Decodable(file)
  <2> SUFFICES ASSUME TypeOK, ShapeInv PROVE Decodable(file)
    OBVIOUS
  <2>1. Len(file) \in Nat /\ LastCompleteLine(file) \in 0..Len(file)
    BY DecodeProperties, LenProperties DEF TypeOK, ShapeInv
  <2> QED
    BY <2>1, LastCompleteLineValue
       DEF TypeOK, ShapeInv, Decodable, OnlyTailTorn, EndsWithNewline
<1>2. Shaped => LoadNeverFails
  BY <1>1 DEF Shaped, LoadNeverFails
<1> QED
  BY <1>2, ShapeInvariant, PTL

-----------------------------------------------------------------------------
\* Where the running append is decides what the file decodes to; the medium
\* never holds more than the file; what was promised is in both.
PromiseInv ==
  /\ pc = "idle" => inflight = NoEvent
  /\ pc \in {"repair", "write"} => Decode(file) = seen
  /\ pc \in {"sync", "close"} => Decode(file) = Append(seen, inflight)
  /\ pc = "close" => disk = file
  /\ IsPrefix(Decode(disk), Decode(file))
  /\ IsPrefix(promised, Decode(disk))

Promised == TypeOK /\ ShapeInv /\ PromiseInv

IInv == TypeOK /\ (~clipped => ShapeInv /\ PromiseInv)

\* The decoded logs are sequences of operations.
LEMMA DecodedTypes ==
  ASSUME TypeOK, ShapeInv
  PROVE  /\ Decode(file) \in Seq(Event) /\ Decode(disk) \in Seq(Event)
         /\ Len(Decode(file)) \in Nat /\ Len(Decode(disk)) \in 0..Len(disk)
         /\ Len(disk) \in Nat /\ Len(file) \in Nat
BY DecodeProperties, LenProperties DEF TypeOK, ShapeInv

\* What is promised is in the file too.
LEMMA PromisedInFile ==
  ASSUME TypeOK, ShapeInv, PromiseInv
  PROVE  IsPrefix(promised, Decode(file))
<1>1. promised \in Seq(Event)
  BY DEF TypeOK
<1> QED
  BY <1>1, DecodedTypes, PrefixTransitive DEF PromiseInv

\* After a power loss the log is a prefix of the one before, and what was
\* promised is in it.
LEMMA AfterPowerLossKeepsPromise ==
  ASSUME TypeOK, ShapeInv, PromiseInv, NEW f \in AfterPowerLoss
  PROVE  /\ Decode(f) \in Seq(Event)
         /\ IsPrefix(promised, Decode(f))
         /\ IsPrefix(Decode(f), Decode(file))
<1> DEFINE d == Decode(f)
           l == Decode(file)
           m == Decode(disk)
<1>1. /\ l \in Seq(Event) /\ m \in Seq(Event) /\ promised \in Seq(Event)
      /\ Len(m) \in 0..Len(disk) /\ Len(disk) \in Nat /\ Len(file) \in Nat
      /\ Len(promised) \in Nat /\ Len(l) \in Nat
  BY DecodedTypes, LenProperties DEF TypeOK
<1>2. IsPrefix(promised, m) /\ IsPrefix(m, l) /\ IsPrefix(promised, l)
  BY PromisedInFile DEF PromiseInv
<1>3. CASE f = disk
  BY <1>1, <1>2, <1>3
<1>4. CASE f = file
  BY <1>1, <1>2, <1>4, PrefixReflexive
<1>5. CASE /\ Len(disk) < Len(file)
           /\ d \in Seq(Event)
           /\ Len(d) = Len(file) - 1
           /\ Len(l) >= Len(file) - 1
           /\ \A i \in 1..(Len(file) - 1) : d[i] = l[i]
  <2> HIDE DEF d, l, m
  <2>1. Len(promised) <= Len(m) /\ \A i \in 1..Len(promised) : promised[i] = l[i]
    BY <1>1, <1>2, PrefixElements
  <2>2. IsPrefix(promised, d)
    BY <1>1, <1>5, <2>1, PrefixElements
  <2>3. IsPrefix(d, l)
    BY <1>1, <1>5, PrefixElements
  <2> QED
    BY <1>5, <2>2, <2>3 DEF d, l
<1> QED
  BY <1>3, <1>4, <1>5, AfterPowerLossProperties

\* PromiseInv is kept when write accepts the whole line and the repair does
\* not cut into complete ones.
LEMMA PromiseInductive ==
  ASSUME ~ ShortWrites, Promised, [Next]_vars, ~clipped'
  PROVE  PromiseInv'
<1> USE DEF Promised
<1>1. /\ file \in Seq(Piece) /\ disk \in Seq(Piece)
      /\ OnlyTailTorn(file) /\ OnlyTailTorn(disk)
      /\ seen \in Seq(Event) /\ promised \in Seq(Event)
      /\ pc # "idle" => inflight \in Event
      /\ pc = "write" => EndsWithNewline(file)
  BY DEF TypeOK, ShapeInv
<1>2. Decode(file) \in Seq(Event) /\ Decode(disk) \in Seq(Event)
  BY DecodedTypes
<1>3. ASSUME NEW e \in Event, Begin(e) PROVE PromiseInv'
  BY <1>3 DEF Begin, PromiseInv
<1>4. CASE RepairPartialTail
  BY <1>1, <1>4, RepairKeepsLines, CompleteLinesProperties DEF RepairPartialTail, PromiseInv
<1>5. CASE WriteLine
  <2>1. file' = Append(file, Line(inflight)) /\ Decode(file') = Append(Decode(file), inflight)
    BY <1>1, <1>5, DecodeAppend DEF WriteLine
  <2>2. IsPrefix(Decode(disk), Append(Decode(file), inflight))
    <3>1. /\ IsPrefix(Decode(disk), Decode(file)) /\ inflight \in Event
      BY <1>1, <1>5 DEF PromiseInv, WriteLine
    <3>2. /\ IsPrefix(Decode(file), Append(Decode(file), inflight))
          /\ Append(Decode(file), inflight) \in Seq(Event)
      BY <1>2, <3>1, PrefixAppend, AppendProperties
    <3> QED
      BY <1>2, <3>1, <3>2, PrefixTransitive
  <2> QED
    BY <1>5, <2>1, <2>2 DEF WriteLine, PromiseInv
<1>6. CASE Sync
  <2>1. IsPrefix(Decode(file), Decode(file)) /\ IsPrefix(promised, Decode(file))
    BY <1>2, PrefixReflexive, PromisedInFile
  <2> QED
    BY <1>6, <2>1 DEF Sync, PromiseInv
<1>7. CASE Return
  <2>1. Append(seen, inflight) \in Seq(Event)
    BY <1>1, <1>7, AppendProperties DEF Return
  <2>2. IsPrefix(Append(seen, inflight), Append(seen, inflight))
    BY <2>1, PrefixReflexive
  <2> QED
    BY <1>7, <2>2 DEF Return, PromiseInv
<1>8. CASE Interrupted
  <2>1. Decode(file') = Decode(file)
    BY <1>1, <1>8, DecodeAppend DEF Interrupted
  <2> QED
    BY <1>8, <2>1 DEF Interrupted, PromiseInv
<1>9. CASE PowerLoss
  <2>1. PICK f \in AfterPowerLoss : file' = f /\ disk' = f
    BY <1>9 DEF PowerLoss
  <2>2. Decode(f) \in Seq(Event) /\ IsPrefix(promised, Decode(f))
    BY AfterPowerLossKeepsPromise
  <2>3. IsPrefix(Decode(f), Decode(f))
    BY <2>2, PrefixReflexive
  <2> QED
    BY <1>9, <2>1, <2>2, <2>3 DEF PowerLoss, PromiseInv
<1>10. CASE UNCHANGED vars
  BY <1>10 DEF vars, PromiseInv
<1> QED
  BY <1>3, <1>4, <1>5, <1>6, <1>7, <1>8, <1>9, <1>10 DEF Next

\* The initial state satisfies the invariant.
LEMMA InitInvariant == Init => Promised /\ IInv
<1> SUFFICES ASSUME Init PROVE Promised /\ IInv
  OBVIOUS
<1>1. TypeOK /\ ShapeInv
  BY InitShape
<1>2. /\ file = <<>> /\ disk = <<>> /\ promised = <<>>
      /\ Len(file) = 0
  BY EmptySeq DEF Init
<1>3. LastCompleteLine(file) = 0
  BY <1>1, <1>2, LastCompleteLineValue DEF TypeOK, ShapeInv, EndsWithNewline
<1>4. Decode(file) \in Seq(Event) /\ Len(Decode(file)) = 0
  BY <1>1, <1>3, DecodeProperties DEF TypeOK, ShapeInv
<1>5. Decode(file) = <<>>
  BY <1>4, EmptySeq
<1>6. IsPrefix(Decode(file), Decode(file))
  BY <1>4, PrefixReflexive
<1>7. PromiseInv
  BY <1>2, <1>5, <1>6 DEF Init, PromiseInv
<1> QED
  BY <1>1, <1>7 DEF IInv, Promised

\* The invariant is inductive when write accepts the whole line.
LEMMA InvariantInductive ==
  ASSUME ~ ShortWrites
  PROVE  IInv /\ [Next]_vars => IInv'
<1> SUFFICES ASSUME IInv, [Next]_vars PROVE IInv'
  OBVIOUS
<1>1. TypeOK'
  BY TypeInductive DEF IInv
<1>2. ASSUME ~clipped' PROVE ShapeInv' /\ PromiseInv'
  <2>1. Promised
    BY <1>2, ClippedStays DEF IInv, Promised
  <2> QED
    BY <1>2, <2>1, ShapeInductive, PromiseInductive DEF Promised
<1> QED
  BY <1>1, <1>2 DEF IInv

\* When write accepts the whole line, what an append that returned made its
\* caller rely on is read back by every later load, also after a power loss,
\* until a repair cuts into complete lines.
THEOREM PromisesAreDurable ==
  ASSUME ~ ShortWrites
  PROVE  Spec => []PromisedIsDurable
<1>1. IInv => PromisedIsDurable
  BY PromisedInFile DEF IInv, PromiseInv, PromisedIsDurable
<1> QED
  BY <1>1, InitInvariant, InvariantInductive, PTL DEF Spec

\* Where every line is ASCII, a kill in the middle of a write corrupts nothing:
\* what was acknowledged is read back and every complete line decodes, without
\* exception, for any operations and any number of lines.
THEOREM AsciiLogsAreNotCorrupted ==
  ASSUME ~ ShortWrites, Wide = {}
  PROVE  Spec => []KillsCorruptNothing
<1>1. Init => ~clipped
  BY DEF Init
<1>2. ~clipped /\ [Next]_vars => ~clipped'
  BY DEF Next, vars, Begin, RepairPartialTail, Miscounted, WriteLine, Sync, Return, Interrupted,
         PowerLoss
<1>3. ~clipped /\ LoadNeverFails /\ PromisedIsDurable => KillsCorruptNothing
  BY DEF LoadNeverFails, PromisedIsDurable, KillsCorruptNothing
<1>4. Spec => []LoadNeverFails
  BY LoadsNeverFail
<1>5. Spec => []PromisedIsDurable
  BY PromisesAreDurable
<1> QED
  BY <1>1, <1>2, <1>3, <1>4, <1>5, PTL DEF Spec

-----------------------------------------------------------------------------
\* A prefix is a SubSeq, the form in which the abstract Abandon shortens the log.
LEMMA PrefixAsSubSeq ==
  ASSUME NEW s \in Seq(Event), NEW t \in Seq(Event), IsPrefix(s, t)
  PROVE  Len(s) \in 0..Len(t) /\ s = SubSeq(t, 1, Len(s))
<1>1. Len(s) \in Nat /\ Len(t) \in Nat
  BY LenProperties
<1>2. Len(s) <= Len(t)
  BY PrefixElements
<1> QED
  BY <1>1, <1>2 DEF IsPrefix

\* Giving up an append, with the log cut to a prefix that holds what was
\* promised, is the abstract Abandon.
LEMMA AbandonStep ==
  ASSUME Promised, inflight' = NoEvent, promised' = promised,
         Decode(file') \in Seq(Event),
         IsPrefix(promised, Decode(file')), IsPrefix(Decode(file'), Decode(file))
  PROVE  Durable!Abandon
<1>1. promised \in Seq(Event) /\ Decode(file) \in Seq(Event)
  BY DecodedTypes DEF Promised, TypeOK
<1>2. Len(promised) \in Nat /\ Len(Decode(file')) \in Nat /\ Len(Decode(file)) \in Nat
  BY <1>1, LenProperties
<1>3. Len(promised) <= Len(Decode(file'))
  BY <1>1, PrefixElements
<1>4. /\ Len(Decode(file')) \in 0..Len(Decode(file))
      /\ Decode(file') = SubSeq(Decode(file), 1, Len(Decode(file')))
  BY <1>1, PrefixAsSubSeq
<1>5. Len(Decode(file')) \in Len(promised)..Len(Decode(file))
  BY <1>2, <1>3, <1>4
<1>6. Decode(file)' = Decode(file')
  BY DEF Decode, LastCompleteLine
<1> QED
  BY <1>4, <1>5, <1>6 DEF Durable!Abandon

\* Every step of the file is a step of the durable log or a stutter of it,
\* unless it cuts into complete lines.
LEMMA StepRefinement ==
  ASSUME ~ ShortWrites, Promised, [Next]_vars, ~clipped'
  PROVE  Durable!Next \/ UNCHANGED Durable!vars
<1>1. /\ file \in Seq(Piece) /\ OnlyTailTorn(file)
      /\ seen \in Seq(Event) /\ promised \in Seq(Event)
      /\ pc # "idle" => inflight \in Event
      /\ pc = "write" => EndsWithNewline(file)
      /\ Decode(file) \in Seq(Event)
      /\ NoEvent \notin Event
  BY DecodedTypes, TaskLogAssumption DEF Promised, TypeOK, ShapeInv
<1>2. Decode(file)' = Decode(file')
  BY DEF Decode, LastCompleteLine
<1>3. IsPrefix(promised, Decode(file)) /\ IsPrefix(Decode(file), Decode(file))
  BY <1>1, PromisedInFile, PrefixReflexive DEF Promised
<1>4. ASSUME NEW e \in Event, Begin(e) PROVE Durable!Begin(e)
  BY <1>2, <1>4 DEF Begin, Durable!Begin, Promised, PromiseInv
<1>5. CASE RepairPartialTail
  <2>1. Decode(file') = Decode(file)
    BY <1>1, <1>5, RepairKeepsLines, CompleteLinesProperties DEF RepairPartialTail
  <2> QED
    BY <1>2, <1>5, <2>1 DEF RepairPartialTail, Durable!vars
<1>6. CASE WriteLine
  <2>1. Decode(file') = Append(Decode(file), inflight)
    BY <1>1, <1>6, DecodeAppend DEF WriteLine
  <2>2. Durable!Land
    BY <1>1, <1>2, <1>6, <2>1 DEF WriteLine, Durable!Land
  <2> QED
    BY <2>2 DEF Durable!Next
<1>7. CASE Sync
  BY <1>2, <1>7 DEF Sync, Durable!vars
<1>8. CASE Return
  <2>1. inflight \in Event /\ Decode(file) = Append(seen, inflight)
    BY <1>1, <1>8 DEF Return, Promised, PromiseInv
  <2>2. /\ Len(Decode(file)) = Len(seen) + 1
        /\ Decode(file)[Len(seen) + 1] = inflight
        /\ Decode(file) # <<>>
    BY <1>1, <2>1, AppendProperties
  <2>3. promised' = Decode(file) /\ inflight' = NoEvent /\ file' = file
    BY <1>8, <2>1 DEF Return
  <2>4. Durable!Ack
    BY <1>1, <1>2, <2>1, <2>2, <2>3 DEF Durable!Ack
  <2> QED
    BY <2>4 DEF Durable!Next
<1>9. CASE Interrupted
  <2>1. Decode(file') = Decode(file)
    BY <1>1, <1>9, DecodeAppend DEF Interrupted
  <2>2. Durable!Abandon
    BY <1>1, <1>3, <1>9, <2>1, AbandonStep DEF Interrupted
  <2> QED
    BY <2>2 DEF Durable!Next
<1>10. CASE PowerLoss
  <2>1. PICK f \in AfterPowerLoss : file' = f
    BY <1>10 DEF PowerLoss
  <2>2. /\ Decode(f) \in Seq(Event) /\ IsPrefix(promised, Decode(f))
        /\ IsPrefix(Decode(f), Decode(file))
    BY AfterPowerLossKeepsPromise DEF Promised
  <2>3. Durable!Abandon
    BY <1>10, <2>1, <2>2, AbandonStep DEF PowerLoss
  <2> QED
    BY <2>3 DEF Durable!Next
<1>11. CASE UNCHANGED vars
  BY <1>2, <1>11 DEF vars, Durable!vars
<1> QED
  BY <1>4, <1>5, <1>6, <1>7, <1>8, <1>9, <1>10, <1>11 DEF Next, Durable!Next

\* When write accepts the whole line, the file implements the durable log:
\* operations appear whole, one at a time, and an acknowledged one stays, until
\* a repair cuts into complete lines.
THEOREM FileImplementsDurableLog ==
  ASSUME ~ ShortWrites
  PROVE  Spec => ImplementsDurableLog
<1>1. Init => Durable!Init
  <2> SUFFICES ASSUME Init PROVE Durable!Init
    OBVIOUS
  <2>1. Promised
    BY InitInvariant
  <2>2. promised = <<>> /\ Len(promised) = 0 /\ inflight = NoEvent /\ file = <<>>
    BY EmptySeq DEF Init
  <2>3. Decode(file) \in Seq(Event) /\ Len(Decode(file)) = 0
    BY <2>1, <2>2, EmptySeq, LastCompleteLineValue, DecodeProperties
       DEF Promised, TypeOK, ShapeInv, EndsWithNewline
  <2>4. Decode(file) = <<>>
    BY <2>3, EmptySeq
  <2> QED
    BY <2>2, <2>4 DEF Durable!Init
<1>2. IInv /\ [Next]_vars => [Durable!Next \/ clipped']_(Durable!vars)
  <2> SUFFICES ASSUME IInv, [Next]_vars, ~clipped'
               PROVE  Durable!Next \/ UNCHANGED Durable!vars
    OBVIOUS
  <2>1. Promised
    BY ClippedStays DEF IInv, Promised
  <2> QED
    BY <2>1, StepRefinement
<1> QED
  BY <1>1, <1>2, InitInvariant, InvariantInductive, PTL DEF Spec, ImplementsDurableLog

-----------------------------------------------------------------------------
\* The loop over the decoded lines.

\* The equation of the loop over the first n of some events.
After(events, n, after) ==
  after = [i \in 0..n |->
             IF i = 0 THEN Projected!Empty
             ELSE Projected!ProjectEvent(after[i - 1], events[i])]

\* It has a solution for any number of them: what comes after one event more
\* can be added to what is there.
LEMMA LoopEnds ==
  ASSUME NEW events, NEW n \in Nat
  PROVE  \E after : After(events, n, after)
<1> DEFINE Bad == {m \in Nat : ~ \E after : After(events, m, after)}
<1> SUFFICES ASSUME Bad # {} PROVE FALSE
  OBVIOUS
<1>1. PICK m \in Bad : \A k \in Bad : m <= k
  BY LeastOfAll
<1>2. CASE m = 0
  <2> DEFINE after == [i \in 0..m |-> Projected!Empty]
  <2>1. \A i \in 0..m : i = 0
    BY <1>2
  <2>2. After(events, m, after)
    BY <2>1 DEF After
  <2> QED
    BY <1>1, <2>2
<1>3. CASE m # 0
  <2>1. m \in Nat /\ m - 1 \in Nat /\ m - 1 \notin Bad
    BY <1>1, <1>3
  <2>2. PICK before : After(events, m - 1, before)
    BY <2>1
  <2> DEFINE last == Projected!ProjectEvent(before[m - 1], events[m])
             after == [i \in 0..m |-> IF i = m THEN last ELSE before[i]]
  <2>3. ASSUME NEW i \in 0..m
        PROVE  after[i] = IF i = 0 THEN Projected!Empty
                          ELSE Projected!ProjectEvent(after[i - 1], events[i])
    <3>1. CASE i = 0
      <4>1. i \in 0..(m - 1) /\ i # m
        BY <2>1, <3>1, <1>3
      <4>2. after[i] = before[i]
        BY <4>1
      <4>3. before[i] = Projected!Empty
        BY <2>2, <3>1, <4>1, Zenon DEF After
      <4> QED
        BY <4>2, <4>3, <3>1
    <3>2. CASE i # 0 /\ i # m
      <4>1. i \in 0..(m - 1) /\ i - 1 # m /\ i - 1 \in 0..m
        BY <2>1, <3>2
      <4>2. after[i] = before[i] /\ after[i - 1] = before[i - 1]
        BY <4>1, <3>2
      <4>3. before[i] = Projected!ProjectEvent(before[i - 1], events[i])
        BY <2>2, <3>2, <4>1, Zenon DEF After
      <4> HIDE DEF after
      <4> QED
        BY <4>2, <4>3, <3>2
    <3>3. CASE i = m
      <4>1. i - 1 # m /\ i - 1 \in 0..m /\ i \in 0..m /\ i # 0
        BY <2>1, <3>3, <1>3
      <4>2. after[i] = last /\ after[i - 1] = before[i - 1]
        BY <4>1, <3>3
      <4> HIDE DEF after
      <4> QED
        BY <4>1, <4>2, <3>3 DEF last
    <3> QED
      BY <3>1, <3>2, <3>3
  <2>4. after = [i \in 0..m |->
             IF i = 0 THEN Projected!Empty
             ELSE Projected!ProjectEvent(after[i - 1], events[i])]
    <3> DEFINE Step(i) == IF i = 0 THEN Projected!Empty
                          ELSE Projected!ProjectEvent(after[i - 1], events[i])
               a == after
    <3>1. \A i \in 0..m : a[i] = Step(i)
      BY <2>3
    <3>2. a = [i \in 0..m |-> a[i]]
      OBVIOUS
    <3> HIDE DEF Step, a
    <3>3. a = [i \in 0..m |-> Step(i)]
      BY <3>1, <3>2, Zenon
    <3> QED
      BY <3>3, Zenon DEF Step, a
  <2>5. After(events, m, after)
    BY <2>4, Zenon DEF After
  <2> QED
    BY <1>1, <2>5
<1> QED
  BY <1>2, <1>3

\* So the snapshots solve it.
LEMMA SnapshotsSolve ==
  ASSUME NEW events, Len(events) \in Nat
  PROVE  /\ Projected!Snapshots(events)[0] = Projected!Empty
         /\ \A i \in 1..Len(events) :
              Projected!Snapshots(events)[i] =
                Projected!ProjectEvent(Projected!Snapshots(events)[i - 1], events[i])
<1>1. After(events, Len(events), Projected!Snapshots(events))
  BY LoopEnds, Zenon DEF After, Projected!Snapshots
<1>2. 0 \in 0..Len(events) /\ \A i \in 1..Len(events) : i \in 0..Len(events) /\ i # 0
  OBVIOUS
<1> QED
  BY <1>1, <1>2, Zenon DEF After

\* Without a line there is nothing; one line more is projected onto what the
\* lines before it gave.
LEMMA ProjectEmpty == Projected!Project(<<>>) = Projected!Empty
<1>1. Len(<<>>) = 0
  BY EmptySeq
<1>2. Len(<<>>) \in Nat
  BY <1>1
<1> QED
  BY <1>1, <1>2, SnapshotsSolve DEF Projected!Project

\* One more event: what it makes of the snapshot so far.
LEMMA ProjectAppend ==
  ASSUME NEW S, NEW events \in Seq(S), NEW e \in S
  PROVE  Projected!Project(Append(events, e)) =
           Projected!ProjectEvent(Projected!Project(events), e)
<1> DEFINE more == Append(events, e)
           s == Projected!Snapshots(events)
           t == Projected!Snapshots(more)
           n == Len(events)
<1>1. /\ n \in Nat /\ Len(more) = n + 1 /\ more[n + 1] = e
      /\ \A i \in 1..n : more[i] = events[i]
  BY AppendProperties, LenProperties
<1>2. /\ s[0] = Projected!Empty
      /\ \A i \in 1..n : s[i] = Projected!ProjectEvent(s[i - 1], events[i])
  BY <1>1, SnapshotsSolve
<1>3. /\ t[0] = Projected!Empty
      /\ \A i \in 1..(n + 1) : t[i] = Projected!ProjectEvent(t[i - 1], more[i])
  <2>1. Len(more) \in Nat
    BY <1>1
  <2> HIDE DEF more
  <2> QED
    BY <1>1, <2>1, SnapshotsSolve
<1> HIDE DEF more, s, t, n
<1>4. \A i \in 0..n : t[i] = s[i]
  <2> DEFINE Bad == {i \in 0..n : t[i] # s[i]}
  <2> SUFFICES ASSUME Bad # {} PROVE FALSE
    OBVIOUS
  <2>1. Bad \subseteq Nat
    BY <1>1
  <2>2. PICK i \in Bad : \A j \in Bad : i <= j
    BY <2>1, LeastOfAll
  <2>3. i # 0
    BY <1>2, <1>3, <2>2
  <2>4. i - 1 \in 0..n /\ i \in 1..n /\ i \in 1..(n + 1) /\ ~ (i <= i - 1)
    BY <1>1, <2>2, <2>3
  <2>5. t[i - 1] = s[i - 1]
    BY <2>2, <2>4
  <2>6. t[i] = s[i]
    BY <1>1, <1>2, <1>3, <2>4, <2>5
  <2> QED
    BY <2>2, <2>6
<1>5. n + 1 \in 1..(n + 1) /\ (n + 1) - 1 = n /\ n \in 0..n
  BY <1>1
<1>6. t[n + 1] = Projected!ProjectEvent(s[n], e)
  BY <1>1, <1>3, <1>4, <1>5
<1> QED
  BY <1>1, <1>6 DEF more, s, t, n, Projected!Project

-----------------------------------------------------------------------------
\* What the operations append: evidence is told by its place in the log.
Stored ==
  [type : {"node_upsert"}, node : NodeId, session : {"none", "resumable"}]
    \cup [type : {"decision_recorded", "validation_report_recorded"}, node : NodeId, ref : Ref]
    \cup [type : {"evidence_appended"}, node : NodeId, at : Nat]
    \cup [type : {"cursor_set"}, cursor : Projected!Cursor]
    \cup [type : {"resume_token_invalidated"}, node : NodeId]

Placed(events) ==
  \A i \in DOMAIN events : events[i].type = "evidence_appended" => events[i].at = i

\* What every event of a log is, by its type.
LEMMA StoredFields ==
  ASSUME NEW e \in Stored
  PROVE  /\ e.type \in {"node_upsert", "decision_recorded", "validation_report_recorded",
                        "evidence_appended", "cursor_set", "resume_token_invalidated"}
         /\ e.type # "cursor_set" => e.node \in NodeId
         /\ e.type = "node_upsert" => e.session \in {"none", "resumable"}
         /\ e.type \in {"decision_recorded", "validation_report_recorded"} => e.ref \in Ref
         /\ e.type = "evidence_appended" => e.at \in Nat
         /\ e.type = "cursor_set" => e.cursor \in Projected!Cursor
BY DEF Stored

\* A log with one event more.
LEMMA OneMore ==
  ASSUME NEW events \in Seq(Stored), NEW e \in Stored
  PROVE  /\ Append(events, e) \in Seq(Stored)
         /\ Len(events) \in Nat /\ Len(Append(events, e)) = Len(events) + 1
         /\ DOMAIN events = 1..Len(events)
         /\ DOMAIN Append(events, e) = 1..(Len(events) + 1)
         /\ \A i \in 1..Len(events) : Append(events, e)[i] = events[i] /\ events[i] \in Stored
         /\ Append(events, e)[Len(events) + 1] = e
<1>1. /\ Append(events, e) \in Seq(Stored)
      /\ Len(Append(events, e)) = Len(events) + 1
      /\ \A i \in 1..Len(events) : Append(events, e)[i] = events[i]
      /\ Append(events, e)[Len(events) + 1] = e
  BY AppendProperties
<1>2. Len(events) \in Nat /\ \A i \in 1..Len(events) : events[i] \in Stored
  BY LenProperties, ElementOfSeq
<1>3. DOMAIN events = 1..Len(events) /\ DOMAIN Append(events, e) = 1..Len(Append(events, e))
  BY <1>1, LenProperties
<1> QED
  BY <1>1, <1>2, <1>3

\* What is about a node in it.
LEMMA AboutMore ==
  ASSUME NEW events \in Seq(Stored), NEW e \in Stored, NEW type, NEW n
  PROVE  /\ Projected!About(events, type, n) \subseteq 1..Len(events)
         /\ e.type = type /\ e.node = n =>
              Projected!About(Append(events, e), type, n) =
                Projected!About(events, type, n) \cup {Len(events) + 1}
         /\ ~ (e.type = type /\ e.node = n) =>
              Projected!About(Append(events, e), type, n) = Projected!About(events, type, n)
<1> DEFINE more == Append(events, e)
           k == Len(events)
<1>1. /\ k \in Nat /\ DOMAIN events = 1..k /\ DOMAIN more = 1..(k + 1)
      /\ \A i \in 1..k : more[i] = events[i]
      /\ more[k + 1] = e
  BY OneMore
<1> HIDE DEF more, k
<1>2. \A i : i \in 1..(k + 1) <=> i \in 1..k \/ i = k + 1
  BY <1>1
<1>3. \A i \in 1..k : i # k + 1
  BY <1>1
<1>4. Projected!About(events, type, n) \subseteq 1..k
  BY <1>1 DEF Projected!About
<1>5. ASSUME e.type = type, e.node = n
      PROVE  Projected!About(more, type, n) = Projected!About(events, type, n) \cup {k + 1}
  BY <1>1, <1>2, <1>3, <1>5 DEF Projected!About
<1>6. ASSUME ~ (e.type = type /\ e.node = n)
      PROVE  Projected!About(more, type, n) = Projected!About(events, type, n)
  BY <1>1, <1>2, <1>3, <1>6 DEF Projected!About
<1> QED
  BY <1>4, <1>5, <1>6 DEF more, k

\* So an event is one of those about its node,
LEMMA AboutItToo ==
  ASSUME NEW events \in Seq(Stored), NEW e \in Stored
  PROVE  /\ Projected!About(events, e.type, e.node) \subseteq 1..Len(events)
         /\ Projected!About(Append(events, e), e.type, e.node) =
              Projected!About(events, e.type, e.node) \cup {Len(events) + 1}
BY AboutMore

\* and adds nothing to those of another type, or about another node.
LEMMA AboutNothingMore ==
  ASSUME NEW events \in Seq(Stored), NEW e \in Stored, NEW type, NEW n,
         ~ (e.type = type /\ e.node = n)
  PROVE  /\ Projected!About(events, type, n) \subseteq 1..Len(events)
         /\ Projected!About(Append(events, e), type, n) = Projected!About(events, type, n)
BY AboutMore

-----------------------------------------------------------------------------
\* The nodes of a snapshot.

Distinct(p) ==
  \A i, j \in DOMAIN p.nodes : p.nodes[i].id = p.nodes[j].id => i = j

\* A node that is there has its place.
LEMMA GetFinds ==
  ASSUME NEW p \in Projected!Snapshot, Distinct(p), NEW n, Projected!Has(p, n)
  PROVE  /\ Projected!Place(p, n) \in 1..Len(p.nodes)
         /\ Projected!Get(p, n) \in Projected!Node
         /\ Projected!Get(p, n) = p.nodes[Projected!Place(p, n)]
         /\ Projected!Get(p, n).id = n
         /\ \A i \in 1..Len(p.nodes) : p.nodes[i].id = n <=> i = Projected!Place(p, n)
<1>1. p.nodes \in Seq(Projected!Node)
  BY DEF Projected!Snapshot
<1>2. DOMAIN p.nodes = 1..Len(p.nodes) /\ \A i \in 1..Len(p.nodes) : p.nodes[i] \in Projected!Node
  BY <1>1, LenProperties, ElementOfSeq
<1>3. \E i \in DOMAIN p.nodes : p.nodes[i].id = n
  BY DEF Projected!Has
<1>4. Projected!Place(p, n) \in DOMAIN p.nodes /\ p.nodes[Projected!Place(p, n)].id = n
  BY <1>3, Zenon DEF Projected!Place
<1> QED
  BY <1>2, <1>4 DEF Projected!Get, Distinct

\* Whom a snapshot has is a node that the store was told of.
LEMMA HasNode ==
  ASSUME NEW p \in Projected!Snapshot, NEW n, Projected!Has(p, n)
  PROVE  n \in NodeId
<1>1. p.nodes \in Seq(Projected!Node)
  BY DEF Projected!Snapshot
<1>2. DOMAIN p.nodes = 1..Len(p.nodes) /\ \A i \in 1..Len(p.nodes) : p.nodes[i] \in Projected!Node
  BY <1>1, LenProperties, ElementOfSeq
<1> QED
  BY <1>2 DEF Projected!Has, Projected!Node

\* Map.set: the node is there, where it was or last, and every other is as and
\* where it was.
LEMMA PutSets ==
  ASSUME NEW p \in Projected!Snapshot, Distinct(p), NEW x \in Projected!Node
  PROVE  /\ Projected!Put(p, x) \in Projected!Snapshot
         /\ Distinct(Projected!Put(p, x))
         /\ Projected!Put(p, x).failed = p.failed
         /\ \A n : Projected!Has(Projected!Put(p, x), n) <=> Projected!Has(p, n) \/ n = x.id
         /\ Projected!Get(Projected!Put(p, x), x.id) = x
         /\ \A n : n # x.id /\ Projected!Has(p, n) =>
                     Projected!Get(Projected!Put(p, x), n) = Projected!Get(p, n)
         /\ \A i \in DOMAIN p.nodes :
              /\ i \in DOMAIN Projected!Put(p, x).nodes
              /\ Projected!Put(p, x).nodes[i].id = p.nodes[i].id
<1> DEFINE q == Projected!Put(p, x)
           k == Len(p.nodes)
           place == Projected!Place(p, x.id)
           list == IF Projected!Has(p, x.id) THEN [p.nodes EXCEPT ![place] = x]
                   ELSE Append(p.nodes, x)
<1>1. p.nodes \in Seq(Projected!Node)
  BY DEF Projected!Snapshot
<1>2. /\ DOMAIN p.nodes = 1..k /\ k \in Nat
      /\ \A i \in 1..k : p.nodes[i] \in Projected!Node
  BY <1>1, LenProperties, ElementOfSeq
<1>3. q = [p EXCEPT !.nodes = list]
  BY DEF Projected!Put, Projected!Snapshot
<1>4. CASE Projected!Has(p, x.id)
  <2>1. /\ place \in 1..k
        /\ \A i \in 1..k : p.nodes[i].id = x.id <=> i = place
    BY <1>4, GetFinds
  <2>2. /\ list \in Seq(Projected!Node) /\ Len(list) = k
        /\ list[place] = x /\ \A i \in 1..k : i # place => list[i] = p.nodes[i]
    BY <1>1, <1>2, <1>4, <2>1, ExceptSeq
  <2> HIDE DEF list, place
  <2>3. DOMAIN list = 1..k
    BY <2>2, LenProperties
  <2>4. q \in Projected!Snapshot /\ q.nodes = list /\ q.failed = p.failed
    <3> HIDE DEF q
    <3> QED
      BY <1>3, <2>2 DEF Projected!Snapshot
  <2> HIDE DEF q, k
  <2>5. \A i \in 1..k : list[i].id = p.nodes[i].id
    BY <2>1, <2>2
  <2>6. Distinct(q)
    BY <1>2, <2>3, <2>4, <2>5 DEF Distinct
  <2>7. \A n : Projected!Has(q, n) <=> Projected!Has(p, n)
    BY <1>2, <2>3, <2>4, <2>5 DEF Projected!Has
  <2>8. Projected!Get(q, x.id) = x
    <3>1. \A i \in 1..k : q.nodes[i].id = x.id <=> i = Projected!Place(q, x.id)
      BY <1>4, <2>2, <2>4, <2>6, <2>7, GetFinds
    <3> QED
      BY <2>1, <2>2, <2>4, <2>5, <3>1 DEF Projected!Get
  <2>9. ASSUME NEW n, n # x.id, Projected!Has(p, n)
        PROVE  Projected!Get(q, n) = Projected!Get(p, n)
    <3>1. /\ Projected!Place(p, n) \in 1..k
          /\ p.nodes[Projected!Place(p, n)].id = n
          /\ \A i \in 1..k : p.nodes[i].id = n <=> i = Projected!Place(p, n)
      BY <2>9, GetFinds DEF k
    <3>2. /\ Projected!Place(q, n) \in 1..k
          /\ \A i \in 1..k : q.nodes[i].id = n <=> i = Projected!Place(q, n)
      BY <2>2, <2>4, <2>6, <2>7, <2>9, GetFinds
    <3>3. Projected!Place(q, n) = Projected!Place(p, n) /\ Projected!Place(p, n) # place
      BY <2>1, <2>4, <2>5, <2>9, <3>1, <3>2
    <3> QED
      BY <2>2, <2>4, <3>1, <3>3 DEF Projected!Get
  <2> QED
    BY <1>2, <1>4, <2>3, <2>4, <2>5, <2>6, <2>7, <2>8, <2>9 DEF q
<1>5. CASE ~ Projected!Has(p, x.id)
  <2>1. /\ list \in Seq(Projected!Node) /\ Len(list) = k + 1
        /\ list[k + 1] = x /\ \A i \in 1..k : list[i] = p.nodes[i]
    BY <1>1, <1>5, AppendProperties
  <2>2. \A i \in 1..k : p.nodes[i].id # x.id
    BY <1>2, <1>5 DEF Projected!Has
  <2> HIDE DEF list, place
  <2>3. DOMAIN list = 1..(k + 1)
    BY <2>1, LenProperties
  <2>4. q \in Projected!Snapshot /\ q.nodes = list /\ q.failed = p.failed
    <3> HIDE DEF q
    <3> QED
      BY <1>3, <2>1 DEF Projected!Snapshot
  <2> HIDE DEF q, k
  <2>5. \A i : i \in 1..(k + 1) <=> i \in 1..k \/ i = k + 1
    BY <1>2
  <2>6. Distinct(q)
    BY <1>2, <2>1, <2>2, <2>3, <2>4, <2>5 DEF Distinct
  <2>7. \A n : Projected!Has(q, n) <=> Projected!Has(p, n) \/ n = x.id
    BY <1>2, <2>1, <2>3, <2>4, <2>5 DEF Projected!Has
  <2>8. Projected!Get(q, x.id) = x
    <3>1. \A i \in 1..(k + 1) : q.nodes[i].id = x.id <=> i = Projected!Place(q, x.id)
      BY <2>1, <2>4, <2>6, <2>7, GetFinds
    <3> QED
      BY <2>1, <2>4, <2>5, <3>1 DEF Projected!Get
  <2>9. ASSUME NEW n, n # x.id, Projected!Has(p, n)
        PROVE  Projected!Get(q, n) = Projected!Get(p, n)
    <3>1. /\ Projected!Place(p, n) \in 1..k
          /\ p.nodes[Projected!Place(p, n)].id = n
      BY <2>9, GetFinds DEF k
    <3>2. \A i \in 1..(k + 1) : q.nodes[i].id = n <=> i = Projected!Place(q, n)
      BY <2>1, <2>4, <2>6, <2>7, <2>9, GetFinds
    <3>3. Projected!Place(q, n) = Projected!Place(p, n)
      BY <2>1, <2>4, <2>5, <3>1, <3>2
    <3> QED
      BY <2>1, <2>4, <3>1, <3>3 DEF Projected!Get
  <2> QED
    BY <1>2, <2>1, <2>3, <2>4, <2>5, <2>6, <2>7, <2>8, <2>9 DEF q
<1> QED
  BY <1>4, <1>5

-----------------------------------------------------------------------------
\* What the events say of a node.

SessionOf(events, x) ==
  \E j \in Projected!About(events, "node_upsert", x.id) :
    /\ Projected!LastUpsert(events, x.id, Len(events), j)
    /\ x.session = IF \E k \in Projected!About(events, "resume_token_invalidated", x.id) : k > j
                   THEN "restart-required" ELSE events[j].session
    /\ events[j].session = "none" =>
         \A k \in Projected!About(events, "resume_token_invalidated", x.id) : k <= j

\* An event that is no record of this type for the node leaves a list as it is.
LEMMA RefsRest ==
  ASSUME NEW events \in Seq(Stored), NEW e \in Stored, NEW refs, NEW type, NEW n,
         ~ (e.type = type /\ e.node = n),
         Projected!InOrderOfFirstRecord(events, refs, type, n)
  PROVE  Projected!InOrderOfFirstRecord(Append(events, e), refs, type, n)
<1> DEFINE more == Append(events, e)
           A == Projected!About(events, type, n)
<1>1. /\ A \subseteq 1..Len(events) /\ Projected!About(more, type, n) = A
      /\ \A i \in 1..Len(events) : more[i] = events[i]
  BY AboutMore, OneMore
<1> HIDE DEF more
<1>2. {more[i].ref : i \in A} = {events[i].ref : i \in A}
  BY <1>1
<1> QED
  BY <1>1, <1>2 DEF Projected!InOrderOfFirstRecord, more

\* One that is adds its ref at the end, or nowhere when it is there.
LEMMA RefsGrow ==
  ASSUME NEW events \in Seq(Stored), NEW e \in Stored, NEW refs \in Seq(Ref), NEW type, NEW n,
         e.type = type, e.node = n, e.ref \in Ref,
         Projected!InOrderOfFirstRecord(events, refs, type, n)
  PROVE  /\ Projected!AddOnce(refs, e.ref) \in Seq(Ref)
         /\ Projected!InOrderOfFirstRecord(Append(events, e), Projected!AddOnce(refs, e.ref), type, n)
<1> DEFINE more == Append(events, e)
           A == Projected!About(events, type, n)
           B == Projected!About(more, type, n)
           k == Len(events)
           r == e.ref
           list == Projected!AddOnce(refs, r)
<1>1. /\ A \subseteq 1..k /\ B = A \cup {k + 1} /\ k \in Nat
      /\ \A i \in 1..k : more[i] = events[i]
      /\ more[k + 1].ref = r
  <2>1. A \subseteq 1..k /\ B = A \cup {k + 1}
    BY AboutItToo
  <2> QED
    BY <2>1, OneMore
<1>2. /\ DOMAIN refs = 1..Len(refs) /\ Len(refs) \in Nat
      /\ \A i \in 1..Len(refs) : refs[i] \in Ref
  BY LenProperties, ElementOfSeq
<1>3. /\ {refs[i] : i \in 1..Len(refs)} = {events[i].ref : i \in A}
      /\ \A i, j \in 1..Len(refs) : i < j =>
           \E m \in A : /\ events[m].ref = refs[i]
                        /\ \A l \in A : events[l].ref = refs[j] => m < l
  <2>1. /\ Projected!ToSet(refs) = {events[i].ref : i \in A}
        /\ \A i, j \in DOMAIN refs : i < j =>
             \E m \in A : /\ events[m].ref = refs[i]
                          /\ \A l \in A : events[l].ref = refs[j] => m < l
    BY DEF Projected!InOrderOfFirstRecord
  <2>2. Projected!ToSet(refs) = {refs[i] : i \in 1..Len(refs)}
    BY <1>2 DEF Projected!ToSet
  <2>3. {refs[i] : i \in 1..Len(refs)} = {events[i].ref : i \in A}
    BY <2>1, <2>2, Zenon
  <2> HIDE DEF A
  <2>4. \A i, j \in 1..Len(refs) : i < j =>
           \E m \in A : /\ events[m].ref = refs[i]
                        /\ \A l \in A : events[l].ref = refs[j] => m < l
    <3> SUFFICES ASSUME NEW i \in 1..Len(refs), NEW j \in 1..Len(refs), i < j
                 PROVE  \E m \in A : /\ events[m].ref = refs[i]
                                     /\ \A l \in A : events[l].ref = refs[j] => m < l
      OBVIOUS
    <3>1. i \in DOMAIN refs /\ j \in DOMAIN refs
      BY <1>2, Zenon
    <3> QED
      BY <2>1, <3>1, Zenon
  <2> QED
    BY <2>3, <2>4, Zenon
<1> HIDE DEF more, A, B, k, r
<1>4. {more[i].ref : i \in B} = {events[i].ref : i \in A} \cup {r}
  BY <1>1
<1>5. CASE \E i \in 1..Len(refs) : refs[i] = r
  <2>1. list = refs
    BY <1>5 DEF Projected!AddOnce, Projected!Contains
  <2>2. r \in {events[i].ref : i \in A}
    BY <1>3, <1>5
  <2>3. {refs[i] : i \in 1..Len(refs)} = {more[i].ref : i \in B}
    BY <1>3, <1>4, <2>2
  <2>4. ASSUME NEW i \in 1..Len(refs), NEW j \in 1..Len(refs), i < j
        PROVE  \E m \in B : /\ more[m].ref = refs[i]
                            /\ \A l \in B : more[l].ref = refs[j] => m < l
    <3>1. PICK m \in A : /\ events[m].ref = refs[i]
                         /\ \A l \in A : events[l].ref = refs[j] => m < l
      BY <1>3, <2>4
    <3>2. m \in B /\ more[m].ref = refs[i] /\ m < k + 1
      BY <1>1, <3>1
    <3>3. \A l \in B : more[l].ref = refs[j] => m < l
      BY <1>1, <3>1, <3>2
    <3> QED
      BY <3>2, <3>3
  <2>5. Projected!ToSet(refs) = {more[i].ref : i \in B}
    BY <1>2, <2>3, Zenon DEF Projected!ToSet
  <2>6. Projected!InOrderOfFirstRecord(more, refs, type, n)
    BY <1>2, <2>4, <2>5, Zenon DEF Projected!InOrderOfFirstRecord, B
  <2> QED
    BY <2>1, <2>6 DEF more, r, list
<1>6. CASE ~ \E i \in 1..Len(refs) : refs[i] = r
  <2> DEFINE z == Len(refs)
  <2>1. list = Append(refs, r)
    BY <1>6 DEF Projected!AddOnce, Projected!Contains
  <2>2. /\ list \in Seq(Ref) /\ Len(list) = z + 1
        /\ \A i \in 1..z : list[i] = refs[i]
        /\ list[z + 1] = r
    BY <2>1, AppendProperties DEF r
  <2> HIDE DEF list
  <2>3. DOMAIN list = 1..(z + 1)
    BY <2>2, LenProperties
  <2> HIDE DEF z
  <2>4. z \in Nat /\ \A i : i \in 1..(z + 1) <=> i \in 1..z \/ i = z + 1
    BY <1>2 DEF z
  <2>5. {list[i] : i \in 1..(z + 1)} = {refs[i] : i \in 1..z} \cup {r}
    BY <2>2, <2>4
  <2>6. {list[i] : i \in 1..(z + 1)} = {more[i].ref : i \in B}
    BY <1>3, <1>4, <2>5 DEF z
  <2>7. \A l \in A : events[l].ref # r
    BY <1>3, <1>6
  <2>8. ASSUME NEW i \in 1..(z + 1), NEW j \in 1..(z + 1), i < j
        PROVE  \E m \in B : /\ more[m].ref = list[i]
                            /\ \A l \in B : more[l].ref = list[j] => m < l
    <3>1. i \in 1..z
      BY <2>4, <2>8
    <3>2. CASE j \in 1..z
      <4>1. PICK m \in A : /\ events[m].ref = refs[i]
                           /\ \A l \in A : events[l].ref = refs[j] => m < l
        BY <1>3, <2>8, <3>1, <3>2 DEF z
      <4>2. m \in B /\ more[m].ref = list[i] /\ m < k + 1
        BY <1>1, <2>2, <3>1, <4>1
      <4>3. \A l \in B : more[l].ref = list[j] => m < l
        BY <1>1, <2>2, <3>2, <4>1, <4>2
      <4> QED
        BY <4>2, <4>3
    <3>3. CASE j = z + 1
      <4>1. refs[i] \in {events[m].ref : m \in A}
        BY <1>3, <3>1 DEF z
      <4>2. PICK m \in A : events[m].ref = refs[i]
        BY <4>1
      <4>3. m \in B /\ more[m].ref = list[i] /\ m < k + 1
        BY <1>1, <2>2, <3>1, <4>2
      <4>4. \A l \in B : more[l].ref = list[j] => m < l
        BY <1>1, <2>2, <2>7, <3>3, <4>3
      <4> QED
        BY <4>3, <4>4
    <3> QED
      BY <2>4, <2>8, <3>2, <3>3
  <2>9. Projected!ToSet(list) = {more[i].ref : i \in B}
    BY <2>3, <2>6, Zenon DEF Projected!ToSet
  <2>10. Projected!InOrderOfFirstRecord(more, list, type, n)
    <3>1. ASSUME NEW i \in DOMAIN list, NEW j \in DOMAIN list, i < j
          PROVE  \E m \in B : /\ more[m].ref = list[i]
                              /\ \A l \in B : more[l].ref = list[j] => m < l
      <4>1. i \in 1..(z + 1) /\ j \in 1..(z + 1)
        BY <2>3, <3>1, Zenon
      <4> QED
        BY <2>8, <3>1, <4>1, Zenon
    <3> QED
      BY <2>9, <3>1, Zenon DEF Projected!InOrderOfFirstRecord, B
  <2> QED
    BY <2>2, <2>10 DEF more, r, list
<1> QED
  BY <1>5, <1>6 DEF list, r

\* A node that nothing is about has an empty list.
LEMMA RefsOfNone ==
  ASSUME NEW events, NEW type, NEW n, Projected!About(events, type, n) = {}
  PROVE  Projected!InOrderOfFirstRecord(events, <<>>, type, n)
<1>1. DOMAIN << >> = {}
  OBVIOUS
<1> QED
  BY <1>1 DEF Projected!InOrderOfFirstRecord, Projected!ToSet

\* Evidence.
LEMMA EvidenceRests ==
  ASSUME NEW events \in Seq(Stored), NEW e \in Stored, NEW list, NEW n,
         ~ (e.type = "evidence_appended" /\ e.node = n),
         Projected!AllEvidence(events, list, n)
  PROVE  Projected!AllEvidence(Append(events, e), list, n)
<1> DEFINE more == Append(events, e)
           A == Projected!About(events, "evidence_appended", n)
<1>1. /\ A \subseteq 1..Len(events) /\ Projected!About(more, "evidence_appended", n) = A
      /\ \A i \in 1..Len(events) : more[i] = events[i]
  BY AboutMore, OneMore
<1> HIDE DEF more
<1>2. {more[i].at : i \in A} = {events[i].at : i \in A}
  BY <1>1
<1> QED
  BY <1>1, <1>2 DEF Projected!AllEvidence, more

\* A piece of evidence comes last, and is the latest.
LEMMA EvidenceGrows ==
  ASSUME NEW events \in Seq(Stored), Placed(events), NEW e \in Stored,
         e.type = "evidence_appended", e.at = Len(events) + 1, NEW list \in Seq(Nat),
         Projected!AllEvidence(events, list, e.node)
  PROVE  /\ Append(list, e.at) \in Seq(Nat)
         /\ Projected!AllEvidence(Append(events, e), Append(list, e.at), e.node)
<1> DEFINE more == Append(events, e)
           n == e.node
           A == Projected!About(events, "evidence_appended", n)
           B == Projected!About(more, "evidence_appended", n)
           k == Len(events)
           z == Len(list)
           longer == Append(list, e.at)
<1>1. /\ A \subseteq 1..k /\ B = A \cup {k + 1} /\ k \in Nat
      /\ \A i \in 1..k : more[i] = events[i]
      /\ more[k + 1].at = k + 1
  <2>1. A \subseteq 1..k /\ B = A \cup {k + 1}
    BY AboutItToo
  <2> QED
    BY <2>1, OneMore
<1>2. \A i \in A : events[i].at = i
  BY DEF Placed, Projected!About
<1>3. /\ DOMAIN list = 1..z /\ z \in Nat
      /\ \A i \in 1..z : list[i] \in Nat
  BY LenProperties, ElementOfSeq
<1>4. /\ {list[i] : i \in 1..z} = {events[i].at : i \in A}
      /\ \A i, j \in 1..z : i < j => list[i] < list[j]
  BY <1>3 DEF Projected!AllEvidence, Projected!ToSet
<1>5. /\ longer \in Seq(Nat) /\ Len(longer) = z + 1
      /\ \A i \in 1..z : longer[i] = list[i]
      /\ longer[z + 1] = k + 1
  BY <1>1, AppendProperties
<1> HIDE DEF more, A, B, k, z, longer
<1>6. DOMAIN longer = 1..(z + 1)
  BY <1>5, LenProperties
<1>7. \A i : i \in 1..(z + 1) <=> i \in 1..z \/ i = z + 1
  BY <1>3
<1>8. {more[i].at : i \in B} = {events[i].at : i \in A} \cup {k + 1}
  BY <1>1
<1>9. {longer[i] : i \in 1..(z + 1)} = {more[i].at : i \in B}
  BY <1>4, <1>5, <1>7, <1>8
<1>10. \A i \in 1..z : list[i] < k + 1
  <2> SUFFICES ASSUME NEW i \in 1..z PROVE list[i] < k + 1
    OBVIOUS
  <2>1. list[i] \in {events[m].at : m \in A}
    BY <1>4
  <2>2. PICK m \in A : list[i] = events[m].at
    BY <2>1
  <2>3. list[i] = m /\ m \in 1..k
    BY <1>1, <1>2, <2>2
  <2> QED
    BY <1>1, <2>3
<1>11. ASSUME NEW i \in 1..(z + 1), NEW j \in 1..(z + 1), i < j
       PROVE  longer[i] < longer[j]
  <2>1. i \in 1..z
    BY <1>3, <1>7, <1>11
  <2>2. CASE j \in 1..z
    BY <1>4, <1>5, <1>11, <2>1, <2>2
  <2>3. CASE j = z + 1
    BY <1>5, <1>10, <2>1, <2>3
  <2> QED
    BY <1>7, <2>2, <2>3
<1> QED
  BY <1>5, <1>6, <1>9, <1>11 DEF Projected!AllEvidence, Projected!ToSet, more, B, longer

\* A node that no evidence is about has none.
LEMMA EvidenceOfNone ==
  ASSUME NEW events, NEW n, Projected!About(events, "evidence_appended", n) = {}
  PROVE  Projected!AllEvidence(events, <<>>, n)
<1>1. DOMAIN << >> = {}
  OBVIOUS
<1> QED
  BY <1>1 DEF Projected!AllEvidence, Projected!ToSet

\* Which upsert is a node's last is a matter of the events up to there.
LEMMA LastUpsertRests ==
  ASSUME NEW events \in Seq(Stored), NEW e \in Stored, NEW n, NEW i \in 0..Len(events), NEW j
  PROVE  Projected!LastUpsert(Append(events, e), n, i, j) <=> Projected!LastUpsert(events, n, i, j)
<1>1. /\ Projected!About(events, "node_upsert", n) \subseteq 1..Len(events)
      /\ \/ Projected!About(Append(events, e), "node_upsert", n) =
              Projected!About(events, "node_upsert", n)
         \/ Projected!About(Append(events, e), "node_upsert", n) =
              Projected!About(events, "node_upsert", n) \cup {Len(events) + 1}
  <2>1. CASE e.type = "node_upsert" /\ e.node = n
    BY <2>1, AboutItToo
  <2>2. CASE ~ (e.type = "node_upsert" /\ e.node = n)
    BY <2>2, AboutNothingMore
  <2> QED
    BY <2>1, <2>2
<1>2. Len(events) \in Nat /\ ~ (Len(events) + 1 <= i)
  BY OneMore
<1> QED
  BY <1>1, <1>2 DEF Projected!LastUpsert

\* Whether an event dangles is a matter of those before it.
LEMMA DanglingRests ==
  ASSUME NEW events \in Seq(Stored), NEW e \in Stored, NEW i \in 1..Len(events)
  PROVE  Projected!Dangling(Append(events, e), i) <=> Projected!Dangling(events, i)
<1> DEFINE more == Append(events, e)
           n == events[i].node
           k == Len(events)
<1>1. /\ k \in Nat /\ DOMAIN events = 1..k /\ DOMAIN more = 1..(k + 1)
      /\ \A j \in 1..k : more[j] = events[j]
      /\ i - 1 \in 0..k /\ i < k + 1
  BY OneMore
<1>2. /\ Projected!About(events, "node_upsert", n) \subseteq 1..k
      /\ \/ Projected!About(more, "node_upsert", n) = Projected!About(events, "node_upsert", n)
         \/ Projected!About(more, "node_upsert", n) =
              Projected!About(events, "node_upsert", n) \cup {k + 1}
  <2>1. CASE e.type = "node_upsert" /\ e.node = n
    BY <2>1, AboutItToo
  <2>2. CASE ~ (e.type = "node_upsert" /\ e.node = n)
    BY <2>2, AboutNothingMore
  <2> QED
    BY <2>1, <2>2
<1>3. \A j : Projected!LastUpsert(more, n, i - 1, j) <=> Projected!LastUpsert(events, n, i - 1, j)
  BY <1>1, LastUpsertRests
<1> HIDE DEF more, n, k
<1>4. (\A j \in Projected!About(more, "node_upsert", n) : j >= i) <=>
        (\A j \in Projected!About(events, "node_upsert", n) : j >= i)
  BY <1>1, <1>2
<1>5. \A j : Projected!LastUpsert(events, n, i - 1, j) => j \in 1..k
  BY <1>2 DEF Projected!LastUpsert
<1>6. (\E j \in DOMAIN more : Projected!LastUpsert(more, n, i - 1, j) /\ more[j].session = "none") <=>
        (\E j \in DOMAIN events : Projected!LastUpsert(events, n, i - 1, j) /\ events[j].session = "none")
  BY <1>1, <1>3, <1>5
<1>7. more[i] = events[i]
  BY <1>1 DEF k
<1> QED
  BY <1>4, <1>6, <1>7 DEF Projected!Dangling, more, n

\* A session stays what it is when no event is about it,
LEMMA SessionRests ==
  ASSUME NEW events \in Seq(Stored), NEW e \in Stored, NEW x, NEW y,
         ~ (e.type \in {"node_upsert", "resume_token_invalidated"} /\ e.node = x.id),
         y.id = x.id, y.session = x.session, SessionOf(events, x)
  PROVE  SessionOf(Append(events, e), y)
<1> DEFINE more == Append(events, e)
           k == Len(events)
           U == Projected!About(events, "node_upsert", x.id)
           R == Projected!About(events, "resume_token_invalidated", x.id)
<1>1. /\ U \subseteq 1..k /\ R \subseteq 1..k /\ k \in Nat /\ Len(more) = k + 1
      /\ Projected!About(more, "node_upsert", x.id) = U
      /\ Projected!About(more, "resume_token_invalidated", x.id) = R
      /\ \A j \in 1..k : more[j] = events[j]
  BY AboutMore, OneMore
<1> HIDE DEF more
<1>2. PICK j \in U : /\ Projected!LastUpsert(events, x.id, k, j)
                     /\ x.session = IF \E l \in R : l > j THEN "restart-required" ELSE events[j].session
                     /\ events[j].session = "none" => \A l \in R : l <= j
  BY DEF SessionOf
<1> HIDE DEF U, R, k
<1>3. Projected!LastUpsert(more, x.id, k + 1, j)
  BY <1>1, <1>2 DEF Projected!LastUpsert, U
<1>4. more[j] = events[j]
  BY <1>1
<1> QED
  BY <1>1, <1>2, <1>3, <1>4 DEF SessionOf, more, U, R, k

\* starts anew with an upsert,
LEMMA SessionStarts ==
  ASSUME NEW events \in Seq(Stored), NEW e \in Stored, NEW x,
         e.type = "node_upsert", e.node = x.id, x.session = e.session
  PROVE  SessionOf(Append(events, e), x)
<1> DEFINE more == Append(events, e)
           k == Len(events)
           U == Projected!About(events, "node_upsert", x.id)
           R == Projected!About(events, "resume_token_invalidated", x.id)
<1>1. /\ U \subseteq 1..k /\ R \subseteq 1..k /\ k \in Nat /\ Len(more) = k + 1
      /\ Projected!About(more, "node_upsert", x.id) = U \cup {k + 1}
      /\ Projected!About(more, "resume_token_invalidated", x.id) = R
      /\ more[k + 1] = e
  <2>1. U \subseteq 1..k /\ Projected!About(more, "node_upsert", x.id) = U \cup {k + 1}
    BY AboutItToo
  <2>2. R \subseteq 1..k /\ Projected!About(more, "resume_token_invalidated", x.id) = R
    BY AboutNothingMore
  <2> QED
    BY <2>1, <2>2, OneMore
<1> HIDE DEF more, U, R, k
<1>2. /\ Projected!LastUpsert(more, x.id, k + 1, k + 1)
      /\ \A l \in R : l <= k + 1 /\ ~ (l > k + 1)
  BY <1>1 DEF Projected!LastUpsert
<1> QED
  BY <1>1, <1>2 DEF SessionOf, more

\* and ends with an invalidation.
LEMMA SessionEnds ==
  ASSUME NEW events \in Seq(Stored), NEW e \in Stored, NEW x, NEW y,
         e.type = "resume_token_invalidated", e.node = x.id,
         y.id = x.id, x.session # "none", y.session = "restart-required", SessionOf(events, x)
  PROVE  SessionOf(Append(events, e), y)
<1> DEFINE more == Append(events, e)
           k == Len(events)
           U == Projected!About(events, "node_upsert", x.id)
           R == Projected!About(events, "resume_token_invalidated", x.id)
<1>1. /\ U \subseteq 1..k /\ R \subseteq 1..k /\ k \in Nat /\ Len(more) = k + 1
      /\ Projected!About(more, "node_upsert", x.id) = U
      /\ Projected!About(more, "resume_token_invalidated", x.id) = R \cup {k + 1}
      /\ \A j \in 1..k : more[j] = events[j]
  <2>1. U \subseteq 1..k /\ Projected!About(more, "node_upsert", x.id) = U
    BY AboutNothingMore
  <2>2. /\ R \subseteq 1..k
        /\ Projected!About(more, "resume_token_invalidated", x.id) = R \cup {k + 1}
    BY AboutItToo
  <2> QED
    BY <2>1, <2>2, OneMore
<1> HIDE DEF more
<1>2. PICK j \in U : /\ Projected!LastUpsert(events, x.id, k, j)
                     /\ x.session = IF \E l \in R : l > j THEN "restart-required" ELSE events[j].session
                     /\ events[j].session = "none" => \A l \in R : l <= j
  BY DEF SessionOf
<1> HIDE DEF U, R, k
<1>3. Projected!LastUpsert(more, x.id, k + 1, j)
  BY <1>1, <1>2 DEF Projected!LastUpsert, U
<1>4. more[j] = events[j] /\ k + 1 > j
  BY <1>1
<1>5. events[j].session # "none"
  BY <1>1, <1>2
<1> QED
  BY <1>1, <1>2, <1>3, <1>4, <1>5 DEF SessionOf, more, U, R, k

-----------------------------------------------------------------------------
\* What a snapshot is to a log: it failed when an event dangles, and otherwise
\* has the nodes that were upserted, each with its history and its session.
Reads(p, events) ==
  /\ \A n : Projected!Has(p, n) <=> Projected!About(events, "node_upsert", n) # {}
  /\ \A n : Projected!Has(p, n) => /\ Projected!History(events, Projected!Get(p, n))
                                   /\ SessionOf(events, Projected!Get(p, n))

Good(p, events) ==
  /\ p \in Projected!Snapshot /\ Distinct(p)
  /\ p.failed <=> \E i \in 1..Len(events) : Projected!Dangling(events, i)
  /\ ~ p.failed => Reads(p, events)

\* Nothing is about a node before its upsert.
LEMMA UpsertComesFirst ==
  ASSUME NEW events \in Seq(Stored), NEW p, Good(p, events), ~ p.failed, NEW n,
         ~ Projected!Has(p, n), NEW type, type # "cursor_set"
  PROVE  Projected!About(events, type, n) = {}
<1> SUFFICES ASSUME NEW i \in Projected!About(events, type, n) PROVE FALSE
  OBVIOUS
<1>1. i \in 1..Len(events) /\ events[i].type = type /\ events[i].node = n
  BY LenProperties DEF Projected!About
<1>2. ~ Projected!Dangling(events, i)
  BY <1>1 DEF Good
<1>3. Projected!About(events, "node_upsert", n) = {}
  BY DEF Good, Reads
<1>4. type # "node_upsert"
  BY <1>3
<1> QED
  BY <1>1, <1>2, <1>3, <1>4 DEF Projected!Dangling

\* An event dangles when the snapshot before it lacks its node, or its session.
LEMMA DanglesNow ==
  ASSUME NEW events \in Seq(Stored), NEW e \in Stored, NEW p, Good(p, events), ~ p.failed
  PROVE  Projected!Dangling(Append(events, e), Len(events) + 1) <=>
           /\ e.type \notin {"node_upsert", "cursor_set"}
           /\ \/ ~ Projected!Has(p, e.node)
              \/ /\ e.type = "resume_token_invalidated"
                 /\ Projected!Get(p, e.node).session = "none"
<1> DEFINE more == Append(events, e)
           k == Len(events)
           n == e.node
           U == Projected!About(events, "node_upsert", n)
           node == Projected!Get(p, n)
<1>1. /\ k \in Nat /\ DOMAIN events = 1..k /\ DOMAIN more = 1..(k + 1)
      /\ \A j \in 1..k : more[j] = events[j] /\ events[j] \in Stored
      /\ more[k + 1] = e
      /\ k \in 0..k /\ (k + 1) - 1 = k
  BY OneMore
<1>2. Projected!Has(p, n) <=> U # {}
  BY DEF Good, Reads
<1> SUFFICES ASSUME e.type \notin {"node_upsert", "cursor_set"}
             PROVE  Projected!Dangling(more, k + 1) <=>
                      \/ ~ Projected!Has(p, n)
                      \/ e.type = "resume_token_invalidated" /\ node.session = "none"
  BY <1>1 DEF Projected!Dangling
<1>3. U \subseteq 1..k /\ Projected!About(more, "node_upsert", n) = U
  BY AboutNothingMore
<1>4. (\A j \in U : j >= k + 1) <=> ~ Projected!Has(p, n)
  BY <1>1, <1>2, <1>3
<1>5. ASSUME Projected!Has(p, n)
      PROVE  (\E j \in DOMAIN more : Projected!LastUpsert(more, n, k, j) /\ more[j].session = "none")
               <=> node.session = "none"
  <2>1. SessionOf(events, node) /\ node.id = n
    BY <1>5, GetFinds DEF Good, Reads
  <2>2. PICK j \in U :
          /\ Projected!LastUpsert(events, n, k, j)
          /\ node.session = IF \E l \in Projected!About(events, "resume_token_invalidated", n) : l > j
                            THEN "restart-required" ELSE events[j].session
          /\ events[j].session = "none" =>
               \A l \in Projected!About(events, "resume_token_invalidated", n) : l <= j
    BY <2>1 DEF SessionOf
  <2>3. Projected!About(events, "resume_token_invalidated", n) \subseteq 1..k
    BY AboutMore
  <2>4. j \in 1..k /\ j \in 1..(k + 1)
    BY <1>1, <1>3
  <2>5. node.session = "none" <=> events[j].session = "none"
    BY <1>1, <2>2, <2>3, <2>4
  <2>6. \A i : Projected!LastUpsert(more, n, k, i) <=> Projected!LastUpsert(events, n, k, i)
    BY <1>1, LastUpsertRests
  <2>7. \A i : Projected!LastUpsert(events, n, k, i) => i = j
    <3>1. ASSUME NEW i, Projected!LastUpsert(events, n, k, i) PROVE i = j
      <4>1. i \in U /\ i <= j /\ j <= i
        BY <2>2, <3>1 DEF Projected!LastUpsert
      <4> QED
        BY <1>1, <1>3, <4>1
    <3> QED
      BY <3>1
  <2>8. more[j] = events[j] /\ j \in DOMAIN more
    BY <1>1, <2>4
  <2> QED
    BY <2>2, <2>5, <2>6, <2>7, <2>8
<1> HIDE DEF more, k, n, U, node
<1> QED
  BY <1>1, <1>3, <1>4, <1>5 DEF Projected!Dangling, n

\* Nothing dangled so far: it is for the last event to.
LEMMA DanglingMore ==
  ASSUME NEW events \in Seq(Stored), NEW e \in Stored, NEW p, Good(p, events), ~ p.failed
  PROVE  (\E i \in 1..Len(Append(events, e)) : Projected!Dangling(Append(events, e), i)) <=>
           Projected!Dangling(Append(events, e), Len(events) + 1)
<1>1. /\ Len(events) \in Nat /\ Len(Append(events, e)) = Len(events) + 1
  BY OneMore
<1>2. \A i \in 1..Len(events) : ~ Projected!Dangling(Append(events, e), i)
  BY DanglingRests DEF Good
<1>3. \A i : i \in 1..(Len(events) + 1) <=> i \in 1..Len(events) \/ i = Len(events) + 1
  BY <1>1
<1> QED
  BY <1>1, <1>2, <1>3

\* A node that an event is not about is what it was.
LEMMA OthersRest ==
  ASSUME NEW events \in Seq(Stored), NEW e \in Stored, NEW x,
         e.type = "cursor_set" \/ e.node # x.id,
         Projected!History(events, x), SessionOf(events, x)
  PROVE  Projected!History(Append(events, e), x) /\ SessionOf(Append(events, e), x)
<1>1. Projected!InOrderOfFirstRecord(Append(events, e), x.decisions, "decision_recorded", x.id)
  BY RefsRest DEF Projected!History
<1>2. Projected!InOrderOfFirstRecord(Append(events, e), x.reports, "validation_report_recorded", x.id)
  BY RefsRest DEF Projected!History
<1>3. Projected!AllEvidence(Append(events, e), x.evidence, x.id)
  BY EvidenceRests DEF Projected!History
<1>4. SessionOf(Append(events, e), x)
  BY SessionRests
<1> QED
  BY <1>1, <1>2, <1>3, <1>4 DEF Projected!History

\* The nodes are all that finding one depends on.
LEMMA SameNodes ==
  ASSUME NEW p, NEW q, p.nodes = q.nodes
  PROVE  /\ Distinct(p) <=> Distinct(q)
         /\ \A n : Projected!Has(p, n) <=> Projected!Has(q, n)
         /\ \A n : Projected!Get(p, n) = Projected!Get(q, n)
BY DEF Distinct, Projected!Has, Projected!Get, Projected!Place

\* An event that does not dangle, and what it makes of its node.
LEMMA PutReads ==
  ASSUME NEW events \in Seq(Stored), NEW e \in Stored, NEW p, Good(p, events), ~ p.failed,
         NEW q \in Projected!Snapshot, q.nodes = p.nodes, ~ q.failed,
         NEW x \in Projected!Node, x.id = e.node, e.type # "cursor_set",
         e.type = "node_upsert" \/ Projected!Has(p, e.node),
         ~ Projected!Dangling(Append(events, e), Len(events) + 1),
         Projected!History(Append(events, e), x), SessionOf(Append(events, e), x)
  PROVE  Good(Projected!Put(q, x), Append(events, e))
<1> DEFINE more == Append(events, e)
           r == Projected!Put(q, x)
<1>1. /\ Distinct(q)
      /\ \A n : Projected!Has(q, n) <=> Projected!Has(p, n)
      /\ \A n : Projected!Get(q, n) = Projected!Get(p, n)
  BY SameNodes DEF Good
<1>2. /\ r \in Projected!Snapshot /\ Distinct(r) /\ r.failed = q.failed
      /\ \A n : Projected!Has(r, n) <=> Projected!Has(q, n) \/ n = x.id
      /\ Projected!Get(r, x.id) = x
      /\ \A n : n # x.id /\ Projected!Has(q, n) => Projected!Get(r, n) = Projected!Get(q, n)
  BY <1>1, PutSets
<1> HIDE DEF r
<1>3. ~ \E i \in 1..Len(more) : Projected!Dangling(more, i)
  BY DanglingMore
<1>4. Reads(p, events)
  BY DEF Good
<1>5. ASSUME NEW n
      PROVE  Projected!Has(r, n) <=> Projected!About(more, "node_upsert", n) # {}
  <2>1. CASE n = x.id /\ e.type = "node_upsert"
    <3>1. Projected!About(more, "node_upsert", n) =
            Projected!About(events, "node_upsert", n) \cup {Len(events) + 1}
      BY <2>1, AboutItToo
    <3> QED
      BY <1>2, <2>1, <3>1
  <2>2. CASE ~ (n = x.id /\ e.type = "node_upsert")
    <3>1. Projected!About(more, "node_upsert", n) = Projected!About(events, "node_upsert", n)
      BY <2>2, AboutNothingMore
    <3> QED
      BY <1>1, <1>2, <1>4, <2>2, <3>1 DEF Reads
  <2> QED
    BY <2>1, <2>2
<1>6. ASSUME NEW n, Projected!Has(r, n)
      PROVE  /\ Projected!History(more, Projected!Get(r, n))
             /\ SessionOf(more, Projected!Get(r, n))
  <2>1. CASE n = x.id
    BY <1>2, <2>1
  <2>2. CASE n # x.id
    <3>1. Projected!Has(p, n) /\ Projected!Get(r, n) = Projected!Get(p, n)
      BY <1>1, <1>2, <1>6, <2>2
    <3>2. Projected!Get(p, n).id = n
      BY <3>1, GetFinds DEF Good
    <3>3. /\ Projected!History(events, Projected!Get(p, n))
          /\ SessionOf(events, Projected!Get(p, n))
      BY <1>4, <3>1 DEF Reads
    <3> QED
      BY <2>2, <3>1, <3>2, <3>3, OthersRest
  <2> QED
    BY <2>1, <2>2
<1>7. Reads(r, more)
  BY <1>5, <1>6 DEF Reads
<1>8. ~ r.failed
  BY <1>2
<1> QED
  BY <1>2, <1>3, <1>7, <1>8 DEF Good, r

\* An event that dangles makes the load throw.
LEMMA FailureReads ==
  ASSUME NEW events \in Seq(Stored), NEW e \in Stored, NEW p, Good(p, events), ~ p.failed,
         NEW q \in Projected!Snapshot, q.nodes = p.nodes,
         Projected!Dangling(Append(events, e), Len(events) + 1)
  PROVE  Good(Projected!Failure(q), Append(events, e))
<1> DEFINE r == Projected!Failure(q)
<1>1. r \in Projected!Snapshot /\ r.failed = TRUE /\ r.nodes = p.nodes
  BY DEF Projected!Failure, Projected!Snapshot
<1>2. Distinct(r)
  BY <1>1, SameNodes DEF Good
<1>3. \E i \in 1..Len(Append(events, e)) : Projected!Dangling(Append(events, e), i)
  BY DanglingMore
<1> HIDE DEF r
<1>4. r.failed
  BY <1>1
<1> QED
  BY <1>1, <1>2, <1>3, <1>4 DEF Good, r

-----------------------------------------------------------------------------
\* The switch of projectEvents, case by case.

\* node_upsert: the node as the event has it, with the history that it had.
LEMMA UpsertReads ==
  ASSUME NEW events \in Seq(Stored), NEW e \in Stored, NEW p, Good(p, events), ~ p.failed,
         e.type = "node_upsert"
  PROVE  Good(Projected!ProjectUpsert(p, e), Append(events, e))
<1> DEFINE more == Append(events, e)
           n == e.node
           old == IF Projected!Has(p, n) THEN Projected!Get(p, n)
                  ELSE [decisions |-> <<>>, reports |-> <<>>, evidence |-> <<>>]
           x == [id |-> n, session |-> e.session, decisions |-> old.decisions,
                 reports |-> old.reports, evidence |-> old.evidence]
<1>1. n \in NodeId /\ e.session \in {"none", "resumable", "restart-required"}
  BY StoredFields
<1>2. /\ old.decisions \in Seq(Ref) /\ old.reports \in Seq(Ref) /\ old.evidence \in Seq(Nat)
      /\ Projected!InOrderOfFirstRecord(events, old.decisions, "decision_recorded", n)
      /\ Projected!InOrderOfFirstRecord(events, old.reports, "validation_report_recorded", n)
      /\ Projected!AllEvidence(events, old.evidence, n)
  <2>1. CASE Projected!Has(p, n)
    <3>1. Projected!Get(p, n) \in Projected!Node /\ Projected!Get(p, n).id = n
      BY <2>1, GetFinds DEF Good
    <3>2. Projected!History(events, Projected!Get(p, n))
      BY <2>1 DEF Good, Reads
    <3>3. old = Projected!Get(p, n)
      BY <2>1
    <3> HIDE DEF old
    <3> QED
      BY <3>1, <3>2, <3>3 DEF Projected!History, Projected!Node
  <2>2. CASE ~ Projected!Has(p, n)
    <3>1. /\ Projected!About(events, "decision_recorded", n) = {}
          /\ Projected!About(events, "validation_report_recorded", n) = {}
          /\ Projected!About(events, "evidence_appended", n) = {}
      BY <2>2, UpsertComesFirst
    <3>2. old.decisions = <<>> /\ old.reports = <<>> /\ old.evidence = <<>>
      BY <2>2
    <3> HIDE DEF old
    <3>3. <<>> \in Seq(Ref) /\ <<>> \in Seq(Nat)
      BY EmptySeq
    <3> QED
      BY <3>1, <3>2, <3>3, RefsOfNone, EvidenceOfNone
  <2> QED
    BY <2>1, <2>2
<1> HIDE DEF old, n
<1>3. /\ x \in Projected!Node /\ x.id = n /\ x.session = e.session
      /\ x.decisions = old.decisions /\ x.reports = old.reports /\ x.evidence = old.evidence
  BY <1>1, <1>2 DEF Projected!Node
<1> HIDE DEF x
<1>4. /\ Projected!InOrderOfFirstRecord(more, old.decisions, "decision_recorded", n)
      /\ Projected!InOrderOfFirstRecord(more, old.reports, "validation_report_recorded", n)
      /\ Projected!AllEvidence(more, old.evidence, n)
  BY <1>2, RefsRest, EvidenceRests
<1>5. Projected!History(more, x)
  BY <1>3, <1>4 DEF Projected!History
<1>6. SessionOf(more, x)
  BY <1>3, SessionStarts DEF n
<1>7. ~ Projected!Dangling(more, Len(events) + 1)
  BY DanglesNow
<1>8. Good(Projected!Put(p, x), more)
  BY <1>3, <1>5, <1>6, <1>7, PutReads DEF Good, n
<1> QED
  BY <1>8 DEF Projected!ProjectUpsert, x, old, n

\* decision_recorded: once more, or for the first time.
LEMMA DecisionReads ==
  ASSUME NEW events \in Seq(Stored), NEW e \in Stored, NEW p, Good(p, events), ~ p.failed,
         e.type = "decision_recorded"
  PROVE  Good(Projected!ProjectDecision(p, e), Append(events, e))
<1> DEFINE more == Append(events, e)
           q == [p EXCEPT !.decisions = @ \cup {e.ref}]
           old == Projected!Get(p, e.node)
           refs == Projected!AddOnce(old.decisions, e.ref)
           x == [old EXCEPT !.decisions = refs]
<1>1. p \in Projected!Snapshot /\ e.node \in NodeId /\ e.ref \in Ref
  BY StoredFields DEF Good
<1>2. q \in Projected!Snapshot /\ q.nodes = p.nodes /\ q.failed = p.failed
  BY <1>1 DEF Projected!Snapshot
<1>3. /\ Projected!Has(q, e.node) <=> Projected!Has(p, e.node)
      /\ Projected!Get(q, e.node) = old
  BY <1>2, SameNodes
<1>4. ASSUME ~ Projected!Has(p, e.node)
      PROVE  Good(Projected!ProjectDecision(p, e), more)
  <2>1. Projected!Dangling(more, Len(events) + 1)
    BY <1>4, DanglesNow
  <2>2. Good(Projected!Failure(q), more)
    BY <1>2, <2>1, FailureReads
  <2> QED
    BY <1>4, <2>2 DEF Projected!ProjectDecision
<1>5. ASSUME Projected!Has(p, e.node)
      PROVE  Good(Projected!ProjectDecision(p, e), more)
  <2>1. ~ Projected!Dangling(more, Len(events) + 1)
    BY <1>5, DanglesNow
  <2>2. old \in Projected!Node /\ old.id = e.node
    BY <1>5, GetFinds DEF Good
  <2>3. Projected!History(events, old) /\ SessionOf(events, old)
    BY <1>5 DEF Good, Reads
  <2> HIDE DEF old
  <2>4. /\ refs \in Seq(Ref)
        /\ Projected!InOrderOfFirstRecord(more, refs, "decision_recorded", old.id)
    BY <1>1, <2>2, <2>3, RefsGrow DEF Projected!History, Projected!Node
  <2> HIDE DEF refs
  <2>5. /\ x \in Projected!Node /\ x.id = old.id /\ x.session = old.session
        /\ x.decisions = refs /\ x.reports = old.reports /\ x.evidence = old.evidence
    BY <2>2, <2>4 DEF Projected!Node
  <2> HIDE DEF x
  <2>6. /\ Projected!InOrderOfFirstRecord(more, old.reports, "validation_report_recorded", old.id)
        /\ Projected!AllEvidence(more, old.evidence, old.id)
    BY <2>3, RefsRest, EvidenceRests DEF Projected!History
  <2>7. Projected!History(more, x)
    BY <2>4, <2>5, <2>6 DEF Projected!History
  <2>8. SessionOf(more, x)
    BY <2>3, <2>5, SessionRests
  <2> HIDE DEF q
  <2>9. ~ q.failed
    BY <1>2
  <2>10. Good(Projected!Put(q, x), more)
    BY <1>2, <1>5, <2>1, <2>2, <2>5, <2>7, <2>8, <2>9, PutReads
  <2> QED
    BY <1>3, <1>5, <2>10 DEF Projected!ProjectDecision, q, x, old, refs
<1> QED
  BY <1>4, <1>5

\* validation_report_recorded: likewise.
LEMMA ReportReads ==
  ASSUME NEW events \in Seq(Stored), NEW e \in Stored, NEW p, Good(p, events), ~ p.failed,
         e.type = "validation_report_recorded"
  PROVE  Good(Projected!ProjectReport(p, e), Append(events, e))
<1> DEFINE more == Append(events, e)
           q == [p EXCEPT !.reports = @ \cup {e.ref}]
           old == Projected!Get(p, e.node)
           refs == Projected!AddOnce(old.reports, e.ref)
           x == [old EXCEPT !.reports = refs]
<1>1. p \in Projected!Snapshot /\ e.node \in NodeId /\ e.ref \in Ref
  BY StoredFields DEF Good
<1>2. q \in Projected!Snapshot /\ q.nodes = p.nodes /\ q.failed = p.failed
  BY <1>1 DEF Projected!Snapshot
<1>3. /\ Projected!Has(q, e.node) <=> Projected!Has(p, e.node)
      /\ Projected!Get(q, e.node) = old
  BY <1>2, SameNodes
<1>4. ASSUME ~ Projected!Has(p, e.node)
      PROVE  Good(Projected!ProjectReport(p, e), more)
  <2>1. Projected!Dangling(more, Len(events) + 1)
    BY <1>4, DanglesNow
  <2>2. Good(Projected!Failure(q), more)
    BY <1>2, <2>1, FailureReads
  <2> QED
    BY <1>4, <2>2 DEF Projected!ProjectReport
<1>5. ASSUME Projected!Has(p, e.node)
      PROVE  Good(Projected!ProjectReport(p, e), more)
  <2>1. ~ Projected!Dangling(more, Len(events) + 1)
    BY <1>5, DanglesNow
  <2>2. old \in Projected!Node /\ old.id = e.node
    BY <1>5, GetFinds DEF Good
  <2>3. Projected!History(events, old) /\ SessionOf(events, old)
    BY <1>5 DEF Good, Reads
  <2> HIDE DEF old
  <2>4. /\ refs \in Seq(Ref)
        /\ Projected!InOrderOfFirstRecord(more, refs, "validation_report_recorded", old.id)
    BY <1>1, <2>2, <2>3, RefsGrow DEF Projected!History, Projected!Node
  <2> HIDE DEF refs
  <2>5. /\ x \in Projected!Node /\ x.id = old.id /\ x.session = old.session
        /\ x.decisions = old.decisions /\ x.reports = refs /\ x.evidence = old.evidence
    BY <2>2, <2>4 DEF Projected!Node
  <2> HIDE DEF x
  <2>6. /\ Projected!InOrderOfFirstRecord(more, old.decisions, "decision_recorded", old.id)
        /\ Projected!AllEvidence(more, old.evidence, old.id)
    BY <2>3, RefsRest, EvidenceRests DEF Projected!History
  <2>7. Projected!History(more, x)
    BY <2>4, <2>5, <2>6 DEF Projected!History
  <2>8. SessionOf(more, x)
    BY <2>3, <2>5, SessionRests
  <2> HIDE DEF q
  <2>9. ~ q.failed
    BY <1>2
  <2>10. Good(Projected!Put(q, x), more)
    BY <1>2, <1>5, <2>1, <2>2, <2>5, <2>7, <2>8, <2>9, PutReads
  <2> QED
    BY <1>3, <1>5, <2>10 DEF Projected!ProjectReport, q, x, old, refs
<1> QED
  BY <1>4, <1>5

\* evidence_appended: always one more.
LEMMA EvidenceReads ==
  ASSUME NEW events \in Seq(Stored), Placed(events), NEW e \in Stored, NEW p,
         Good(p, events), ~ p.failed,
         e.type = "evidence_appended", e.at = Len(events) + 1
  PROVE  Good(Projected!ProjectEvidence(p, e), Append(events, e))
<1> DEFINE more == Append(events, e)
           old == Projected!Get(p, e.node)
           list == Append(old.evidence, e.at)
           x == [old EXCEPT !.evidence = list]
<1>1. p \in Projected!Snapshot
  BY DEF Good
<1>2. ASSUME ~ Projected!Has(p, e.node)
      PROVE  Good(Projected!ProjectEvidence(p, e), more)
  <2>1. Projected!Dangling(more, Len(events) + 1)
    BY <1>2, DanglesNow
  <2>2. Good(Projected!Failure(p), more)
    BY <1>1, <2>1, FailureReads
  <2> QED
    BY <1>2, <2>2 DEF Projected!ProjectEvidence
<1>3. ASSUME Projected!Has(p, e.node)
      PROVE  Good(Projected!ProjectEvidence(p, e), more)
  <2>1. ~ Projected!Dangling(more, Len(events) + 1)
    BY <1>3, DanglesNow
  <2>2. old \in Projected!Node /\ old.id = e.node
    BY <1>3, GetFinds DEF Good
  <2>3. Projected!History(events, old) /\ SessionOf(events, old)
    BY <1>3 DEF Good, Reads
  <2> HIDE DEF old
  <2>4. old.evidence \in Seq(Nat) /\ Projected!AllEvidence(events, old.evidence, e.node)
    BY <2>2, <2>3 DEF Projected!History, Projected!Node
  <2>5. list \in Seq(Nat) /\ Projected!AllEvidence(more, list, old.id)
    BY <2>2, <2>4, EvidenceGrows
  <2> HIDE DEF list
  <2>6. /\ x \in Projected!Node /\ x.id = old.id /\ x.session = old.session
        /\ x.decisions = old.decisions /\ x.reports = old.reports /\ x.evidence = list
    BY <2>2, <2>5 DEF Projected!Node
  <2> HIDE DEF x
  <2>7. /\ Projected!InOrderOfFirstRecord(more, old.decisions, "decision_recorded", old.id)
        /\ Projected!InOrderOfFirstRecord(more, old.reports, "validation_report_recorded", old.id)
    BY <2>3, RefsRest DEF Projected!History
  <2>8. Projected!History(more, x)
    BY <2>5, <2>6, <2>7 DEF Projected!History
  <2>9. SessionOf(more, x)
    BY <2>3, <2>6, SessionRests
  <2>10. Good(Projected!Put(p, x), more)
    BY <1>1, <1>3, <2>1, <2>2, <2>6, <2>8, <2>9, PutReads
  <2> QED
    BY <1>3, <2>10 DEF Projected!ProjectEvidence, x, old, list
<1> QED
  BY <1>2, <1>3

\* cursor_set: of no node.
LEMMA CursorReads ==
  ASSUME NEW events \in Seq(Stored), NEW e \in Stored, NEW p, Good(p, events), ~ p.failed,
         e.type = "cursor_set"
  PROVE  Good(Projected!ProjectCursor(p, e), Append(events, e))
<1> DEFINE more == Append(events, e)
           q == Projected!ProjectCursor(p, e)
<1>1. p \in Projected!Snapshot /\ e.cursor \in Projected!Cursor
  BY StoredFields DEF Good
<1>2. q \in Projected!Snapshot /\ q.nodes = p.nodes /\ q.failed = p.failed
  BY <1>1 DEF Projected!ProjectCursor, Projected!Snapshot
<1> HIDE DEF q
<1>3. /\ Distinct(q)
      /\ \A n : Projected!Has(q, n) <=> Projected!Has(p, n)
      /\ \A n : Projected!Get(q, n) = Projected!Get(p, n)
  BY <1>2, SameNodes DEF Good
<1>4. ~ \E i \in 1..Len(more) : Projected!Dangling(more, i)
  BY DanglesNow, DanglingMore
<1>5. \A n : Projected!About(more, "node_upsert", n) = Projected!About(events, "node_upsert", n)
  BY AboutNothingMore
<1>6. ASSUME NEW n, Projected!Has(q, n)
      PROVE  /\ Projected!History(more, Projected!Get(q, n))
             /\ SessionOf(more, Projected!Get(q, n))
  <2>1. /\ Projected!History(events, Projected!Get(p, n))
        /\ SessionOf(events, Projected!Get(p, n))
    BY <1>3, <1>6 DEF Good, Reads
  <2>2. /\ Projected!History(more, Projected!Get(p, n))
        /\ SessionOf(more, Projected!Get(p, n))
    BY <2>1, OthersRest
  <2> QED
    BY <1>3, <2>2
<1>7. Reads(q, more)
  BY <1>3, <1>5, <1>6 DEF Good, Reads
<1>8. ~ q.failed
  BY <1>2
<1> QED
  BY <1>2, <1>3, <1>4, <1>7, <1>8 DEF Good, q

\* resume_token_invalidated: fails without a session, or ends it.
LEMMA InvalidateReads ==
  ASSUME NEW events \in Seq(Stored), NEW e \in Stored, NEW p, Good(p, events), ~ p.failed,
         e.type = "resume_token_invalidated"
  PROVE  Good(Projected!ProjectInvalidate(p, e), Append(events, e))
<1> DEFINE more == Append(events, e)
           old == Projected!Get(p, e.node)
           x == [old EXCEPT !.session = "restart-required"]
<1>1. p \in Projected!Snapshot
  BY DEF Good
<1>2. ASSUME ~ Projected!Has(p, e.node) \/ old.session = "none"
      PROVE  Good(Projected!ProjectInvalidate(p, e), more)
  <2>1. Projected!Dangling(more, Len(events) + 1)
    BY <1>2, DanglesNow
  <2>2. Good(Projected!Failure(p), more)
    BY <1>1, <2>1, FailureReads
  <2> QED
    BY <1>2, <2>2 DEF Projected!ProjectInvalidate
<1>3. ASSUME Projected!Has(p, e.node), old.session # "none"
      PROVE  Good(Projected!ProjectInvalidate(p, e), more)
  <2>1. ~ Projected!Dangling(more, Len(events) + 1)
    BY <1>3, DanglesNow
  <2>2. old \in Projected!Node /\ old.id = e.node
    BY <1>3, GetFinds DEF Good
  <2>3. Projected!History(events, old) /\ SessionOf(events, old)
    BY <1>3 DEF Good, Reads
  <2> HIDE DEF old
  <2>4. /\ x \in Projected!Node /\ x.id = old.id /\ x.session = "restart-required"
        /\ x.decisions = old.decisions /\ x.reports = old.reports /\ x.evidence = old.evidence
    BY <2>2 DEF Projected!Node
  <2> HIDE DEF x
  <2>5. /\ Projected!InOrderOfFirstRecord(more, old.decisions, "decision_recorded", old.id)
        /\ Projected!InOrderOfFirstRecord(more, old.reports, "validation_report_recorded", old.id)
        /\ Projected!AllEvidence(more, old.evidence, old.id)
    BY <2>3, RefsRest, EvidenceRests DEF Projected!History
  <2>6. Projected!History(more, x)
    BY <2>4, <2>5 DEF Projected!History
  <2>7. SessionOf(more, x)
    BY <1>3, <2>2, <2>3, <2>4, SessionEnds
  <2>8. Good(Projected!Put(p, x), more)
    BY <1>1, <1>3, <2>1, <2>2, <2>4, <2>6, <2>7, PutReads
  <2> QED
    BY <1>3, <2>8 DEF Projected!ProjectInvalidate, x, old
<1> QED
  BY <1>2, <1>3

\* One event more, and the snapshot is still the log's.
LEMMA EventReads ==
  ASSUME NEW events \in Seq(Stored), Placed(events), NEW e \in Stored, NEW p, Good(p, events),
         e.type = "evidence_appended" => e.at = Len(events) + 1
  PROVE  Good(Projected!ProjectEvent(p, e), Append(events, e))
<1>1. CASE p.failed
  <2>1. Projected!ProjectEvent(p, e) = p
    BY <1>1 DEF Projected!ProjectEvent
  <2>2. PICK i \in 1..Len(events) : Projected!Dangling(events, i)
    BY <1>1 DEF Good
  <2>3. Projected!Dangling(Append(events, e), i) /\ i \in 1..Len(Append(events, e))
    BY <2>2, OneMore, DanglingRests
  <2> QED
    BY <1>1, <2>1, <2>3 DEF Good
<1>2. CASE ~ p.failed
  <2>1. CASE e.type = "node_upsert"
    BY <1>2, <2>1, UpsertReads DEF Projected!ProjectEvent
  <2>2. CASE e.type = "decision_recorded"
    BY <1>2, <2>2, DecisionReads DEF Projected!ProjectEvent
  <2>3. CASE e.type = "validation_report_recorded"
    BY <1>2, <2>3, ReportReads DEF Projected!ProjectEvent
  <2>4. CASE e.type = "evidence_appended"
    BY <1>2, <2>4, EvidenceReads DEF Projected!ProjectEvent
  <2>5. CASE e.type = "cursor_set"
    BY <1>2, <2>5, CursorReads DEF Projected!ProjectEvent
  <2>6. CASE e.type = "resume_token_invalidated"
    BY <1>2, <2>6, InvalidateReads DEF Projected!ProjectEvent
  <2> QED
    BY <2>1, <2>2, <2>3, <2>4, <2>5, <2>6, StoredFields
<1> QED
  BY <1>1, <1>2

-----------------------------------------------------------------------------
\* The log, and what it projects to: the inductive invariant.

LogInv ==
  /\ log \in Seq(Stored) /\ Placed(log)
  /\ Good(Projected!Project(log), log)

\* An empty log reads as nothing.
LEMMA InitLog == Projected!Init => LogInv
<1> SUFFICES ASSUME Projected!Init PROVE LogInv
  OBVIOUS
<1>1. log = <<>> /\ Len(log) = 0 /\ log \in Seq(Stored) /\ DOMAIN log = {}
  BY EmptySeq DEF Projected!Init
<1>2. Projected!Project(log) = Projected!Empty
  BY <1>1, ProjectEmpty
<1> DEFINE p == Projected!Empty
<1>3. /\ p.nodes = <<>> /\ p.failed = FALSE
      /\ p.decisions = {} /\ p.reports = {} /\ p.cursor = {}
  BY DEF Projected!Empty
<1>4. p \in Projected!Snapshot
  <2>1. <<>> \in Seq(Projected!Node)
    BY EmptySeq
  <2>2. {} \in Projected!Cursor
    BY DEF Projected!Cursor
  <2> QED
    BY <2>1, <2>2 DEF Projected!Empty, Projected!Snapshot
<1>5. DOMAIN p.nodes = {}
  BY <1>3
<1> HIDE DEF p
<1>6. Distinct(p) /\ \A n : ~ Projected!Has(p, n)
  BY <1>5 DEF Distinct, Projected!Has
<1>7. \A n : Projected!About(log, "node_upsert", n) = {}
  BY <1>1 DEF Projected!About
<1>8. 1..Len(log) = {}
  BY <1>1
<1>9. ~ p.failed /\ Reads(p, log)
  BY <1>3, <1>6, <1>7 DEF Reads
<1>10. Good(p, log)
  BY <1>4, <1>6, <1>8, <1>9 DEF Good
<1> QED
  BY <1>1, <1>2, <1>10 DEF LogInv, Placed, p

\* What every operation appends.
LEMMA Appended ==
  ASSUME log \in Seq(Stored), Projected!Next
  PROVE  \E e \in Stored : /\ log' = Append(log, e)
                           /\ e.type = "evidence_appended" => e.at = Len(log) + 1
<1>1. ASSUME NEW n \in NodeId, NEW s \in {"none", "resumable"}, Projected!UpsertNode(n, s)
      PROVE  \E e \in Stored : /\ log' = Append(log, e)
                               /\ e.type = "evidence_appended" => e.at = Len(log) + 1
  <2> DEFINE e == [type |-> "node_upsert", node |-> n, session |-> s]
  <2>1. e \in Stored /\ e.type # "evidence_appended"
    BY DEF Stored
  <2>2. log' = Append(log, e)
    BY <1>1 DEF Projected!UpsertNode, Projected!Store
  <2> QED
    BY <2>1, <2>2
<1>2. ASSUME NEW n \in NodeId, NEW r \in Ref,
             Projected!RecordDecision(n, r) \/ Projected!RecordValidationReport(n, r)
      PROVE  \E e \in Stored : /\ log' = Append(log, e)
                               /\ e.type = "evidence_appended" => e.at = Len(log) + 1
  <2> DEFINE d == [type |-> "decision_recorded", node |-> n, ref |-> r]
             v == [type |-> "validation_report_recorded", node |-> n, ref |-> r]
  <2>1. d \in Stored /\ v \in Stored
    BY DEF Stored
  <2>2. d.type # "evidence_appended" /\ v.type # "evidence_appended"
    OBVIOUS
  <2>3. log' = Append(log, d) \/ log' = Append(log, v)
    BY <1>2 DEF Projected!RecordDecision, Projected!RecordValidationReport, Projected!Store
  <2> QED
    BY <2>1, <2>2, <2>3
<1>3. ASSUME NEW n \in NodeId, Projected!AppendEvidence(n)
      PROVE  \E e \in Stored : /\ log' = Append(log, e)
                               /\ e.type = "evidence_appended" => e.at = Len(log) + 1
  <2> DEFINE e == [type |-> "evidence_appended", node |-> n, at |-> Len(log) + 1]
  <2>1. e \in Stored /\ e.at = Len(log) + 1
    BY LenProperties DEF Stored
  <2>2. log' = Append(log, e)
    BY <1>3 DEF Projected!AppendEvidence, Projected!Store
  <2> QED
    BY <2>1, <2>2
<1>4. ASSUME NEW c \in Projected!Cursor, Projected!SetCursor(c)
      PROVE  \E e \in Stored : /\ log' = Append(log, e)
                               /\ e.type = "evidence_appended" => e.at = Len(log) + 1
  <2> DEFINE e == [type |-> "cursor_set", cursor |-> c]
  <2>1. e \in Stored /\ e.type # "evidence_appended"
    BY DEF Stored
  <2>2. log' = Append(log, e)
    BY <1>4 DEF Projected!SetCursor, Projected!Store
  <2> QED
    BY <2>1, <2>2
<1>5. ASSUME NEW n \in NodeId, Projected!InvalidateResumeToken(n)
      PROVE  \E e \in Stored : /\ log' = Append(log, e)
                               /\ e.type = "evidence_appended" => e.at = Len(log) + 1
  <2> DEFINE e == [type |-> "resume_token_invalidated", node |-> n]
  <2>1. e \in Stored /\ e.type # "evidence_appended"
    BY DEF Stored
  <2>2. log' = Append(log, e)
    BY <1>5 DEF Projected!InvalidateResumeToken, Projected!Store
  <2> QED
    BY <2>1, <2>2
<1> QED
  BY <1>1, <1>2, <1>3, <1>4, <1>5 DEF Projected!Next

\* Every operation keeps the invariant.
LEMMA LogStep == LogInv /\ [Projected!Next]_log => LogInv'
<1> SUFFICES ASSUME LogInv, [Projected!Next]_log PROVE LogInv'
  OBVIOUS
<1>1. CASE UNCHANGED log
  <2>1. log' = log
    BY <1>1
  <2> QED
    BY <2>1 DEF LogInv
<1>2. CASE Projected!Next
  <2>1. log \in Seq(Stored) /\ Placed(log) /\ Good(Projected!Project(log), log)
    BY DEF LogInv
  <2>2. PICK e \in Stored : /\ log' = Append(log, e)
                            /\ e.type = "evidence_appended" => e.at = Len(log) + 1
    BY <1>2, <2>1, Appended
  <2>3. Projected!Project(log') = Projected!ProjectEvent(Projected!Project(log), e)
    BY <2>1, <2>2, ProjectAppend
  <2>4. Good(Projected!Project(log'), log')
    BY <2>1, <2>2, <2>3, EventReads
  <2>5. log' \in Seq(Stored)
    BY <2>1, <2>2, OneMore
  <2>6. Placed(log')
    <3>1. /\ DOMAIN log = 1..Len(log) /\ DOMAIN log' = 1..(Len(log) + 1) /\ Len(log) \in Nat
          /\ \A i \in 1..Len(log) : log'[i] = log[i]
          /\ log'[Len(log) + 1] = e
      BY <2>1, <2>2, OneMore
    <3>2. \A i : i \in 1..(Len(log) + 1) <=> i \in 1..Len(log) \/ i = Len(log) + 1
      BY <3>1
    <3> QED
      BY <2>1, <2>2, <3>1, <3>2 DEF Placed
  <2> QED
    BY <2>4, <2>5, <2>6 DEF LogInv
<1> QED
  BY <1>1, <1>2

\* Snapshots are what the operations made of the log.
THEOREM LogInvariant == Projected!Spec => []LogInv
BY InitLog, LogStep, PTL DEF Projected!Spec

\* Whatever the operations, and however many: a load throws exactly when an
\* event of the log dangles, for any nodes and refs.
THEOREM OnlyDanglingEventsFail == Projected!Spec => []LoadFailsOnlyOnDanglingEvents
<1>1. LogInv => LoadFailsOnlyOnDanglingEvents
  <2> SUFFICES ASSUME LogInv PROVE LoadFailsOnlyOnDanglingEvents
    OBVIOUS
  <2>1. DOMAIN log = 1..Len(log)
    BY LenProperties DEF LogInv
  <2> QED
    BY <2>1 DEF LogInv, Good, LoadFailsOnlyOnDanglingEvents,
                Projected!LoadFailsOnlyOnDanglingEvents
<1> QED
  BY <1>1, LogInvariant, PTL

\* The node at a place is the one that is found under its id.
LEMMA FoundInPlace ==
  ASSUME NEW p \in Projected!Snapshot, Distinct(p), NEW i \in DOMAIN p.nodes
  PROVE  /\ Projected!Has(p, p.nodes[i].id)
         /\ Projected!Get(p, p.nodes[i].id) = p.nodes[i]
<1>1. DOMAIN p.nodes = 1..Len(p.nodes)
  BY LenProperties DEF Projected!Snapshot
<1>2. Projected!Has(p, p.nodes[i].id)
  BY DEF Projected!Has
<1>3. i = Projected!Place(p, p.nodes[i].id)
  BY <1>1, <1>2, GetFinds
<1> QED
  BY <1>2, <1>3 DEF Projected!Get

\* Whatever the operations: no upsert takes a decision, a report or a piece of
\* evidence from a node, and each is listed once and in order.
THEOREM UpsertsKeepHistory == Projected!Spec => []HistorySurvivesUpserts
<1>1. LogInv => HistorySurvivesUpserts
  <2> SUFFICES ASSUME LogInv, ~ Projected!Project(log).failed,
                      NEW i \in DOMAIN Projected!Project(log).nodes
               PROVE  Projected!History(log, Projected!Project(log).nodes[i])
    BY DEF HistorySurvivesUpserts, Projected!HistorySurvivesUpserts
  <2> QED
    BY FoundInPlace DEF LogInv, Good, Reads
<1> QED
  BY <1>1, LogInvariant, PTL

\* Whatever the operations: an invalidated token is not resumed until the node
\* is upserted again.
THEOREM InvalidatedTokensRest == Projected!Spec => []Projected!RestartRequiredUntilUpsert
<1>1. LogInv => Projected!RestartRequiredUntilUpsert
  <2> SUFFICES ASSUME LogInv, ~ Projected!Project(log).failed,
                      NEW i \in DOMAIN Projected!Project(log).nodes
               PROVE  Projected!Session(log, Projected!Project(log).nodes[i])
    BY DEF Projected!RestartRequiredUntilUpsert
  <2> DEFINE x == Projected!Project(log).nodes[i]
  <2>1. SessionOf(log, x)
    BY FoundInPlace DEF LogInv, Good, Reads
  <2> HIDE DEF x
  <2>2. Projected!About(log, "node_upsert", x.id) \subseteq DOMAIN log
    BY DEF Projected!About
  <2>3. Projected!Session(log, x)
    BY <2>1, <2>2 DEF SessionOf, Projected!Session
  <2> QED
    BY <2>3 DEF x
<1> QED
  BY <1>1, LogInvariant, PTL

\* The snapshot is well formed and lists no node twice.
THEOREM SnapshotsAreWellFormed == Projected!Spec => []Projected!TypeOK
<1>1. LogInv => Projected!TypeOK
  BY DEF LogInv, Good, Distinct, Projected!TypeOK
<1> QED
  BY <1>1, LogInvariant, PTL

\* One event more leaves the nodes that there were at their places.
LEMMA EventKeepsPlaces ==
  ASSUME NEW p \in Projected!Snapshot, Distinct(p), NEW e \in Stored,
         NEW i \in DOMAIN p.nodes
  PROVE  /\ i \in DOMAIN Projected!ProjectEvent(p, e).nodes
         /\ Projected!ProjectEvent(p, e).nodes[i].id = p.nodes[i].id
<1> DEFINE Keeps(q) == i \in DOMAIN q.nodes /\ q.nodes[i].id = p.nodes[i].id
<1>1. Keeps(p)
  OBVIOUS
<1>2. ASSUME NEW q \in Projected!Snapshot, q.nodes = p.nodes
      PROVE  /\ Keeps(Projected!Failure(q))
             /\ \A x \in Projected!Node : Keeps(Projected!Put(q, x))
  <2>1. Projected!Failure(q).nodes = p.nodes
    BY <1>2 DEF Projected!Failure, Projected!Snapshot
  <2>2. Distinct(q)
    BY <1>2, SameNodes
  <2> QED
    BY <1>2, <2>1, <2>2, PutSets
<1> HIDE DEF Keeps
<1>3. ASSUME Projected!Has(p, e.node)
      PROVE  /\ Projected!Get(p, e.node) \in Projected!Node
             /\ \A q : q.nodes = p.nodes => Projected!Get(q, e.node) = Projected!Get(p, e.node)
  BY <1>3, GetFinds, SameNodes
<1>4. ASSUME NEW old \in Projected!Node
      PROVE  /\ \A r \in Ref : [old EXCEPT !.decisions = Projected!AddOnce(@, r)] \in Projected!Node
             /\ \A r \in Ref : [old EXCEPT !.reports = Projected!AddOnce(@, r)] \in Projected!Node
             /\ \A k \in Nat : [old EXCEPT !.evidence = Append(@, k)] \in Projected!Node
             /\ [old EXCEPT !.session = "restart-required"] \in Projected!Node
  <2>1. /\ old.decisions \in Seq(Ref) /\ old.reports \in Seq(Ref) /\ old.evidence \in Seq(Nat)
    BY DEF Projected!Node
  <2>2. \A r \in Ref : /\ Projected!AddOnce(old.decisions, r) \in Seq(Ref)
                       /\ Projected!AddOnce(old.reports, r) \in Seq(Ref)
    BY <2>1, AppendProperties DEF Projected!AddOnce
  <2>3. \A k \in Nat : Append(old.evidence, k) \in Seq(Nat)
    BY <2>1, AppendProperties
  <2> QED
    BY <2>2, <2>3 DEF Projected!Node
<1>5. CASE p.failed
  BY <1>1, <1>5 DEF Projected!ProjectEvent
<1>6. CASE ~ p.failed /\ e.type = "node_upsert"
  <2> DEFINE old == IF Projected!Has(p, e.node) THEN Projected!Get(p, e.node)
                    ELSE [decisions |-> <<>>, reports |-> <<>>, evidence |-> <<>>]
             x == [id |-> e.node, session |-> e.session, decisions |-> old.decisions,
                   reports |-> old.reports, evidence |-> old.evidence]
  <2>1. old.decisions \in Seq(Ref) /\ old.reports \in Seq(Ref) /\ old.evidence \in Seq(Nat)
    <3>1. CASE Projected!Has(p, e.node)
      <4>1. old = Projected!Get(p, e.node) /\ old \in Projected!Node
        BY <1>3, <3>1
      <4> HIDE DEF old
      <4> QED
        BY <4>1 DEF Projected!Node
    <3>2. CASE ~ Projected!Has(p, e.node)
      <4>1. old.decisions = <<>> /\ old.reports = <<>> /\ old.evidence = <<>>
        BY <3>2
      <4> HIDE DEF old
      <4> QED
        BY <4>1, EmptySeq
    <3> QED
      BY <3>1, <3>2
  <2> HIDE DEF old
  <2>2. e.node \in NodeId /\ e.session \in {"none", "resumable", "restart-required"}
    BY <1>6, StoredFields
  <2>3. x \in Projected!Node
    BY <2>1, <2>2 DEF Projected!Node
  <2> HIDE DEF x
  <2>4. Projected!ProjectEvent(p, e) = Projected!Put(p, x)
    BY <1>6 DEF Projected!ProjectEvent, Projected!ProjectUpsert, x, old
  <2> QED
    BY <1>2, <2>3, <2>4 DEF Keeps
<1>7. CASE ~ p.failed /\ e.type = "decision_recorded"
  <2> DEFINE q == [p EXCEPT !.decisions = @ \cup {e.ref}]
  <2>1. e.ref \in Ref
    BY <1>7, StoredFields
  <2>2. q \in Projected!Snapshot /\ q.nodes = p.nodes
    BY <2>1 DEF Projected!Snapshot
  <2>3. Projected!ProjectEvent(p, e) =
          IF ~ Projected!Has(p, e.node) THEN Projected!Failure(q)
          ELSE Projected!Put(q, [Projected!Get(p, e.node) EXCEPT
                                   !.decisions = Projected!AddOnce(@, e.ref)])
    BY <1>7 DEF Projected!ProjectEvent, Projected!ProjectDecision
  <2>4. Projected!Has(p, e.node) =>
          [Projected!Get(p, e.node) EXCEPT !.decisions = Projected!AddOnce(@, e.ref)] \in Projected!Node
    BY <1>3, <1>4, <2>1
  <2> HIDE DEF q
  <2> QED
    BY <1>2, <2>2, <2>3, <2>4 DEF Keeps
<1>8. CASE ~ p.failed /\ e.type = "validation_report_recorded"
  <2> DEFINE q == [p EXCEPT !.reports = @ \cup {e.ref}]
  <2>1. e.ref \in Ref
    BY <1>8, StoredFields
  <2>2. q \in Projected!Snapshot /\ q.nodes = p.nodes
    BY <2>1 DEF Projected!Snapshot
  <2>3. Projected!ProjectEvent(p, e) =
          IF ~ Projected!Has(p, e.node) THEN Projected!Failure(q)
          ELSE Projected!Put(q, [Projected!Get(p, e.node) EXCEPT
                                   !.reports = Projected!AddOnce(@, e.ref)])
    BY <1>8 DEF Projected!ProjectEvent, Projected!ProjectReport
  <2>4. Projected!Has(p, e.node) =>
          [Projected!Get(p, e.node) EXCEPT !.reports = Projected!AddOnce(@, e.ref)] \in Projected!Node
    BY <1>3, <1>4, <2>1
  <2> HIDE DEF q
  <2> QED
    BY <1>2, <2>2, <2>3, <2>4 DEF Keeps
<1>9. CASE ~ p.failed /\ e.type = "evidence_appended"
  <2>1. e.at \in Nat
    BY <1>9, StoredFields
  <2>2. Projected!ProjectEvent(p, e) =
          IF ~ Projected!Has(p, e.node) THEN Projected!Failure(p)
          ELSE Projected!Put(p, [Projected!Get(p, e.node) EXCEPT !.evidence = Append(@, e.at)])
    BY <1>9 DEF Projected!ProjectEvent, Projected!ProjectEvidence
  <2>3. Projected!Has(p, e.node) =>
          [Projected!Get(p, e.node) EXCEPT !.evidence = Append(@, e.at)] \in Projected!Node
    BY <1>3, <1>4, <2>1
  <2> QED
    BY <1>2, <2>2, <2>3 DEF Keeps
<1>10. CASE ~ p.failed /\ e.type = "cursor_set"
  <2>1. Projected!ProjectEvent(p, e).nodes = p.nodes
    BY <1>10 DEF Projected!ProjectEvent, Projected!ProjectCursor, Projected!Snapshot
  <2> QED
    BY <2>1
<1>11. CASE ~ p.failed /\ e.type = "resume_token_invalidated"
  <2>1. Projected!ProjectEvent(p, e) =
          IF ~ Projected!Has(p, e.node) \/ Projected!Get(p, e.node).session = "none"
          THEN Projected!Failure(p)
          ELSE Projected!Put(p, [Projected!Get(p, e.node) EXCEPT !.session = "restart-required"])
    BY <1>11 DEF Projected!ProjectEvent, Projected!ProjectInvalidate
  <2> QED
    BY <1>2, <1>3, <1>4, <2>1 DEF Keeps
<1> QED
  BY <1>5, <1>6, <1>7, <1>8, <1>9, <1>10, <1>11, StoredFields DEF Keeps

\* Whatever the operations: loads list the nodes in the order in which they were
\* first recorded.
THEOREM PlacesAreKept == Projected!Spec => Projected!NodesKeepTheirPlace
<1> DEFINE Keep == \A i \in DOMAIN Projected!Project(log).nodes :
                     /\ i \in DOMAIN Projected!Project(log').nodes
                     /\ Projected!Project(log').nodes[i].id = Projected!Project(log).nodes[i].id
<1>1. ASSUME LogInv, [Projected!Next]_log PROVE [Keep]_log
  <2> SUFFICES ASSUME Projected!Next PROVE Keep
    BY <1>1
  <2>1. log \in Seq(Stored) /\ Good(Projected!Project(log), log)
    BY <1>1 DEF LogInv
  <2>2. PICK e \in Stored : log' = Append(log, e)
    BY <2>1, Appended
  <2>3. Projected!Project(log') = Projected!ProjectEvent(Projected!Project(log), e)
    BY <2>1, <2>2, ProjectAppend
  <2> QED
    BY <2>1, <2>3, EventKeepsPlaces DEF Good
<1> QED
  BY <1>1, LogInvariant, PTL DEF Projected!Spec, Projected!NodesKeepTheirPlace

-----------------------------------------------------------------------------
\* The WorkSource's file: its contents.

TextLine == Source!Item \cup Source!Comment \cup {Source!Garbled, Source!Text}
Rec == [kind : {"record"}, id : Title \X Nat, view : Source!View]

Checklist(c) == c \in Seq(TextLine)
List(c) == c \in Seq(Rec) /\ Len(c) <= MaxTasks

ContentOK(c) == /\ format = "markdown" => Checklist(c)
                /\ format = "json" => List(c)

\* What a line is, by its kind.
LEMMA LineKinds ==
  ASSUME NEW l \in TextLine
  PROVE  /\ l.kind \in {"item", "comment", "garbled", "text"}
         /\ l.kind = "item" => l \in Source!Item /\ l.title \in Title
         /\ l.kind = "comment" => l \in Source!Comment
BY DEF TextLine, Source!Item, Source!Comment, Source!Garbled, Source!Text

\* Part of a sequence from its start.
LEMMA FirstOnes ==
  ASSUME NEW S, NEW c \in Seq(S), NEW n \in 0..Len(c)
  PROVE  /\ SubSeq(c, 1, n) \in Seq(S) /\ Len(SubSeq(c, 1, n)) = n
         /\ \A k \in 1..n : SubSeq(c, 1, n)[k] = c[k]
<1>1. Len(c) \in Nat /\ \A k \in 1..Len(c) : c[k] \in S
  BY LenProperties, ElementOfSeq
<1>2. n \in Int /\ \A k \in 1..n : c[k] \in S
  BY <1>1
<1>3. /\ SubSeq(c, 1, n) \in Seq(S)
      /\ Len(SubSeq(c, 1, n)) = IF 1 <= n THEN n - 1 + 1 ELSE 0
      /\ \A k \in 1..(n - 1 + 1) : SubSeq(c, 1, n)[k] = c[1 + k - 1]
  BY <1>2, SubSeqProperties
<1>4. n - 1 + 1 = n /\ (IF 1 <= n THEN n - 1 + 1 ELSE 0) = n
  BY <1>1
<1>5. \A k \in 1..n : k \in 1..(n - 1 + 1) /\ 1 + k - 1 = k
  BY <1>1
<1> QED
  BY <1>3, <1>4, <1>5

\* From a place to its end.
LEMMA LastOnes ==
  ASSUME NEW S, NEW c \in Seq(S), NEW i \in 1..(Len(c) + 1)
  PROVE  /\ SubSeq(c, i, Len(c)) \in Seq(S) /\ Len(SubSeq(c, i, Len(c))) = Len(c) + 1 - i
         /\ \A k \in 1..(Len(c) + 1 - i) : SubSeq(c, i, Len(c))[k] = c[i + k - 1]
<1> DEFINE n == Len(c)
<1>1. n \in Nat /\ \A k \in 1..n : c[k] \in S
  BY LenProperties, ElementOfSeq
<1> HIDE DEF n
<1>2. i \in Int /\ n \in Int /\ i \in 1..(n + 1) /\ \A k \in i..n : c[k] \in S
  BY <1>1 DEF n
<1>3. /\ SubSeq(c, i, n) \in Seq(S)
      /\ Len(SubSeq(c, i, n)) = IF i <= n THEN n - i + 1 ELSE 0
      /\ \A k \in 1..(n - i + 1) : SubSeq(c, i, n)[k] = c[i + k - 1]
  BY <1>2, SubSeqProperties
<1>4. (IF i <= n THEN n - i + 1 ELSE 0) = n + 1 - i /\ n - i + 1 = n + 1 - i
  BY <1>1, <1>2
<1> QED
  BY <1>3, <1>4 DEF n

\* A line more.
LEMMA InsertElements ==
  ASSUME NEW S, NEW c \in Seq(S), NEW i \in 1..(Len(c) + 1), NEW l \in S
  PROVE  /\ Source!InsertAt(c, i, l) \in Seq(S)
         /\ Len(Source!InsertAt(c, i, l)) = Len(c) + 1
         /\ \A k \in 1..Len(c) : /\ k < i => Source!InsertAt(c, i, l)[k] = c[k]
                                 /\ k >= i => Source!InsertAt(c, i, l)[k + 1] = c[k]
         /\ Source!InsertAt(c, i, l)[i] = l
<1> DEFINE n == Len(c)
           a == SubSeq(c, 1, i - 1)
           z == SubSeq(c, i, n)
           b == a \o <<l>>
           m == b \o z
<1>1. n \in Nat /\ i - 1 \in 0..n /\ i \in 1..(n + 1)
  BY LenProperties
<1>2. a \in Seq(S) /\ Len(a) = i - 1 /\ \A k \in 1..(i - 1) : a[k] = c[k]
  BY <1>1, FirstOnes
<1>3. z \in Seq(S) /\ Len(z) = n + 1 - i /\ \A k \in 1..(n + 1 - i) : z[k] = c[i + k - 1]
  BY <1>1, LastOnes
<1>4. <<l>> \in Seq(S) /\ Len(<<l>>) = 1 /\ <<l>>[1] = l
  OBVIOUS
<1> HIDE DEF n, a, z
<1>5. /\ b \in Seq(S) /\ Len(b) = Len(a) + Len(<<l>>)
      /\ \A k \in 1..(Len(a) + Len(<<l>>)) : b[k] = IF k <= Len(a) THEN a[k] ELSE <<l>>[k - Len(a)]
  BY <1>2, <1>4, ConcatProperties
<1>6. /\ b \in Seq(S) /\ Len(b) = i
      /\ \A k \in 1..(i - 1) : b[k] = c[k]
      /\ b[i] = l
  <2>1. i - 1 + 1 = i /\ i \in 1..i /\ ~ (i <= i - 1) /\ i - (i - 1) = 1
    BY <1>1
  <2>2. \A k \in 1..(i - 1) : k \in 1..i /\ k <= i - 1
    BY <1>1
  <2> HIDE DEF b
  <2> QED
    BY <1>2, <1>4, <1>5, <2>1, <2>2
<1> HIDE DEF b
<1>7. /\ m \in Seq(S) /\ Len(m) = Len(b) + Len(z)
      /\ \A k \in 1..(Len(b) + Len(z)) : m[k] = IF k <= Len(b) THEN b[k] ELSE z[k - Len(b)]
  BY <1>3, <1>6, ConcatProperties
<1> HIDE DEF m
<1>8. Len(m) = n + 1
  BY <1>1, <1>3, <1>6, <1>7
<1>9. ASSUME NEW k \in 1..n, k < i PROVE m[k] = c[k]
  <2>1. k \in 1..(i - 1) /\ k \in 1..(Len(b) + Len(z)) /\ k <= Len(b)
    BY <1>1, <1>3, <1>6, <1>9
  <2> QED
    BY <1>6, <1>7, <2>1
<1>10. ASSUME NEW k \in 1..n, k >= i PROVE m[k + 1] = c[k]
  <2>1. /\ k + 1 \in 1..(Len(b) + Len(z)) /\ ~ (k + 1 <= Len(b))
        /\ k + 1 - Len(b) = k + 1 - i /\ k + 1 - i \in 1..(n + 1 - i)
        /\ i + (k + 1 - i) - 1 = k
    BY <1>1, <1>3, <1>6, <1>10
  <2> QED
    BY <1>3, <1>7, <2>1
<1>11. m[i] = l
  BY <1>1, <1>3, <1>6, <1>7
<1> QED
  BY <1>7, <1>8, <1>9, <1>10, <1>11 DEF n, a, z, b, m, Source!InsertAt

\* A line less.
LEMMA RemoveElements ==
  ASSUME NEW S, NEW c \in Seq(S), NEW i \in 1..Len(c)
  PROVE  /\ Source!RemoveAt(c, i) \in Seq(S)
         /\ Len(Source!RemoveAt(c, i)) = Len(c) - 1
         /\ \A k \in 1..(Len(c) - 1) :
              Source!RemoveAt(c, i)[k] = IF k < i THEN c[k] ELSE c[k + 1]
<1> DEFINE n == Len(c)
           a == SubSeq(c, 1, i - 1)
           z == SubSeq(c, i + 1, n)
           m == a \o z
<1>1. n \in Nat /\ i - 1 \in 0..n /\ i + 1 \in 1..(n + 1) /\ i \in 1..n
  BY LenProperties
<1>2. a \in Seq(S) /\ Len(a) = i - 1 /\ \A k \in 1..(i - 1) : a[k] = c[k]
  BY <1>1, FirstOnes
<1>3. /\ z \in Seq(S) /\ Len(z) = n + 1 - (i + 1)
      /\ \A k \in 1..(n + 1 - (i + 1)) : z[k] = c[i + 1 + k - 1]
  BY <1>1, LastOnes
<1> HIDE DEF n, a, z
<1>4. /\ m \in Seq(S) /\ Len(m) = Len(a) + Len(z)
      /\ \A k \in 1..(Len(a) + Len(z)) : m[k] = IF k <= Len(a) THEN a[k] ELSE z[k - Len(a)]
  BY <1>2, <1>3, ConcatProperties
<1> HIDE DEF m
<1>5. Len(m) = n - 1
  BY <1>1, <1>2, <1>3, <1>4
<1>6. ASSUME NEW k \in 1..(n - 1) PROVE m[k] = IF k < i THEN c[k] ELSE c[k + 1]
  <2>1. CASE k < i
    BY <1>1, <1>2, <1>3, <1>4, <2>1
  <2>2. CASE ~ (k < i)
    <3>1. /\ k \in 1..(Len(a) + Len(z)) /\ ~ (k <= Len(a))
          /\ k - Len(a) = k - i + 1 /\ k - i + 1 \in 1..(n + 1 - (i + 1))
          /\ i + 1 + (k - i + 1) - 1 = k + 1
      BY <1>1, <1>2, <1>3, <2>2
    <3> QED
      BY <1>3, <1>4, <2>2, <3>1
  <2> QED
    BY <2>1, <2>2
<1> QED
  BY <1>4, <1>5, <1>6 DEF n, a, z, m, Source!RemoveAt

-----------------------------------------------------------------------------
\* Ids in the checklist.

\* Items of one title, up to a place.
Peers(c, i) ==
  {j \in Source!ItemsAt(c) : j <= i /\ c[j].title = c[i].title}

\* The WorkSource counts as anybody.
LEMMA SameCardinality == \A S : Source!Cardinality(S) = Cardinality(S)
  BY DEF Source!Cardinality, Cardinality

\* They are finitely many, and the more the further.
LEMMA PeersFinite ==
  ASSUME NEW c \in Seq(TextLine), NEW i \in Source!ItemsAt(c)
  PROVE  /\ Source!ItemsAt(c) \subseteq 1..Len(c) /\ Len(c) \in Nat
         /\ IsFiniteSet(Peers(c, i)) /\ Cardinality(Peers(c, i)) \in Nat
         /\ Source!MarkdownId(c, i) = <<c[i].title, Cardinality(Peers(c, i))>>
<1>1. Len(c) \in Nat /\ DOMAIN c = 1..Len(c)
  BY LenProperties
<1>2. Source!ItemsAt(c) \subseteq 1..Len(c)
  BY <1>1 DEF Source!ItemsAt
<1>3. Peers(c, i) \in SUBSET (1..Len(c))
  BY <1>2 DEF Peers
<1>4. IsFiniteSet(1..Len(c))
  BY <1>1, FS_Interval
<1>5. IsFiniteSet(Peers(c, i))
  BY <1>3, <1>4, FS_Subset
<1>6. Cardinality(Peers(c, i)) \in Nat
  BY <1>5, FS_CardinalityType
<1>7. Source!MarkdownId(c, i) = <<c[i].title, Cardinality(Peers(c, i))>>
  BY SameCardinality, Zenon DEF Source!MarkdownId, Peers
<1> QED
  BY <1>1, <1>2, <1>5, <1>6, <1>7

\* So no two items have one id.
LEMMA MarkdownIdsDiffer ==
  ASSUME NEW c \in Seq(TextLine), NEW i \in Source!ItemsAt(c), NEW j \in Source!ItemsAt(c),
         Source!MarkdownId(c, i) = Source!MarkdownId(c, j)
  PROVE  i = j
<1>1. /\ i \in 1..Len(c) /\ j \in 1..Len(c) /\ Len(c) \in Nat
      /\ c[i].title = c[j].title
      /\ Cardinality(Peers(c, i)) = Cardinality(Peers(c, j))
  BY PeersFinite
<1>2. ASSUME NEW k \in Source!ItemsAt(c), NEW l \in Source!ItemsAt(c),
             c[k].title = c[l].title, Cardinality(Peers(c, k)) = Cardinality(Peers(c, l)),
             k \in 1..Len(c), l \in 1..Len(c), k < l
      PROVE  FALSE
  <2>1. Peers(c, k) \in SUBSET Peers(c, l)
    <3>1. \A p \in Source!ItemsAt(c) : p \in Nat
      BY PeersFinite
    <3>2. \A p \in Source!ItemsAt(c) : p <= k => p <= l
      BY <1>1, <1>2, <3>1
    <3> QED
      BY <1>2, <3>2 DEF Peers
  <2>2. IsFiniteSet(Peers(c, l))
    BY PeersFinite
  <2>3. Peers(c, l) = Peers(c, k)
    BY <1>2, <2>1, <2>2, FS_Subset
  <2>4. l \in Peers(c, l) /\ l \notin Peers(c, k)
    BY <1>2 DEF Peers
  <2> QED
    BY <2>3, <2>4
<1> QED
  BY <1>1, <1>2

\* Items that keep their titles and their order keep their ids, wherever they
\* move to.
LEMMA MovedIds ==
  ASSUME NEW c \in Seq(TextLine), NEW d \in Seq(TextLine), NEW s \in [1..Len(c) -> 1..Len(d)],
         \A a, b \in 1..Len(c) : a < b => s[a] < s[b],
         NEW i \in Source!ItemsAt(c),
         \A j \in Source!ItemsAt(c) : s[j] \in Source!ItemsAt(d) /\ d[s[j]].title = c[j].title,
         \A k \in Source!ItemsAt(d) : k <= s[i] => \E j \in Source!ItemsAt(c) : k = s[j]
  PROVE  Source!MarkdownId(d, s[i]) = Source!MarkdownId(c, i)
<1>1. /\ Source!ItemsAt(c) \subseteq 1..Len(c) /\ Len(c) \in Nat
      /\ IsFiniteSet(Peers(c, i))
      /\ Source!MarkdownId(c, i) = <<c[i].title, Cardinality(Peers(c, i))>>
  BY PeersFinite
<1>2. s[i] \in Source!ItemsAt(d) /\ d[s[i]].title = c[i].title
  OBVIOUS
<1>3. /\ Source!ItemsAt(d) \subseteq 1..Len(d) /\ Len(d) \in Nat
      /\ Source!MarkdownId(d, s[i]) = <<c[i].title, Cardinality(Peers(d, s[i]))>>
  BY <1>2, PeersFinite
<1>4. \A a, b \in 1..Len(c) : /\ s[a] \in Nat /\ s[b] \in Nat
                               /\ (s[a] <= s[b] <=> a <= b)
                               /\ (s[a] = s[b] <=> a = b)
  <2> SUFFICES ASSUME NEW a \in 1..Len(c), NEW b \in 1..Len(c)
               PROVE  s[a] \in Nat /\ s[b] \in Nat /\ (s[a] <= s[b] <=> a <= b) /\ (s[a] = s[b] <=> a = b)
    OBVIOUS
  <2>1. s[a] \in 1..Len(d) /\ s[b] \in 1..Len(d)
    OBVIOUS
  <2>2. s[a] \in Nat /\ s[b] \in Nat /\ a \in Nat /\ b \in Nat
    BY <1>1, <1>3, <2>1
  <2>3. (a < b => s[a] < s[b]) /\ (b < a => s[b] < s[a])
    OBVIOUS
  <2> QED
    BY <2>2, <2>3
<1> DEFINE f == [j \in Peers(c, i) |-> s[j]]
<1>5. Peers(c, i) \subseteq Source!ItemsAt(c)
  BY DEF Peers
<1>6. \A j \in Peers(c, i) : s[j] \in Peers(d, s[i])
  BY <1>1, <1>2, <1>4, <1>5 DEF Peers
<1>7. \A k \in Peers(d, s[i]) : \E j \in Peers(c, i) : k = s[j]
  BY <1>1, <1>2, <1>4 DEF Peers
<1>8. f \in Bijection(Peers(c, i), Peers(d, s[i]))
  <2>1. f \in [Peers(c, i) -> Peers(d, s[i])]
    BY <1>6
  <2>2. \A a, b \in Peers(c, i) : f[a] = f[b] => a = b
    BY <1>1, <1>4, <1>5
  <2>3. \A k \in Peers(d, s[i]) : \E j \in Peers(c, i) : f[j] = k
    BY <1>7
  <2> HIDE DEF f
  <2>4. f \in Injection(Peers(c, i), Peers(d, s[i]))
    BY <2>1, <2>2 DEF Injection, IsInjective
  <2>5. f \in Surjection(Peers(c, i), Peers(d, s[i]))
    BY <2>1, <2>3 DEF Surjection
  <2> QED
    BY <2>4, <2>5 DEF Bijection
<1>9. Cardinality(Peers(d, s[i])) = Cardinality(Peers(c, i))
  BY <1>1, <1>8, FS_Bijection DEF ExistsBijection
<1> QED
  BY <1>1, <1>3, <1>9

-----------------------------------------------------------------------------
\* Changing the comment of an item.

\* The comment of an item is one, or none that says anything.
LEMMA CommentOfIs ==
  ASSUME NEW c \in Seq(TextLine), NEW i \in Source!ItemsAt(c)
  PROVE  /\ Source!CommentOf(c, i) \in Source!Comment
         /\ c[i] \in Source!Item /\ i \in 1..Len(c)
<1>1. Source!NoComment \in Source!Comment
  BY DEF Source!NoComment, Source!Comment
<1>2. /\ i \in 1..Len(c) /\ Len(c) \in Nat /\ c[i].kind = "item"
      /\ \A k \in 1..Len(c) : c[k] \in TextLine
  BY PeersFinite, LenProperties, ElementOfSeq DEF Source!ItemsAt
<1>3. c[i] \in Source!Item
  BY <1>2, LineKinds
<1>4. CASE i < Len(c) /\ c[i + 1].kind = "comment"
  <2>1. i + 1 \in 1..Len(c)
    BY <1>2, <1>4
  <2>2. c[i + 1] \in Source!Comment
    BY <1>2, <1>4, <2>1, LineKinds
  <2> QED
    BY <1>2, <1>3, <1>4, <2>2 DEF Source!CommentOf
<1>5. CASE ~ (i < Len(c) /\ c[i + 1].kind = "comment")
  BY <1>1, <1>2, <1>3, <1>5 DEF Source!CommentOf
<1> QED
  BY <1>4, <1>5

\* The lines of c went to d, and nothing but what is seen of item i changed.
Kept(c, d, s, i) ==
  /\ s \in [1..Len(c) -> 1..Len(d)]
  /\ \A a, b \in 1..Len(c) : a < b => s[a] < s[b]
  /\ Source!ItemsAt(d) = {s[k] : k \in Source!ItemsAt(c)}
  /\ \A k \in Source!ItemsAt(c) : d[s[k]].title = c[k].title
  /\ \A k \in Source!ItemsAt(c) : k # i => Source!MarkdownView(d, s[k]) = Source!MarkdownView(c, k)

\* What is seen then.
LEMMA KeptSeen ==
  ASSUME format = "markdown", NEW c \in Seq(TextLine), NEW d \in Seq(TextLine), NEW i \in Source!ItemsAt(c),
         NEW s, Kept(c, d, s, i), NEW id, id = Source!MarkdownId(c, i)
  PROVE  /\ \A other : other # id => Source!Seen(d, other) = Source!Seen(c, other)
         /\ Source!Seen(c, id) = {Source!MarkdownView(c, i)}
         /\ Source!Seen(d, id) = {Source!MarkdownView(d, s[i])}
<1> DEFINE I == Source!ItemsAt(c)
<1>1. /\ s \in [1..Len(c) -> 1..Len(d)]
      /\ \A a, b \in 1..Len(c) : a < b => s[a] < s[b]
      /\ Source!ItemsAt(d) = {s[k] : k \in I}
      /\ \A k \in I : d[s[k]].title = c[k].title
      /\ \A k \in I : k # i => Source!MarkdownView(d, s[k]) = Source!MarkdownView(c, k)
  BY DEF Kept
<1>2. ASSUME NEW k \in I PROVE Source!MarkdownId(d, s[k]) = Source!MarkdownId(c, k)
  <2>1. \A j \in I : s[j] \in Source!ItemsAt(d)
    BY <1>1
  <2>2. \A l \in Source!ItemsAt(d) : \E j \in I : l = s[j]
    BY <1>1
  <2> QED
    BY <1>1, <2>1, <2>2, MovedIds
<1>3. \A lines, other : Source!Found(lines, other) =
          {k \in Source!ItemsAt(lines) : Source!MarkdownId(lines, k) = other}
  BY DEF Source!Found, Source!Entries, Source!IdAt
<1>4. \A lines, other : Source!Seen(lines, other) =
          {Source!MarkdownView(lines, k) : k \in Source!Found(lines, other)}
  BY DEF Source!Seen, Source!ViewAt
<1>5. \A other : Source!Found(d, other) = {s[k] : k \in Source!Found(c, other)}
  BY <1>1, <1>2, <1>3
<1>6. \A k \in I : Source!MarkdownId(c, k) = id => k = i
  BY MarkdownIdsDiffer
<1>7. Source!Found(c, id) = {i}
  BY <1>3, <1>6
<1>8. ASSUME NEW other, other # id PROVE Source!Seen(d, other) = Source!Seen(c, other)
  <2>1. \A k \in Source!Found(c, other) : k \in I /\ k # i
    BY <1>3, <1>8
  <2>2. \A k \in Source!Found(c, other) : Source!MarkdownView(d, s[k]) = Source!MarkdownView(c, k)
    BY <1>1, <2>1
  <2>3. Source!Seen(d, other) = {Source!MarkdownView(d, s[k]) : k \in Source!Found(c, other)}
    BY <1>4, <1>5
  <2> QED
    BY <1>4, <2>2, <2>3
<1>9. Source!Seen(c, id) = {Source!MarkdownView(c, i)}
  BY <1>4, <1>7
<1>10. Source!Seen(d, id) = {Source!MarkdownView(d, s[i])}
  BY <1>4, <1>5, <1>7
<1> QED
  BY <1>8, <1>9, <1>10

\* replaceMetadataLine: the lines stay, but the comment that is replaced.
LEMMA CommentedLines ==
  ASSUME NEW c \in Seq(TextLine), NEW i \in Source!ItemsAt(c), NEW m \in Source!Comment
  PROVE  /\ Source!Commented(c, i, m) \in Seq(TextLine)
         /\ \E s \in [1..Len(c) -> 1..Len(Source!Commented(c, i, m))] :
              /\ \A a, b \in 1..Len(c) : a < b => s[a] < s[b]
              /\ Source!ItemsAt(Source!Commented(c, i, m)) = {s[k] : k \in Source!ItemsAt(c)}
              /\ \A k \in Source!ItemsAt(c) :
                   /\ Source!Commented(c, i, m)[s[k]] = c[k]
                   /\ k # i => Source!CommentOf(Source!Commented(c, i, m), s[k]) =
                                 Source!CommentOf(c, k)
              /\ Source!CommentOf(Source!Commented(c, i, m), s[i]) = m
<1> DEFINE n == Len(c)
           d == Source!Commented(c, i, m)
           I == Source!ItemsAt(c)
<1>1. /\ n \in Nat /\ DOMAIN c = 1..n /\ I \subseteq 1..n /\ i \in 1..n
      /\ \A k \in 1..n : c[k] \in TextLine
      /\ \A k \in 1..n : k \in I <=> c[k].kind = "item"
      /\ m \in TextLine /\ m.kind = "comment"
  <2>1. n \in Nat /\ DOMAIN c = 1..n /\ \A k \in 1..n : c[k] \in TextLine
    BY LenProperties, ElementOfSeq
  <2>2. I \subseteq 1..n /\ \A k \in 1..n : k \in I <=> c[k].kind = "item"
    BY <2>1 DEF Source!ItemsAt
  <2>3. m \in TextLine /\ m.kind = "comment"
    BY DEF TextLine, Source!Comment
  <2> QED
    BY <2>1, <2>2, <2>3
<1>2. CASE i < n /\ c[i + 1].kind \in {"comment", "garbled"}
  <2>1. d = [c EXCEPT ![i + 1] = m]
    BY <1>2 DEF Source!Commented
  <2>2. i + 1 \in 1..n /\ i + 1 \notin I /\ i + 1 # i
    BY <1>1, <1>2
  <2>3. /\ d \in Seq(TextLine) /\ Len(d) = n
        /\ \A k \in 1..n : d[k] = IF k = i + 1 THEN m ELSE c[k]
    BY <1>1, <2>1, <2>2, ExceptSeq
  <2> DEFINE s == [k \in 1..n |-> k]
  <2> HIDE DEF d, n
  <2>4. DOMAIN d = 1..n
    BY <2>3, LenProperties
  <2>5. Source!ItemsAt(d) = I
    BY <1>1, <2>2, <2>3, <2>4 DEF Source!ItemsAt
  <2>6. {s[k] : k \in I} = I
    BY <1>1
  <2>7. s \in [1..n -> 1..Len(d)] /\ \A a, b \in 1..n : a < b => s[a] < s[b]
    BY <2>3
  <2>8. ASSUME NEW k \in I, k # i PROVE Source!CommentOf(d, k) = Source!CommentOf(c, k)
    <3>1. k \in 1..n /\ k + 1 # i + 1 /\ (k < n => k + 1 \in 1..n)
      BY <1>1, <2>8
    <3> QED
      BY <2>3, <3>1 DEF Source!CommentOf, n
  <2>9. Source!CommentOf(d, i) = m
    BY <1>1, <1>2, <2>2, <2>3 DEF Source!CommentOf
  <2>10. \A k \in I : d[k] = c[k]
    BY <1>1, <2>2, <2>3
  <2>11. \A k \in I : s[k] = k
    BY <1>1
  <2>12. s[i] = i
    BY <1>1
  <2> HIDE DEF s
  <2> QED
    BY <2>3, <2>5, <2>6, <2>7, <2>8, <2>9, <2>10, <2>11, <2>12 DEF d, n
<1>3. CASE ~ (i < n /\ c[i + 1].kind \in {"comment", "garbled"})
  <2>1. d = Source!InsertAt(c, i + 1, m) /\ i + 1 \in 1..(n + 1)
    BY <1>1, <1>3 DEF Source!Commented
  <2>2. /\ d \in Seq(TextLine) /\ Len(d) = n + 1
        /\ \A k \in 1..n : /\ k < i + 1 => d[k] = c[k]
                           /\ k >= i + 1 => d[k + 1] = c[k]
        /\ d[i + 1] = m
    <3>1. c \in Seq(TextLine) /\ i + 1 \in 1..(Len(c) + 1) /\ m \in TextLine
      BY <1>1, <2>1
    <3>2. /\ Source!InsertAt(c, i + 1, m) \in Seq(TextLine)
          /\ Len(Source!InsertAt(c, i + 1, m)) = Len(c) + 1
          /\ \A k \in 1..Len(c) :
               /\ k < i + 1 => Source!InsertAt(c, i + 1, m)[k] = c[k]
               /\ k >= i + 1 => Source!InsertAt(c, i + 1, m)[k + 1] = c[k]
          /\ Source!InsertAt(c, i + 1, m)[i + 1] = m
      BY <3>1, InsertElements
    <3> HIDE DEF d
    <3> QED
      BY <2>1, <3>2
  <2> DEFINE s == [k \in 1..n |-> IF k < i + 1 THEN k ELSE k + 1]
  <2> HIDE DEF d, n
  <2>3. DOMAIN d = 1..(n + 1)
    BY <2>2, LenProperties
  <2>4. /\ \A k \in 1..n : s[k] = IF k < i + 1 THEN k ELSE k + 1
        /\ \A k \in 1..n : s[k] \in 1..(n + 1) /\ s[k] # i + 1 /\ d[s[k]] = c[k]
    BY <1>1, <2>2
  <2>5. s \in [1..n -> 1..Len(d)]
    BY <2>2, <2>4
  <2> HIDE DEF s
  <2>6. \A a, b \in 1..n : a < b => s[a] < s[b]
    BY <1>1, <2>4
  <2>7. \A l \in 1..(n + 1) : l # i + 1 => \E k \in 1..n : l = s[k]
    <3> SUFFICES ASSUME NEW l \in 1..(n + 1), l # i + 1 PROVE \E k \in 1..n : l = s[k]
      OBVIOUS
    <3>1. CASE l < i + 1
      BY <1>1, <2>4, <3>1
    <3>2. CASE l > i + 1
      <4>1. l - 1 \in 1..n /\ ~ (l - 1 < i + 1) /\ (l - 1) + 1 = l
        BY <1>1, <3>2
      <4> QED
        BY <2>4, <4>1
    <3> QED
      BY <1>1, <3>1, <3>2
  <2>8. Source!ItemsAt(d) = {s[k] : k \in I}
    <3>1. ASSUME NEW l \in Source!ItemsAt(d) PROVE l \in {s[k] : k \in I}
      <4>1. l \in 1..(n + 1) /\ d[l].kind = "item"
        BY <2>3 DEF Source!ItemsAt
      <4>2. l # i + 1
        BY <1>1, <2>2, <4>1
      <4>3. PICK k \in 1..n : l = s[k]
        BY <2>7, <4>1, <4>2
      <4>4. k \in I
        BY <1>1, <2>4, <4>1, <4>3
      <4> QED
        BY <4>3, <4>4
    <3>2. ASSUME NEW k \in I PROVE s[k] \in Source!ItemsAt(d)
      <4>1. k \in 1..n /\ c[k].kind = "item"
        BY <1>1
      <4> QED
        BY <2>3, <2>4, <4>1 DEF Source!ItemsAt
    <3> HIDE DEF I
    <3> QED
      BY <3>1, <3>2
  <2>9. ASSUME NEW k \in I, k # i PROVE Source!CommentOf(d, s[k]) = Source!CommentOf(c, k)
    <3>1. k \in 1..n
      BY <1>1
    <3>2. CASE k < i + 1
      <4>1. k < n /\ s[k] = k /\ k + 1 \in 1..n /\ k + 1 < i + 1 /\ k < n + 1
        BY <1>1, <2>4, <2>9, <3>1, <3>2
      <4>2. d[s[k] + 1] = c[k + 1]
        BY <2>2, <4>1
      <4> QED
        BY <2>2, <4>1, <4>2 DEF Source!CommentOf, n
    <3>3. CASE ~ (k < i + 1)
      <4>1. s[k] = k + 1 /\ (s[k] < n + 1 <=> k < n)
        BY <1>1, <2>4, <3>1, <3>3
      <4>2. k < n => k + 1 \in 1..n /\ k + 1 >= i + 1
        BY <1>1, <3>1, <3>3
      <4>3. k < n => d[s[k] + 1] = c[k + 1]
        BY <2>2, <4>1, <4>2
      <4> QED
        BY <2>2, <4>1, <4>3 DEF Source!CommentOf, n
    <3> QED
      BY <3>2, <3>3
  <2>10. Source!CommentOf(d, s[i]) = m
    <3>1. s[i] = i /\ i < n + 1
      BY <1>1, <2>4
    <3> QED
      BY <1>1, <2>2, <3>1 DEF Source!CommentOf
  <2>11. \A k \in I : d[s[k]] = c[k]
    BY <1>1, <2>4
  <2> QED
    BY <2>2, <2>5, <2>6, <2>8, <2>9, <2>10, <2>11 DEF d, n
<1> QED
  BY <1>2, <1>3

\* updateTask of the checklist: the comment is new, the box and the rest stay.
LEMMA PatchedSeen ==
  ASSUME format = "markdown", NEW c \in Seq(TextLine), NEW i \in Source!ItemsAt(c), NEW def \in Definition
  PROVE  LET d == Source!Patched(c, i, def)
             id == Source!MarkdownId(c, i)
         IN /\ d \in Seq(TextLine)
            /\ \A other : other # id => Source!Seen(d, other) = Source!Seen(c, other)
            /\ Source!Seen(d, id) = {[v EXCEPT !.def = def] : v \in Source!Seen(c, id)}
<1> DEFINE m == [Source!CommentOf(c, i) EXCEPT !.def = def]
           d == Source!Patched(c, i, def)
           id == Source!MarkdownId(c, i)
<1>1. Source!CommentOf(c, i) \in Source!Comment /\ c[i] \in Source!Item
  BY CommentOfIs
<1>2. /\ m \in Source!Comment
      /\ m.status = Source!CommentOf(c, i).status /\ m.child = Source!CommentOf(c, i).child
      /\ m.def = def
  BY <1>1 DEF Source!Comment
<1>3. d = Source!Commented(c, i, m)
  BY DEF Source!Patched
<1> HIDE DEF m, d, id
<1>4. /\ d \in Seq(TextLine)
      /\ \E s \in [1..Len(c) -> 1..Len(d)] :
           /\ \A a, b \in 1..Len(c) : a < b => s[a] < s[b]
           /\ Source!ItemsAt(d) = {s[k] : k \in Source!ItemsAt(c)}
           /\ \A k \in Source!ItemsAt(c) :
                /\ d[s[k]] = c[k]
                /\ k # i => Source!CommentOf(d, s[k]) = Source!CommentOf(c, k)
           /\ Source!CommentOf(d, s[i]) = m
  BY <1>2, <1>3, CommentedLines
<1>5. PICK s \in [1..Len(c) -> 1..Len(d)] :
        /\ \A a, b \in 1..Len(c) : a < b => s[a] < s[b]
        /\ Source!ItemsAt(d) = {s[k] : k \in Source!ItemsAt(c)}
        /\ \A k \in Source!ItemsAt(c) :
             /\ d[s[k]] = c[k]
             /\ k # i => Source!CommentOf(d, s[k]) = Source!CommentOf(c, k)
        /\ Source!CommentOf(d, s[i]) = m
  BY <1>4
<1>6. \A k \in Source!ItemsAt(c) : k # i =>
        Source!MarkdownView(d, s[k]) = Source!MarkdownView(c, k)
  BY <1>5 DEF Source!MarkdownView
<1>7. Kept(c, d, s, i)
  BY <1>5, <1>6 DEF Kept
<1>8. /\ \A other : other # id => Source!Seen(d, other) = Source!Seen(c, other)
      /\ Source!Seen(c, id) = {Source!MarkdownView(c, i)}
      /\ Source!Seen(d, id) = {Source!MarkdownView(d, s[i])}
  BY <1>4, <1>7, KeptSeen DEF id
<1>9. Source!MarkdownView(d, s[i]) = [Source!MarkdownView(c, i) EXCEPT !.def = def]
  BY <1>2, <1>5 DEF Source!MarkdownView
<1> QED
  BY <1>4, <1>8, <1>9 DEF d, id

\* markStatus of the checklist: the box and the comment, together one status.
LEMMA MarkedSeen ==
  ASSUME format = "markdown", NEW c \in Seq(TextLine), NEW i \in Source!ItemsAt(c),
         NEW status \in Source!Status
  PROVE  LET d == Source!Marked(c, i, status)
             id == Source!MarkdownId(c, i)
         IN /\ d \in Seq(TextLine)
            /\ \A other : other # id => Source!Seen(d, other) = Source!Seen(c, other)
            /\ Source!Seen(d, id) = {[v EXCEPT !.status = status] : v \in Source!Seen(c, id)}
<1> DEFINE shown == IF status \in {"active", "blocked"} THEN status ELSE "none"
           m == [Source!CommentOf(c, i) EXCEPT !.status = shown]
           item == [c[i] EXCEPT !.checked = status = "done"]
           b == [c EXCEPT ![i].checked = status = "done"]
           d == Source!Marked(c, i, status)
           id == Source!MarkdownId(c, i)
           n == Len(c)
<1>1. /\ Source!CommentOf(c, i) \in Source!Comment /\ c[i] \in Source!Item
      /\ i \in 1..n /\ n \in Nat
  BY CommentOfIs, LenProperties
<1>2. /\ m \in Source!Comment
      /\ m.def = Source!CommentOf(c, i).def /\ m.child = Source!CommentOf(c, i).child
      /\ m.status = shown
  BY <1>1 DEF Source!Comment
<1>3. /\ item \in Source!Item /\ item \in TextLine
      /\ item.kind = "item" /\ item.title = c[i].title
      /\ item.checked = (status = "done")
  <2>1. (status = "done") \in BOOLEAN
    OBVIOUS
  <2>2. item \in Source!Item
    BY <1>1, <2>1 DEF Source!Item
  <2>3. item \in TextLine
    BY <2>2 DEF TextLine
  <2>4. item.title = c[i].title /\ item.checked = (status = "done")
    BY <1>1 DEF Source!Item
  <2> HIDE DEF item
  <2> QED
    BY <2>2, <2>3, <2>4 DEF Source!Item
<1>4. b = [c EXCEPT ![i] = item]
  OBVIOUS
<1>5. d = Source!Commented(b, i, m)
  BY DEF Source!Marked
<1> HIDE DEF item, b, d, m, id
<1>6. /\ b \in Seq(TextLine) /\ Len(b) = n
      /\ \A k \in 1..n : b[k] = IF k = i THEN item ELSE c[k]
  BY <1>1, <1>3, <1>4, ExceptSeq
<1>7. DOMAIN b = 1..n /\ DOMAIN c = 1..n
  BY <1>6, LenProperties
<1>8. Source!ItemsAt(b) = Source!ItemsAt(c) /\ c[i].kind = "item"
  BY <1>1, <1>3, <1>6, <1>7 DEF Source!ItemsAt, Source!Item
<1>9. ASSUME NEW k \in Source!ItemsAt(c)
      PROVE  Source!CommentOf(b, k) = Source!CommentOf(c, k)
  <2>1. k \in 1..n
    BY <1>7 DEF Source!ItemsAt
  <2>2. CASE k < n /\ k + 1 = i
    BY <1>3, <1>6, <1>8, <2>1, <2>2 DEF Source!CommentOf
  <2>3. CASE k < n /\ k + 1 # i
    <3>1. k + 1 \in 1..n
      BY <1>1, <2>1, <2>3
    <3>2. b[k + 1] = c[k + 1]
      BY <1>6, <2>3, <3>1
    <3> QED
      BY <1>6, <2>3, <3>2 DEF Source!CommentOf
  <2>4. CASE ~ (k < n)
    BY <1>6, <2>4 DEF Source!CommentOf
  <2> QED
    BY <2>2, <2>3, <2>4
<1>10. /\ d \in Seq(TextLine)
       /\ \E s \in [1..Len(b) -> 1..Len(d)] :
            /\ \A k, l \in 1..Len(b) : k < l => s[k] < s[l]
            /\ Source!ItemsAt(d) = {s[k] : k \in Source!ItemsAt(b)}
            /\ \A k \in Source!ItemsAt(b) :
                 /\ d[s[k]] = b[k]
                 /\ k # i => Source!CommentOf(d, s[k]) = Source!CommentOf(b, k)
            /\ Source!CommentOf(d, s[i]) = m
  <2>1. b \in Seq(TextLine) /\ i \in Source!ItemsAt(b) /\ m \in Source!Comment
    BY <1>2, <1>6, <1>8
  <2>2. /\ Source!Commented(b, i, m) \in Seq(TextLine)
        /\ \E s \in [1..Len(b) -> 1..Len(Source!Commented(b, i, m))] :
             /\ \A k, l \in 1..Len(b) : k < l => s[k] < s[l]
             /\ Source!ItemsAt(Source!Commented(b, i, m)) = {s[k] : k \in Source!ItemsAt(b)}
             /\ \A k \in Source!ItemsAt(b) :
                  /\ Source!Commented(b, i, m)[s[k]] = b[k]
                  /\ k # i => Source!CommentOf(Source!Commented(b, i, m), s[k])
                               = Source!CommentOf(b, k)
             /\ Source!CommentOf(Source!Commented(b, i, m), s[i]) = m
    BY <2>1, CommentedLines
  <2> QED
    BY <1>5, <2>2
<1>11. PICK s \in [1..n -> 1..Len(d)] :
         /\ \A k, l \in 1..n : k < l => s[k] < s[l]
         /\ Source!ItemsAt(d) = {s[k] : k \in Source!ItemsAt(c)}
         /\ \A k \in Source!ItemsAt(c) :
              /\ d[s[k]] = b[k]
              /\ k # i => Source!CommentOf(d, s[k]) = Source!CommentOf(b, k)
         /\ Source!CommentOf(d, s[i]) = m
  BY <1>6, <1>8, <1>10
<1>12. \A k \in Source!ItemsAt(c) : k \in 1..n
  BY <1>7 DEF Source!ItemsAt
<1>13. \A k \in Source!ItemsAt(c) : k # i =>
         Source!MarkdownView(d, s[k]) = Source!MarkdownView(c, k)
  BY <1>6, <1>9, <1>11, <1>12 DEF Source!MarkdownView
<1>14. \A k \in Source!ItemsAt(c) : d[s[k]].title = c[k].title
  BY <1>3, <1>6, <1>11, <1>12
<1>15. Kept(c, d, s, i)
  BY <1>11, <1>13, <1>14 DEF Kept
<1>16. /\ \A other : other # id => Source!Seen(d, other) = Source!Seen(c, other)
       /\ Source!Seen(c, id) = {Source!MarkdownView(c, i)}
       /\ Source!Seen(d, id) = {Source!MarkdownView(d, s[i])}
  BY <1>10, <1>15, KeptSeen DEF id
<1>17. Source!MarkdownView(d, s[i]) = [Source!MarkdownView(c, i) EXCEPT !.status = status]
  <2>1. d[s[i]] = item
    BY <1>1, <1>6, <1>11
  <2>2. d[s[i]].checked <=> status = "done"
    BY <1>3, <2>1
  <2>3. (IF d[s[i]].checked THEN "done" ELSE IF m.status = "none" THEN "todo" ELSE m.status) = status
    BY <1>2, <2>2 DEF Source!Status
  <2>4. Source!MarkdownView(d, s[i]) =
          [status |-> status, def |-> m.def, child |-> m.child]
    BY <1>11, <2>3 DEF Source!MarkdownView
  <2> QED
    BY <1>2, <2>4 DEF Source!MarkdownView
<1> QED
  BY <1>10, <1>16, <1>17 DEF d, id

\* Two lines at the end.
LEMMA TwoMore ==
  ASSUME NEW c \in Seq(TextLine), NEW item \in TextLine, NEW m \in TextLine,
         NEW d, d = c \o <<item, m>>, NEW n, n = Len(c)
  PROVE  /\ d \in Seq(TextLine) /\ Len(d) = n + 2
         /\ \A k \in 1..n : d[k] = c[k]
         /\ d[n + 1] = item /\ d[n + 2] = m
<1> DEFINE two == <<item, m>>
<1>4. d = c \o two
  OBVIOUS
<1>5. two \in Seq(TextLine) /\ Len(two) = 2 /\ two[1] = item /\ two[2] = m /\ n \in Nat
  BY LenProperties
<1> HIDE DEF two
<1>6. /\ c \o two \in Seq(TextLine) /\ Len(c \o two) = Len(c) + Len(two)
      /\ \A k \in 1..(Len(c) + Len(two)) :
           (c \o two)[k] = IF k <= Len(c) THEN c[k] ELSE two[k - Len(c)]
  BY <1>5, ConcatProperties
<1>7. /\ d \in Seq(TextLine) /\ Len(d) = n + 2
      /\ \A k \in 1..(n + 2) : d[k] = IF k <= n THEN c[k] ELSE two[k - n]
  BY <1>4, <1>5, <1>6
<1>8. /\ n + 1 \in 1..(n + 2) /\ n + 2 \in 1..(n + 2)
      /\ ~ (n + 1 <= n) /\ ~ (n + 2 <= n) /\ n + 1 - n = 1 /\ n + 2 - n = 2
      /\ \A k \in 1..n : k \in 1..(n + 2) /\ k <= n
  BY <1>5
<1>9. /\ d \in Seq(TextLine) /\ Len(d) = n + 2
      /\ \A k \in 1..n : d[k] = c[k]
      /\ d[n + 1] = item /\ d[n + 2] = m
  <2>1. \A k \in 1..n : d[k] = c[k]
    BY <1>7, <1>8
  <2>2. ASSUME NEW j \in {1, 2} PROVE d[n + j] = two[j]
    <3>1. PICK k : k = n + j
      OBVIOUS
    <3>2. k \in 1..(n + 2) /\ ~ (k <= n) /\ k - n = j
      BY <1>5, <3>1
    <3>3. d[k] = two[k - n]
      BY <1>7, <3>2
    <3> QED
      BY <3>1, <3>2, <3>3
  <2>3. d[n + 1] = two[1] /\ d[n + 2] = two[2]
    BY <2>2
  <2> QED
    BY <1>5, <1>7, <2>1, <2>3
<1> QED
  BY <1>9

\* createTask of the checklist: a task that was not there, and is there once.
LEMMA AppendedSeen ==
  ASSUME format = "markdown", NEW c \in Seq(TextLine), NEW title \in Title,
         NEW def \in Definition, NEW child \in BOOLEAN, FirstLine[title] = title
  PROVE  LET d == Source!Appended(c, title, def, child)
             id == Source!AppendedId(c, title)
         IN /\ \A other : other # id => Source!Seen(d, other) = Source!Seen(c, other)
            /\ Source!Found(c, id) = {}
            /\ Cardinality(Source!Found(d, id)) = 1
            /\ Source!Seen(d, id) = {[status |-> "todo", def |-> def, child |-> child]}
<1> DEFINE d == Source!Appended(c, title, def, child)
           id == Source!AppendedId(c, title)
           n == Len(c)
           I == Source!ItemsAt(c)
           All == {k \in I : c[k].title = title}
           item == [kind |-> "item", title |-> FirstLine[title], checked |-> FALSE]
           m == [Source!NoComment EXCEPT !.def = def, !.child = child]
<1>1. /\ d \in Seq(TextLine) /\ Len(d) = n + 2
      /\ \A k \in 1..n : d[k] = c[k]
      /\ d[n + 1] = item /\ d[n + 2] = m
  <2>1. item \in TextLine
    BY DEF TextLine, Source!Item
  <2>2. m \in TextLine
    BY DEF TextLine, Source!Comment, Source!NoComment
  <2>3. d = c \o <<item, m>>
    BY DEF Source!Appended
  <2>4. n = Len(c)
    OBVIOUS
  <2> HIDE DEF I, All, item, m, id, d, n
  <2> QED
    BY <2>1, <2>2, <2>3, <2>4, TwoMore
<1>2. /\ item.kind = "item" /\ item.title = title /\ item.checked = FALSE
      /\ m.kind = "comment" /\ m.status = "none" /\ m.def = def /\ m.child = child
  BY DEF Source!NoComment
<1>3. n \in Nat /\ DOMAIN c = 1..n /\ DOMAIN d = 1..(n + 2)
  BY <1>1, LenProperties
<1> HIDE DEF d, id, n, item, m
<1>4. I \subseteq 1..n /\ Source!ItemsAt(d) = I \cup {n + 1}
  <2>1. \A k : k \in 1..(n + 2) <=> k \in 1..n \/ k = n + 1 \/ k = n + 2
    BY <1>3
  <2> QED
    BY <1>1, <1>2, <1>3, <2>1 DEF Source!ItemsAt
<1>5. ASSUME NEW k \in I PROVE Source!MarkdownId(d, k) = Source!MarkdownId(c, k)
  <2>1. Peers(d, k) = Peers(c, k)
    <3>1. k \in 1..n /\ ~ (n + 1 <= k) /\ \A j \in I : d[j] = c[j]
      BY <1>1, <1>3, <1>4
    <3> QED
      BY <1>4, <3>1 DEF Peers
  <2>2. d[k] = c[k] /\ k \in Source!ItemsAt(d)
    BY <1>1, <1>4
  <2>3. Source!MarkdownId(d, k) = <<d[k].title, Cardinality(Peers(d, k))>>
    BY <1>1, <2>2, PeersFinite
  <2>4. Source!MarkdownId(c, k) = <<c[k].title, Cardinality(Peers(c, k))>>
    BY PeersFinite
  <2> QED
    BY <2>1, <2>2, <2>3, <2>4
<1>6. Source!MarkdownId(d, n + 1) = id
  <2>1. Peers(d, n + 1) = All \cup {n + 1}
    <3>1. \A j \in I : d[j] = c[j] /\ j <= n + 1
      BY <1>1, <1>3, <1>4
    <3>2. n + 1 <= n + 1
      BY <1>3
    <3> QED
      BY <1>1, <1>2, <1>4, <3>1, <3>2 DEF Peers
  <2>2. All \in SUBSET (1..n) /\ IsFiniteSet(1..n) /\ n + 1 \notin All
    BY <1>3, <1>4, FS_Interval
  <2>3. IsFiniteSet(All)
    BY <2>2, FS_Subset
  <2>4. Cardinality(All \cup {n + 1}) = Cardinality(All) + 1 /\ Cardinality(All) \in Nat
    BY <2>2, <2>3, FS_AddElement, FS_CardinalityType
  <2>5. id = <<title, 1 + Cardinality(All)>>
    BY SameCardinality, Zenon DEF id, Source!AppendedId
  <2>6. Source!MarkdownId(d, n + 1) = <<d[n + 1].title, Cardinality(Peers(d, n + 1))>>
    BY <1>1, <1>4, PeersFinite
  <2>7. d[n + 1].title = title
    BY <1>1, <1>2
  <2>8. Cardinality(Peers(d, n + 1)) = 1 + Cardinality(All)
    <3>1. Cardinality(Peers(d, n + 1)) = Cardinality(All) + 1 /\ Cardinality(All) \in Nat
      BY <2>1, <2>4, Zenon
    <3> HIDE DEF All
    <3> QED
      BY <3>1
  <2> QED
    BY <2>5, <2>6, <2>7, <2>8
<1>7. ASSUME NEW k \in I PROVE Source!MarkdownId(c, k) # id
  <2>1. k \in Source!ItemsAt(d) /\ n + 1 \in Source!ItemsAt(d) /\ k # n + 1
    BY <1>3, <1>4
  <2> QED
    BY <1>1, <1>5, <1>6, <2>1, MarkdownIdsDiffer
<1>8. \A lines, other : Source!Found(lines, other) =
          {k \in Source!ItemsAt(lines) : Source!MarkdownId(lines, k) = other}
  BY DEF Source!Found, Source!Entries, Source!IdAt
<1>9. \A lines, other : Source!Seen(lines, other) =
          {Source!MarkdownView(lines, k) : k \in Source!Found(lines, other)}
  BY DEF Source!Seen, Source!ViewAt
<1>10. Source!Found(c, id) = {}
  BY <1>7, <1>8
<1>11. Source!Found(d, id) = {n + 1}
  BY <1>4, <1>5, <1>6, <1>7, <1>8
<1>12. Cardinality(Source!Found(d, id)) = 1
  BY <1>11, FS_Singleton
<1>13. Source!MarkdownView(d, n + 1) = [status |-> "todo", def |-> def, child |-> child]
  <2>1. Source!CommentOf(d, n + 1) = m
    <3>1. n + 1 < n + 2 /\ (n + 1) + 1 = n + 2
      BY <1>3
    <3> QED
      BY <1>1, <1>2, <3>1 DEF Source!CommentOf
  <2> QED
    BY <1>1, <1>2, <2>1 DEF Source!MarkdownView
<1>14. Source!Seen(d, id) = {[status |-> "todo", def |-> def, child |-> child]}
  BY <1>9, <1>11, <1>13
<1>15. ASSUME NEW other, other # id PROVE Source!Seen(d, other) = Source!Seen(c, other)
  <2>1. Source!Found(d, other) = Source!Found(c, other)
    BY <1>4, <1>5, <1>6, <1>8, <1>15
  <2>2. ASSUME NEW k \in I PROVE Source!MarkdownView(d, k) = Source!MarkdownView(c, k)
    <3>1. k \in 1..n /\ d[k] = c[k]
      BY <1>1, <1>4
    <3>2. Source!CommentOf(d, k) = Source!CommentOf(c, k)
      <4>1. CASE k < n
        <5>1. k + 1 \in 1..n /\ k < n + 2
          BY <1>3, <3>1, <4>1
        <5>2. d[k + 1] = c[k + 1]
          BY <1>1, <5>1
        <5> QED
          BY <1>1, <4>1, <5>1, <5>2 DEF Source!CommentOf, n
      <4>2. CASE k = n
        <5>1. ~ (k < n) /\ d[k + 1].kind = "item"
          BY <1>1, <1>2, <1>3, <4>2
        <5> QED
          BY <5>1 DEF Source!CommentOf, n
      <4> QED
        BY <1>3, <3>1, <4>1, <4>2
    <3> QED
      BY <3>1, <3>2 DEF Source!MarkdownView
  <2>3. Source!Found(c, other) \subseteq I
    BY <1>8
  <2> HIDE DEF I
  <2> QED
    BY <1>9, <2>1, <2>2, <2>3
<1> QED
  BY <1>10, <1>12, <1>14, <1>15 DEF d, id

-----------------------------------------------------------------------------
\* The JSON list.

\* What is to be found and seen in a list.
LEMMA InList ==
  ASSUME format = "json", NEW c
  PROVE  /\ Source!Entries(c) = DOMAIN c
         /\ \A id, k : k \in Source!Found(c, id) <=> k \in DOMAIN c /\ c[k].id = id
         /\ \A other, v : v \in Source!Seen(c, other) <=> \E l \in Source!Found(c, other) : v = c[l].view
BY DEF Source!Entries, Source!Found, Source!Seen, Source!IdAt, Source!ViewAt

\* So many numbers there are up to a number.
LEMMA CountTo ==
  ASSUME NEW n \in Nat
  PROVE  IsFiniteSet(1..n) /\ Cardinality(1..n) = n
<1>1. IsFiniteSet(1..n) /\ Cardinality(1..n) = IF 1 > n THEN 0 ELSE n - 1 + 1
  BY FS_Interval
<1>2. (IF 1 > n THEN 0 ELSE n - 1 + 1) = n
  OBVIOUS
<1> QED
  BY <1>1, <1>2

\* There is an id that no record has, for there are more numbers than records.
LEMMA FreeIdIsFree ==
  ASSUME MaxTasks \in Nat, NEW c \in Seq(Rec), Len(c) <= MaxTasks, NEW title \in Title
  PROVE  /\ Source!FreeId(c, title) \in Title \X Nat
         /\ \A k \in 1..Len(c) : c[k].id # Source!FreeId(c, title)
<1> DEFINE used == {c[k].id : k \in DOMAIN c}
           N == 1..MaxTasks + 1
           Free == {n \in N : <<title, n>> \notin used}
           Least(n) == <<title, n>> \notin used /\ \A k \in 1..n - 1 : <<title, k>> \in used
<1>1. Len(c) \in Nat /\ DOMAIN c = 1..Len(c) /\ MaxTasks + 1 \in Nat /\ N \subseteq Nat
  BY LenProperties
<1>2. Free # {}
  <2> SUFFICES ASSUME Free = {} PROVE FALSE
    OBVIOUS
  <2> DEFINE T == 1..Len(c)
             f == [n \in N |-> CHOOSE k \in T : c[k].id = <<title, n>>]
  <2>1. ASSUME NEW n \in N PROVE \E k \in T : c[k].id = <<title, n>>
    BY <1>1
  <2>2. \A n \in N : f[n] \in T /\ c[f[n]].id = <<title, n>>
    BY <2>1
  <2>3. f \in [N -> T]
    BY <2>2
  <2>4. /\ IsFiniteSet(N) /\ Cardinality(N) = MaxTasks + 1
        /\ IsFiniteSet(T) /\ Cardinality(T) = Len(c)
    BY <1>1, CountTo
  <2>5. Cardinality(T) < Cardinality(N)
    BY <1>1, <2>4
  <2> HIDE DEF f, T, N
  <2>6. \E x, y \in N : x # y /\ f[x] = f[y]
    BY <2>3, <2>4, <2>5, FS_PigeonHole
  <2> QED
    BY <2>2, <2>6
<1>3. PICK n \in Free : \A k \in Free : n <= k
  <2>1. Free \subseteq Nat
    BY <1>1
  <2> HIDE DEF Free
  <2> QED
    BY <1>2, <2>1, LeastOfAll
<1>4. n \in N /\ Least(n)
  <2>1. n \in N /\ n \in Nat /\ <<title, n>> \notin used
    BY <1>1
  <2>2. ASSUME NEW k \in 1..n - 1, <<title, k>> \notin used PROVE FALSE
    <3>1. k \in N /\ ~ (n <= k)
      BY <1>1, <2>1
    <3> QED
      BY <1>3, <2>2, <3>1
  <2> QED
    BY <2>1, <2>2
<1>5. Source!FreeId(c, title) = <<title, CHOOSE k \in N : Least(k)>>
  BY DEF Source!FreeId
<1> HIDE DEF Least, N
<1>6. (CHOOSE k \in N : Least(k)) \in N /\ Least(CHOOSE k \in N : Least(k))
  BY <1>4
<1>7. PICK k \in N : Least(k) /\ Source!FreeId(c, title) = <<title, k>>
  BY <1>5, <1>6
<1>8. <<title, k>> \in Title \X Nat /\ <<title, k>> \notin used
  BY <1>1, <1>7 DEF Least
<1> QED
  BY <1>1, <1>7, <1>8

\* Of two lists: the second is the first with another record for all of an id.
RecordReplaced(c, d, r) ==
  /\ List(c) /\ r \in Rec /\ \E i \in 1..Len(c) : c[i].id = r.id
  /\ d = Source!Replaced(c, r)

\* The second is the first with a record more, that was not there.
RecordAppended(c, d, r) ==
  /\ List(c) /\ Len(c) < MaxTasks /\ MaxTasks \in Nat
  /\ r \in Rec /\ \A k \in 1..Len(c) : c[k].id # r.id
  /\ d \in Seq(Rec) /\ Len(d) = Len(c) + 1
  /\ d[Len(c) + 1] = r /\ \A k \in 1..Len(c) : d[k] = c[k]

\* Of the one id there is something else to be seen, the others are as they were.
LEMMA RecordChanged ==
  ASSUME format = "json", NEW c, NEW d, NEW r, RecordReplaced(c, d, r)
  PROVE  /\ List(d)
         /\ \A other : other # r.id => Source!Seen(d, other) = Source!Seen(c, other)
         /\ Source!Seen(d, r.id) = {r.view}
<1>0. /\ c \in Seq(Rec) /\ Len(c) <= MaxTasks /\ Len(c) \in Nat /\ DOMAIN c = 1..Len(c)
      /\ r \in Rec /\ \E i \in 1..Len(c) : c[i].id = r.id
      /\ d = [i \in 1..Len(c) |-> IF c[i].id = r.id THEN r ELSE c[i]]
  BY LenProperties DEF RecordReplaced, List, Source!Replaced
<1>1. \A k \in 1..Len(c) : c[k] \in Rec
  BY <1>0, ElementOfSeq
<1>2. d \in [1..Len(c) -> Rec]
  BY <1>0, <1>1
<1>3. /\ d \in Seq(Rec) /\ Len(d) = Len(c) /\ DOMAIN d = 1..Len(c)
      /\ \A k \in 1..Len(c) : d[k] = IF c[k].id = r.id THEN r ELSE c[k]
  <2>1. d \in Seq(Rec)
    BY <1>0, <1>2, SeqDef
  <2>2. DOMAIN d = 1..Len(c) /\ DOMAIN d = 1..Len(d) /\ Len(d) \in Nat
    BY <1>2, <2>1, LenProperties
  <2> QED
    BY <1>0, <2>1, <2>2
<1>4. /\ \A other, k : k \in Source!Found(c, other) <=> k \in 1..Len(c) /\ c[k].id = other
      /\ \A other, v : v \in Source!Seen(c, other)
           <=> \E l \in Source!Found(c, other) : v = c[l].view
  BY <1>0, InList
<1>5. /\ \A other, k : k \in Source!Found(d, other) <=> k \in 1..Len(c) /\ d[k].id = other
      /\ \A other, v : v \in Source!Seen(d, other)
           <=> \E l \in Source!Found(d, other) : v = d[l].view
  BY <1>3, InList
<1>6. \A other, k : k \in Source!Found(d, other) <=> k \in Source!Found(c, other)
  <2>1. \A k \in 1..Len(c) : d[k].id = c[k].id
    BY <1>3
  <2> QED
    BY <2>1, <1>4, <1>5
<1>7. ASSUME NEW other, other # r.id PROVE Source!Seen(d, other) = Source!Seen(c, other)
  <2>1. \A k \in Source!Found(c, other) : d[k] = c[k]
    BY <1>3, <1>4, <1>7
  <2>2. \A v : v \in Source!Seen(d, other) <=> v \in Source!Seen(c, other)
    BY <1>4, <1>5, <1>6, <2>1
  <2> QED
    BY <2>2, <1>4, <1>5
<1>8. Source!Seen(d, r.id) = {r.view}
  <2>1. \A k \in Source!Found(d, r.id) : d[k] = r
    BY <1>3, <1>4, <1>6
  <2>2. \E k : k \in Source!Found(d, r.id)
    BY <1>0, <1>4, <1>6
  <2>3. \A v : v \in Source!Seen(d, r.id) <=> v = r.view
    BY <1>5, <2>1, <2>2
  <2> QED
    BY <2>3, <1>5
<1> QED
  BY <1>0, <1>3, <1>7, <1>8 DEF List

\* One record more, that was not there.
LEMMA RecordAdded ==
  ASSUME format = "json", NEW c, NEW d, NEW r, RecordAppended(c, d, r), NEW id, id = r.id
  PROVE  /\ List(d)
         /\ \A other : other # id => Source!Seen(d, other) = Source!Seen(c, other)
         /\ Source!Found(c, id) = {} /\ Cardinality(Source!Found(d, id)) = 1
         /\ Source!Seen(d, id) = {r.view}
<1> DEFINE n == Len(c)
<1>0. /\ List(c) /\ n < MaxTasks /\ MaxTasks \in Nat
      /\ r \in Rec /\ r.id = id /\ \A k \in 1..n : c[k].id # id
      /\ d \in Seq(Rec) /\ Len(d) = n + 1
      /\ d[n + 1] = r /\ \A k \in 1..n : d[k] = c[k]
  BY DEF RecordAppended
<1>1. c \in Seq(Rec) /\ n <= MaxTasks /\ n \in Nat
  BY <1>0, LenProperties DEF List
<1>2. d \in Seq(Rec) /\ Len(d) = n + 1 /\ d[n + 1] = r /\ \A k \in 1..n : d[k] = c[k]
  BY <1>0
<1>3. DOMAIN c = 1..n /\ DOMAIN d = 1..(n + 1)
  BY <1>1, <1>2, LenProperties
<1>33. /\ \A other, k : k \in Source!Found(c, other) <=> k \in 1..n /\ c[k].id = other
       /\ \A other, v : v \in Source!Seen(c, other)
            <=> \E l \in Source!Found(c, other) : v = c[l].view
  BY <1>3, InList
<1>34. /\ \A other, k : k \in Source!Found(d, other) <=> k \in 1..(n + 1) /\ d[k].id = other
       /\ \A other, v : v \in Source!Seen(d, other)
            <=> \E l \in Source!Found(d, other) : v = d[l].view
  BY <1>3, InList
<1>4. \A k : k \in 1..(n + 1) <=> k \in 1..n \/ k = n + 1
  BY <1>1
<1>5. List(d)
  BY <1>0, <1>1, <1>2, <1>4 DEF List
<1>6. Source!Found(c, id) = {}
  <2>1. \A k : k \notin Source!Found(c, id)
    BY <1>0, <1>3, <1>33, <1>34
  <2> QED
    BY <2>1, <1>33, <1>34
<1>7. Source!Found(d, id) = {n + 1}
  <2>1. \A k : k \in Source!Found(d, id) <=> k = n + 1
    BY <1>0, <1>2, <1>3, <1>4, <1>33, <1>34
  <2> QED
    BY <2>1, <1>33, <1>34
<1>8. ASSUME NEW other, other # id PROVE Source!Seen(d, other) = Source!Seen(c, other)
  <2>1. \A k : k \in Source!Found(d, other) <=> k \in Source!Found(c, other)
    BY <1>0, <1>2, <1>3, <1>4, <1>8, <1>33, <1>34
  <2>2. \A k \in Source!Found(c, other) : d[k] = c[k]
    BY <1>2, <1>3, <1>33, <1>34
  <2>3. \A v : v \in Source!Seen(d, other) <=> v \in Source!Seen(c, other)
    BY <2>1, <2>2, <1>33, <1>34
  <2> QED
    BY <2>3, <1>33, <1>34
<1>9. Cardinality(Source!Found(d, id)) = 1
  BY <1>7, FS_Singleton, Zenon
<1>10. Source!Seen(d, id) = {r.view}
  <2>1. \A v : v \in Source!Seen(d, id) <=> v = r.view
    BY <1>0, <1>7, <1>34
  <2> QED
    BY <2>1
<1> QED
  BY <1>5, <1>6, <1>8, <1>9, <1>10

-----------------------------------------------------------------------------
\* A call: what it makes of what it has read.

\* The entry that a call finds.
LEMMA FoundEntry ==
  ASSUME format \in {"markdown", "json"}, NEW c, ContentOK(c), NEW id, Source!Found(c, id) # {},
         NEW i, i = Source!First(c, id)
  PROVE  /\ format = "markdown" =>
              /\ i \in Source!ItemsAt(c) /\ Source!MarkdownId(c, i) = id
              /\ Source!Seen(c, id) = {Source!ViewAt(c, i)}
         /\ format = "json" =>
              i \in 1..Len(c) /\ c[i].id = id /\ Source!ViewAt(c, i) = c[i].view
<1>1. c \in Seq(TextLine) \/ c \in Seq(Rec)
  BY DEF ContentOK, Checklist, List
<1>2. DOMAIN c = 1..Len(c) /\ Len(c) \in Nat
  BY <1>1, LenProperties
<1>3. Source!Found(c, id) \subseteq Nat
  BY <1>2 DEF Source!Found, Source!Entries, Source!ItemsAt
<1>4. \E k \in Source!Found(c, id) : \A j \in Source!Found(c, id) : k <= j
  BY <1>3, LeastOfAll
<1>5. i \in Source!Found(c, id)
  BY <1>4 DEF Source!First
<1>6. i \in Source!Entries(c) /\ Source!IdAt(c, i) = id
  BY <1>5 DEF Source!Found
<1>7. CASE format = "markdown"
  <2>1. c \in Seq(TextLine)
    BY <1>7 DEF ContentOK, Checklist
  <2>2. \A k : k \in Source!Found(c, id) <=> k \in Source!ItemsAt(c) /\ Source!MarkdownId(c, k) = id
    BY <1>7 DEF Source!Found, Source!Entries, Source!IdAt
  <2>3. i \in Source!ItemsAt(c) /\ Source!MarkdownId(c, i) = id
    BY <1>5, <2>2
  <2>4. \A k \in Source!Found(c, id) : k = i
    BY <2>1, <2>2, <2>3, MarkdownIdsDiffer
  <2>5. Source!Found(c, id) = {i}
    BY <1>5, <2>4
  <2> QED
    BY <1>7, <2>3, <2>5 DEF Source!Seen
<1>8. CASE format = "json"
  BY <1>2, <1>6, <1>8 DEF Source!Entries, Source!IdAt, Source!ViewAt
<1> QED
  BY <1>7, <1>8

\* markStatus, of the checklist and of the list.
LEMMA MarkChangesOne ==
  ASSUME format \in {"markdown", "json"}, NEW c, ContentOK(c),
         NEW k \in Source!Mark, Source!Found(c, k.id) # {}, NEW d, d = Source!Outcome(c, k)
  PROVE  ContentOK(d) /\ Source!ChangesOneTask(c, d, k, Source!IdOf(c, k))
<1>1. k.op = "mark" /\ k.status \in Source!Status
  BY DEF Source!Mark
<1>2. Source!IdOf(c, k) = k.id
  BY <1>1 DEF Source!IdOf
<1>3. PICK i : i = Source!First(c, k.id)
  OBVIOUS
<1>4. /\ format = "markdown" =>
           /\ i \in Source!ItemsAt(c) /\ Source!MarkdownId(c, i) = k.id
           /\ Source!Seen(c, k.id) = {Source!ViewAt(c, i)}
      /\ format = "json" =>
           i \in 1..Len(c) /\ c[i].id = k.id /\ Source!ViewAt(c, i) = c[i].view
  BY <1>3, FoundEntry
<1>5. ASSUME \A other : other # k.id => Source!Seen(d, other) = Source!Seen(c, other),
             Source!Seen(d, k.id) = {[Source!ViewAt(c, i) EXCEPT !.status = k.status]}
      PROVE  Source!ChangesOneTask(c, d, k, Source!IdOf(c, k))
  BY <1>1, <1>2, <1>3, <1>5 DEF Source!ChangesOneTask
<1>6. CASE format = "markdown"
  <2>1. d = Source!Marked(c, i, k.status)
    BY <1>1, <1>3, <1>6 DEF Source!Outcome
  <2>2. c \in Seq(TextLine)
    BY <1>6 DEF ContentOK, Checklist
  <2>3. /\ d \in Seq(TextLine)
        /\ \A other : other # k.id => Source!Seen(d, other) = Source!Seen(c, other)
        /\ Source!Seen(d, k.id) = {[v EXCEPT !.status = k.status] : v \in Source!Seen(c, k.id)}
    BY <1>1, <1>4, <1>6, <2>1, <2>2, MarkedSeen
  <2>4. Source!Seen(d, k.id) = {[Source!ViewAt(c, i) EXCEPT !.status = k.status]}
    BY <1>4, <1>6, <2>3
  <2> QED
    BY <1>5, <1>6, <2>3, <2>4 DEF ContentOK, Checklist
<1>7. CASE format = "json"
  <2> DEFINE v == [c[i].view EXCEPT !.status = k.status]
             r == [c[i] EXCEPT !.view = v]
  <2>1. List(c) /\ i \in 1..Len(c) /\ c[i].id = k.id /\ Source!ViewAt(c, i) = c[i].view
    BY <1>4, <1>7 DEF ContentOK
  <2>2. c[i] \in Rec
    BY <2>1, ElementOfSeq DEF List
  <2>3. d = Source!Replaced(c, [c[i] EXCEPT !.view.status = k.status])
    BY <1>1, <1>3, <1>7 DEF Source!Outcome
  <2>4. d = Source!Replaced(c, r)
    BY <2>3
  <2>5. v \in Source!View
    BY <1>1, <2>2 DEF Rec, Source!View
  <2> HIDE DEF v
  <2>6. r \in Rec /\ r.id = k.id /\ r.view = v
    BY <2>1, <2>2, <2>5 DEF Rec
  <2> HIDE DEF r
  <2>7. RecordReplaced(c, d, r)
    BY <2>1, <2>4, <2>6 DEF RecordReplaced
  <2>8. /\ List(d)
        /\ \A other : other # k.id => Source!Seen(d, other) = Source!Seen(c, other)
        /\ Source!Seen(d, k.id) = {v}
    <3>1. /\ List(d)
          /\ \A other : other # r.id => Source!Seen(d, other) = Source!Seen(c, other)
          /\ Source!Seen(d, r.id) = {r.view}
      BY <1>7, <2>7, RecordChanged
    <3> QED
      BY <2>6, <3>1
  <2>9. v = [Source!ViewAt(c, i) EXCEPT !.status = k.status]
    BY <2>1 DEF v
  <2> QED
    BY <1>5, <1>7, <2>8, <2>9 DEF ContentOK
<1> QED
  BY <1>6, <1>7

\* patchTask, of the checklist and of the list.
LEMMA PatchChangesOne ==
  ASSUME format \in {"markdown", "json"}, NEW c, ContentOK(c),
         NEW k \in Source!Patch, Source!Found(c, k.id) # {}, NEW d, d = Source!Outcome(c, k)
  PROVE  ContentOK(d) /\ Source!ChangesOneTask(c, d, k, Source!IdOf(c, k))
<1>1. k.op = "patch" /\ k.def \in Definition
  BY DEF Source!Patch
<1>2. Source!IdOf(c, k) = k.id
  BY <1>1 DEF Source!IdOf
<1>3. PICK i : i = Source!First(c, k.id)
  OBVIOUS
<1>4. /\ format = "markdown" =>
           /\ i \in Source!ItemsAt(c) /\ Source!MarkdownId(c, i) = k.id
           /\ Source!Seen(c, k.id) = {Source!ViewAt(c, i)}
      /\ format = "json" =>
           i \in 1..Len(c) /\ c[i].id = k.id /\ Source!ViewAt(c, i) = c[i].view
  BY <1>3, FoundEntry
<1>5. ASSUME \A other : other # k.id => Source!Seen(d, other) = Source!Seen(c, other),
             Source!Seen(d, k.id) = {[Source!ViewAt(c, i) EXCEPT !.def = k.def]}
      PROVE  Source!ChangesOneTask(c, d, k, Source!IdOf(c, k))
  BY <1>1, <1>2, <1>3, <1>5 DEF Source!ChangesOneTask
<1>6. CASE format = "markdown"
  <2>1. d = Source!Patched(c, i, k.def)
    BY <1>1, <1>3, <1>6 DEF Source!Outcome
  <2>2. c \in Seq(TextLine)
    BY <1>6 DEF ContentOK, Checklist
  <2>3. /\ d \in Seq(TextLine)
        /\ \A other : other # k.id => Source!Seen(d, other) = Source!Seen(c, other)
        /\ Source!Seen(d, k.id) = {[v EXCEPT !.def = k.def] : v \in Source!Seen(c, k.id)}
    BY <1>1, <1>4, <1>6, <2>1, <2>2, PatchedSeen
  <2>4. Source!Seen(d, k.id) = {[Source!ViewAt(c, i) EXCEPT !.def = k.def]}
    BY <1>4, <1>6, <2>3
  <2> QED
    BY <1>5, <1>6, <2>3, <2>4 DEF ContentOK, Checklist
<1>7. CASE format = "json"
  <2> DEFINE v == [c[i].view EXCEPT !.def = k.def]
             r == [c[i] EXCEPT !.view = v]
  <2>1. List(c) /\ i \in 1..Len(c) /\ c[i].id = k.id /\ Source!ViewAt(c, i) = c[i].view
    BY <1>4, <1>7 DEF ContentOK
  <2>2. c[i] \in Rec
    BY <2>1, ElementOfSeq DEF List
  <2>3. d = Source!Replaced(c, [c[i] EXCEPT !.view.def = k.def])
    BY <1>1, <1>3, <1>7 DEF Source!Outcome
  <2>4. d = Source!Replaced(c, r)
    BY <2>3
  <2>5. v \in Source!View
    BY <1>1, <2>2 DEF Rec, Source!View
  <2> HIDE DEF v
  <2>6. r \in Rec /\ r.id = k.id /\ r.view = v
    BY <2>1, <2>2, <2>5 DEF Rec
  <2> HIDE DEF r
  <2>7. RecordReplaced(c, d, r)
    BY <2>1, <2>4, <2>6 DEF RecordReplaced
  <2>8. /\ List(d)
        /\ \A other : other # k.id => Source!Seen(d, other) = Source!Seen(c, other)
        /\ Source!Seen(d, k.id) = {v}
    <3>1. /\ List(d)
          /\ \A other : other # r.id => Source!Seen(d, other) = Source!Seen(c, other)
          /\ Source!Seen(d, r.id) = {r.view}
      BY <1>7, <2>7, RecordChanged
    <3> QED
      BY <2>6, <3>1
  <2>9. v = [Source!ViewAt(c, i) EXCEPT !.def = k.def]
    BY <2>1 DEF v
  <2> QED
    BY <1>5, <1>7, <2>8, <2>9 DEF ContentOK
<1> QED
  BY <1>6, <1>7

\* createTask, of the checklist and of the list.
LEMMA CreateChangesOne ==
  ASSUME format \in {"markdown", "json"}, NEW c, ContentOK(c), Source!FileAssumption,
         NEW k \in Source!Create, format = "json" => Len(c) < MaxTasks,
         NEW d, d = Source!Outcome(c, k)
  PROVE  ContentOK(d) /\ Source!ChangesOneTask(c, d, k, Source!IdOf(c, k))
<1>1. /\ k.op = "create" /\ k.title \in Title /\ k.def \in Definition /\ k.child \in BOOLEAN
      /\ FirstLine[k.title] \in Title /\ MaxTasks \in Nat
  BY DEF Source!Create, Source!FileAssumption
<1> DEFINE id == Source!IdOf(c, k)
<1>2. ASSUME \A other : other # id => Source!Seen(d, other) = Source!Seen(c, other),
             Source!Found(c, id) = {} /\ Cardinality(Source!Found(d, id)) = 1,
             Source!Seen(d, id) = {[status |-> "todo", def |-> k.def, child |-> k.child]}
      PROVE  Source!ChangesOneTask(c, d, k, id)
  <2>1. Source!Cardinality(Source!Found(d, id)) = 1
    BY <1>2, SameCardinality
  <2> HIDE DEF id
  <2> QED
    BY <1>1, <1>2, <2>1 DEF Source!ChangesOneTask
<1>3. CASE format = "markdown"
  <2>1. d = Source!Appended(c, k.title, k.def, k.child)
    BY <1>1, <1>3 DEF Source!Outcome
  <2>2. c \in Seq(TextLine) /\ id = Source!AppendedId(c, k.title)
    BY <1>1, <1>3 DEF ContentOK, Checklist, Source!IdOf
  <2>3. d \in Seq(TextLine)
    <3> DEFINE item == [kind |-> "item", title |-> FirstLine[k.title], checked |-> FALSE]
               m == [Source!NoComment EXCEPT !.def = k.def, !.child = k.child]
    <3>1. item \in TextLine
      BY <1>1 DEF TextLine, Source!Item
    <3>2. m \in TextLine
      BY <1>1 DEF TextLine, Source!Comment, Source!NoComment
    <3>3. Source!Text \in TextLine
      BY DEF TextLine
    <3>4. \/ d = c \o <<item, m>>
          \/ d = c \o <<item, Source!Text, m>>
      BY <2>1 DEF Source!Appended
    <3> HIDE DEF item, m
    <3>5. <<item, m>> \in Seq(TextLine) /\ <<item, Source!Text, m>> \in Seq(TextLine)
      BY <3>1, <3>2, <3>3
    <3> QED
      BY <2>2, <3>4, <3>5, ConcatProperties
  <2>4. CASE FirstLine[k.title] = k.title
    <3>1. /\ \A other : other # id => Source!Seen(d, other) = Source!Seen(c, other)
          /\ Source!Found(c, id) = {}
          /\ Cardinality(Source!Found(d, id)) = 1
          /\ Source!Seen(d, id) = {[status |-> "todo", def |-> k.def, child |-> k.child]}
      BY <1>1, <1>3, <2>1, <2>2, <2>4, AppendedSeen
    <3> QED
      BY <1>2, <1>3, <2>3, <3>1 DEF ContentOK, Checklist
  <2>5. CASE FirstLine[k.title] # k.title
    <3>1. Source!ChangesOneTask(c, d, k, id)
      BY <1>1, <2>5 DEF Source!ChangesOneTask
    <3> QED
      BY <1>3, <2>3, <3>1 DEF ContentOK, Checklist
  <2> QED
    BY <2>4, <2>5
<1>4. CASE format = "json"
  <2> DEFINE v == [status |-> "todo", def |-> k.def, child |-> k.child]
             r == Source!NewRecord(c, k.title, k.def, k.child)
  <2>1. List(c) /\ Len(c) < MaxTasks /\ c \in Seq(Rec) /\ Len(c) <= MaxTasks
    BY <1>4 DEF ContentOK, List
  <2>2. /\ id = Source!FreeId(c, k.title) /\ id \in Title \X Nat
        /\ \A l \in 1..Len(c) : c[l].id # id
    <3>1. id = Source!FreeId(c, k.title)
      BY <1>1, <1>4 DEF Source!IdOf
    <3> HIDE DEF id
    <3> QED
      BY <1>1, <2>1, <3>1, FreeIdIsFree
  <2>3. d = Append(c, r)
    BY <1>1, <1>4 DEF Source!Outcome
  <2>4. v \in Source!View
    BY <1>1 DEF Source!View, Source!Status
  <2>5. r = [kind |-> "record", id |-> id, view |-> v]
    BY <2>2 DEF Source!NewRecord
  <2> HIDE DEF id, v, r
  <2>6. r \in Rec /\ r.id = id /\ r.view = v
    BY <2>2, <2>4, <2>5 DEF Rec
  <2>7. RecordAppended(c, d, r)
    BY <1>1, <2>1, <2>2, <2>3, <2>6, AppendProperties DEF RecordAppended
  <2>8. /\ List(d)
        /\ \A other : other # id => Source!Seen(d, other) = Source!Seen(c, other)
        /\ Source!Found(c, id) = {} /\ Cardinality(Source!Found(d, id)) = 1
        /\ Source!Seen(d, id) = {r.view}
    BY <1>4, <2>6, <2>7, RecordAdded
  <2> QED
    BY <1>2, <1>4, <2>6, <2>8 DEF ContentOK, v, id
<1> QED
  BY <1>3, <1>4

-----------------------------------------------------------------------------
\* What a human makes of a file is one again.

\* A record as a human writes it.
LEMMA NewRecordIs ==
  ASSUME Source!FileAssumption, NEW c, List(c), NEW title \in Title, NEW def \in Definition
  PROVE  Source!NewRecord(c, title, def, FALSE) \in Rec
<1> DEFINE id == Source!FreeId(c, title)
           v == [status |-> "todo", def |-> def, child |-> FALSE]
<1>1. c \in Seq(Rec) /\ Len(c) <= MaxTasks /\ MaxTasks \in Nat
  BY DEF List, Source!FileAssumption
<1>2. id \in Title \X Nat
  BY <1>1, FreeIdIsFree
<1>3. v \in Source!View
  BY DEF Source!View, Source!Status
<1> DEFINE r == Source!NewRecord(c, title, def, FALSE)
<1>4. r = [kind |-> "record", id |-> id, view |-> v]
  BY DEF Source!NewRecord
<1> HIDE DEF id, v, r
<1>5. r \in Rec
  BY <1>2, <1>3, <1>4 DEF Rec
<1> QED
  BY <1>5 DEF r

\* A record with another definition is one, copied or not.
LEMMA RewrittenIs ==
  ASSUME NEW c, List(c), NEW i \in DOMAIN c, NEW def \in Definition
  PROVE  [c[i] EXCEPT !.view.def = def] \in Rec
<1> DEFINE v == [c[i].view EXCEPT !.def = def]
<1>1. c[i] \in Rec
  BY ElementOfSeq, LenProperties DEF List
<1>2. v \in Source!View
  BY <1>1 DEF Rec, Source!View
<1>3. [c[i] EXCEPT !.view.def = def] = [c[i] EXCEPT !.view = v]
  OBVIOUS
<1> HIDE DEF v
<1> QED
  BY <1>1, <1>2, <1>3 DEF Rec

\* A record less.
LEMMA ListWithoutOne ==
  ASSUME MaxTasks \in Nat, NEW c, List(c), NEW i \in 1..Len(c)
  PROVE  List(Source!RemoveAt(c, i))
<1>1. c \in Seq(Rec) /\ Len(c) <= MaxTasks /\ Len(c) \in Nat
  BY LenProperties DEF List
<1>2. Source!RemoveAt(c, i) \in Seq(Rec) /\ Len(Source!RemoveAt(c, i)) = Len(c) - 1
  BY <1>1, RemoveElements
<1> QED
  BY <1>1, <1>2 DEF List

\* A record more, when there was room for it.
LEMMA ListWithOneMore ==
  ASSUME format = "json", NEW c, List(c), NEW i \in 1..(Len(c) + 1), NEW r \in Rec,
         NEW d, d = Source!InsertAt(c, i, r),
         Source!Cardinality(Source!Entries(d)) <= MaxTasks
  PROVE  List(d)
<1>1. d \in Seq(Rec)
  BY InsertElements DEF List
<1>2. Source!Entries(d) = 1..Len(d) /\ Len(d) \in Nat
  BY <1>1, LenProperties DEF Source!Entries
<1>3. Source!Cardinality(Source!Entries(d)) = Len(d)
  BY <1>2, CountTo, SameCardinality
<1> QED
  BY <1>1, <1>3 DEF List

\* What an edit makes of a file.
Edited(c, d) ==
  /\ \/ \E i \in DOMAIN c : d = Source!RemoveAt(c, i)
     \/ /\ format = "markdown"
        /\ \/ \E i \in 1..Len(c) + 1, l \in Source!Item \cup {Source!Text, Source!Garbled} :
                d = Source!InsertAt(c, i, l)
           \/ \E i \in Source!ItemsAt(c) : d = [c EXCEPT ![i].checked = ~ @]
     \/ /\ format = "json"
        /\ \/ \E i \in 1..Len(c) + 1, t \in Title, e \in Definition :
                d = Source!InsertAt(c, i, Source!NewRecord(c, t, e, FALSE))
           \/ \E i \in DOMAIN c, e \in Definition : d = [c EXCEPT ![i].view.def = e]
           \/ \E i \in 1..Len(c) + 1, k \in DOMAIN c, e \in Definition :
                d = Source!InsertAt(c, i, [c[k] EXCEPT !.view.def = e])
  /\ Source!Cardinality(Source!Entries(d)) <= MaxTasks

\* Every edit leaves a file that is one.
LEMMA EditsAreContents ==
  ASSUME Source!FileAssumption, format \in {"markdown", "json"}, NEW c, ContentOK(c),
         NEW d, Edited(c, d)
  PROVE  ContentOK(d)
<1>1. CASE \E i \in DOMAIN c : d = Source!RemoveAt(c, i)
  <2>1. PICK i \in DOMAIN c : d = Source!RemoveAt(c, i)
    BY <1>1
  <2>2. CASE format = "markdown"
    <3>1. c \in Seq(TextLine) /\ i \in 1..Len(c)
      BY <2>1, <2>2, LenProperties DEF ContentOK, Checklist
    <3> QED
      BY <2>1, <2>2, <3>1, RemoveElements DEF ContentOK, Checklist
  <2>3. CASE format = "json"
    <3>1. List(c) /\ i \in 1..Len(c)
      BY <2>1, <2>3, LenProperties DEF ContentOK, List
    <3> QED
      BY <2>1, <2>3, <3>1, ListWithoutOne DEF ContentOK, Source!FileAssumption
  <2> QED
    BY <2>2, <2>3
<1>2. CASE /\ format = "markdown"
           /\ \E i \in 1..Len(c) + 1, l \in Source!Item \cup {Source!Text, Source!Garbled} :
                d = Source!InsertAt(c, i, l)
  <2>1. PICK i \in 1..Len(c) + 1, l \in Source!Item \cup {Source!Text, Source!Garbled} :
             d = Source!InsertAt(c, i, l)
    BY <1>2
  <2>2. c \in Seq(TextLine) /\ l \in TextLine
    BY <1>2, <2>1 DEF ContentOK, Checklist, TextLine
  <2> QED
    BY <1>2, <2>1, <2>2, InsertElements DEF ContentOK, Checklist
<1>3. CASE format = "markdown" /\ \E i \in Source!ItemsAt(c) : d = [c EXCEPT ![i].checked = ~ @]
  <2>1. PICK i \in Source!ItemsAt(c) : d = [c EXCEPT ![i].checked = ~ @]
    BY <1>3
  <2> DEFINE l == [c[i] EXCEPT !.checked = ~ @]
  <2>2. c \in Seq(TextLine)
    BY <1>3 DEF ContentOK, Checklist
  <2>3. c[i] \in Source!Item /\ i \in 1..Len(c)
    BY <2>2, CommentOfIs
  <2>4. l \in TextLine
    BY <2>3 DEF TextLine, Source!Item
  <2>5. d = [c EXCEPT ![i] = l]
    BY <2>1
  <2> HIDE DEF l
  <2>6. d \in Seq(TextLine)
    BY <2>2, <2>3, <2>4, <2>5, ExceptSeq
  <2> QED
    BY <1>3, <2>6 DEF ContentOK, Checklist
<1>4. CASE format = "json" /\ \E i \in 1..Len(c) + 1, t \in Title, e \in Definition :
                                d = Source!InsertAt(c, i, Source!NewRecord(c, t, e, FALSE))
  <2>1. PICK i \in 1..Len(c) + 1, t \in Title, e \in Definition :
             d = Source!InsertAt(c, i, Source!NewRecord(c, t, e, FALSE))
    BY <1>4
  <2>2. List(c)
    BY <1>4 DEF ContentOK
  <2>3. Source!NewRecord(c, t, e, FALSE) \in Rec
    BY <2>2, NewRecordIs
  <2>4. List(d)
    BY <1>4, <2>1, <2>2, <2>3, ListWithOneMore DEF Edited
  <2> QED
    BY <1>4, <2>4 DEF ContentOK
<1>5. CASE format = "json" /\ \E i \in DOMAIN c, e \in Definition : d = [c EXCEPT ![i].view.def = e]
  <2>1. PICK i \in DOMAIN c, e \in Definition : d = [c EXCEPT ![i].view.def = e]
    BY <1>5
  <2> DEFINE r == [c[i] EXCEPT !.view.def = e]
  <2>2. List(c) /\ c \in Seq(Rec) /\ i \in 1..Len(c)
    BY <1>5, <2>1, LenProperties DEF ContentOK, List
  <2>3. r \in Rec
    BY <2>2, RewrittenIs
  <2>4. d = [c EXCEPT ![i] = r]
    BY <2>1
  <2> HIDE DEF r
  <2>5. d \in Seq(Rec) /\ Len(d) = Len(c)
    BY <2>2, <2>3, <2>4, ExceptSeq
  <2> QED
    BY <1>5, <2>2, <2>5 DEF ContentOK, List
<1>6. CASE format = "json" /\ \E i \in 1..Len(c) + 1, k \in DOMAIN c, e \in Definition :
                                d = Source!InsertAt(c, i, [c[k] EXCEPT !.view.def = e])
  <2>1. PICK i \in 1..Len(c) + 1, k \in DOMAIN c, e \in Definition :
             d = Source!InsertAt(c, i, [c[k] EXCEPT !.view.def = e])
    BY <1>6
  <2>2. List(c)
    BY <1>6 DEF ContentOK
  <2>3. [c[k] EXCEPT !.view.def = e] \in Rec
    BY <2>2, RewrittenIs
  <2>4. List(d)
    BY <1>6, <2>1, <2>2, <2>3, ListWithOneMore DEF Edited
  <2> QED
    BY <1>6, <2>4 DEF ContentOK
<1> QED
  BY <1>1, <1>2, <1>3, <1>4, <1>5, <1>6 DEF Edited

-----------------------------------------------------------------------------
\* The calls, the kills and the edits.

\* The call under way is one, and its task was there when the file was read; of
\* a list there was room for one more.
CallIs(c, k) ==
  /\ ContentOK(c)
  /\ k \in Source!Mark \cup Source!Patch \cup Source!Create
  /\ k \notin Source!Create => Source!Found(c, k.id) # {}
  /\ k \in Source!Create /\ format = "json" => Len(c) < MaxTasks

SourceInv ==
  /\ format \in {"markdown", "json"}
  /\ Source!Readable(content) => ContentOK(content)
  /\ at = "read" => CallIs(held, call)

\* A call makes a content of a content, and changes one task of it.
LEMMA CallsAreContents ==
  ASSUME Source!FileAssumption, format \in {"markdown", "json"}, NEW c, NEW k, CallIs(c, k),
         NEW d, d = Source!Outcome(c, k)
  PROVE  ContentOK(d) /\ Source!ChangesOneTask(c, d, k, Source!IdOf(c, k))
<1>1. CASE k \in Source!Mark
  <2>1. k \notin Source!Create
    BY <1>1 DEF Source!Mark, Source!Create
  <2> QED
    BY <1>1, <2>1, MarkChangesOne DEF CallIs
<1>2. CASE k \in Source!Patch
  <2>1. k \notin Source!Create
    BY <1>2 DEF Source!Patch, Source!Create
  <2> QED
    BY <1>2, <2>1, PatchChangesOne DEF CallIs
<1>3. CASE k \in Source!Create
  BY <1>3, CreateChangesOne DEF CallIs
<1> QED
  BY <1>1, <1>2, <1>3 DEF CallIs

\* A write cut short leaves the first lines, or JSON that is not or is empty.
LEMMA CutShort ==
  ASSUME format \in {"markdown", "json"}, NEW c, ContentOK(c),
         NEW d, d \in IF format = "json" THEN {<<>>, <<Source!Torn>>}
                      ELSE {SubSeq(c, 1, n) : n \in 0..Len(c)},
         Source!Readable(d), MaxTasks \in Nat
  PROVE  ContentOK(d)
<1>1. CASE format = "json" /\ d = <<>>
  <2>1. d \in Seq(Rec) /\ Len(d) = 0
    BY <1>1
  <2> QED
    BY <1>1, <2>1 DEF ContentOK, List
<1>2. CASE format = "json" /\ d = <<Source!Torn>>
  <2>1. 1 \in DOMAIN d /\ d[1] = Source!Torn
    BY <1>2
  <2>2. Source!Torn \in Source!Range(d)
    BY <2>1 DEF Source!Range
  <2> QED
    BY <2>2 DEF Source!Readable
<1>3. CASE format = "markdown"
  <2>1. PICK n \in 0..Len(c) : d = SubSeq(c, 1, n)
    BY <1>3
  <2>2. c \in Seq(TextLine)
    BY <1>3 DEF ContentOK, Checklist
  <2>3. d \in Seq(TextLine)
    BY <2>1, <2>2, FirstOnes
  <2> QED
    BY <1>3, <2>3 DEF ContentOK, Checklist
<1> QED
  BY <1>1, <1>2, <1>3

\* At first the file is empty.
LEMMA SourceInit ==
  ASSUME Source!FileAssumption, Source!Init
  PROVE  SourceInv
<1>1. content \in Seq(TextLine) /\ content \in Seq(Rec) /\ Len(content) = 0 /\ at # "read"
  BY DEF Source!Init
<1>2. ContentOK(content)
  BY <1>1 DEF ContentOK, Checklist, List, Source!FileAssumption
<1> QED
  BY <1>1, <1>2 DEF SourceInv, Source!Init

\* What a call reads, it works on.
LEMMA ReadKeeps ==
  ASSUME Source!FileAssumption, SourceInv,
         NEW c \in Source!Mark \cup Source!Patch \cup Source!Create, Source!Read(c)
  PROVE  SourceInv'
<1>1. /\ Source!Readable(content) /\ held' = content /\ call' = c
      /\ format' = format /\ content' = content
      /\ c.op = "create" => Source!Cardinality(Source!Entries(content)) < MaxTasks
      /\ c.op # "create" => Source!Found(content, c.id) # {}
      /\ format \in {"markdown", "json"} /\ ContentOK(content)
  BY DEF Source!Read, SourceInv
<1>2. c \notin Source!Create => c.op # "create"
  BY DEF Source!Mark, Source!Patch, Source!Create
<1>3. ASSUME c \in Source!Create, format = "json" PROVE Len(content) < MaxTasks
  <2>1. c.op = "create"
    BY <1>3 DEF Source!Create
  <2>2. content \in Seq(Rec)
    BY <1>1, <1>3 DEF ContentOK, List
  <2>3. Source!Entries(content) = 1..Len(content) /\ Len(content) \in Nat
    BY <1>3, <2>2, LenProperties DEF Source!Entries
  <2>4. Source!Cardinality(Source!Entries(content)) = Len(content)
    BY <2>3, CountTo, SameCardinality
  <2> QED
    BY <1>1, <2>1, <2>4
<1>4. CallIs(content, c)
  BY <1>1, <1>2, <1>3 DEF CallIs
<1>5. CallIs(held, call)'
  BY <1>1, <1>4 DEF CallIs, ContentOK, Source!Found, Source!Entries, Source!IdAt
<1>6. ContentOK(content)'
  BY <1>1 DEF ContentOK
<1> QED
  BY <1>1, <1>5, <1>6 DEF SourceInv

\* What it makes of it, it writes; killed on the way, some of it is there.
LEMMA WriteKeeps ==
  ASSUME Source!FileAssumption, SourceInv, Source!Write \/ Source!Killed
  PROVE  SourceInv'
<1> USE DEF Source!FileAssumption
<1>1. /\ at = "read" /\ at' = "idle" /\ format' = format /\ format \in {"markdown", "json"}
      /\ CallIs(held, call)
      /\ Source!Readable(content) => ContentOK(content)
  BY DEF SourceInv, Source!Write, Source!Killed
<1>2. PICK c, k : c = held /\ k = call
  OBVIOUS
<1>3. PICK written : written = Source!Outcome(c, k)
  OBVIOUS
<1>4. ContentOK(written)
  BY <1>1, <1>2, <1>3, CallsAreContents
<1>5. PICK d : d = content'
  OBVIOUS
<1>6. Source!Readable(d) => ContentOK(d)
  <2>1. CASE Source!Write
    BY <1>2, <1>3, <1>4, <1>5, <2>1 DEF Source!Write
  <2>2. CASE Source!Killed
    <3>1. \/ d = content
          \/ d \in IF format = "json" THEN {<<>>, <<Source!Torn>>}
                   ELSE {SubSeq(written, 1, n) : n \in 0..Len(written)}
      BY <1>2, <1>3, <1>5, <2>2 DEF Source!Killed
    <3> QED
      BY <1>1, <1>4, <3>1, CutShort
  <2> QED
    BY <2>1, <2>2
<1>7. Source!Readable(content') => ContentOK(content')
  BY <1>5, <1>6
<1>8. (Source!Readable(content) => ContentOK(content))'
  BY <1>1, <1>7 DEF ContentOK, Source!Readable
<1> QED
  BY <1>1, <1>8 DEF SourceInv

\* A human edits the file, or puts it right, whatever is under way.
LEMMA EditKeeps ==
  ASSUME Source!FileAssumption, SourceInv, Source!Edit \/ Source!Repair
  PROVE  SourceInv'
<1>1. /\ format' = format /\ format \in {"markdown", "json"}
      /\ held' = held /\ call' = call /\ at' = at
      /\ at = "read" => CallIs(held, call)
  BY DEF SourceInv, Source!Edit, Source!Repair
<1>2. PICK d : d = content'
  OBVIOUS
<1>3. ContentOK(d)
  <2>1. CASE Source!Edit
    <3>1. ContentOK(content)
      BY <2>1 DEF SourceInv, Source!Edit
    <3>2. Edited(content, d)
      BY <1>2, <2>1 DEF Source!Edit, Edited
    <3>3. PICK c : c = content
      OBVIOUS
    <3> QED
      BY <1>1, <3>1, <3>2, <3>3, EditsAreContents
  <2>2. CASE Source!Repair
    <3>1. d = <<>>
      BY <1>2, <2>2 DEF Source!Repair
    <3>2. d \in Seq(TextLine) /\ d \in Seq(Rec) /\ Len(d) = 0
      BY <3>1
    <3> QED
      BY <3>2 DEF ContentOK, Checklist, List, Source!FileAssumption
  <2> QED
    BY <2>1, <2>2
<1>4. ContentOK(content)'
  BY <1>1, <1>2, <1>3 DEF ContentOK
<1>5. (at = "read" => CallIs(held, call))'
  BY <1>1 DEF CallIs, ContentOK, Source!Found, Source!Entries, Source!IdAt
<1> QED
  BY <1>1, <1>4, <1>5 DEF SourceInv

\* So it is of every step.
LEMMA SourceNext ==
  ASSUME Source!FileAssumption, SourceInv, [Source!Next]_Source!vars
  PROVE  SourceInv'
<1>1. CASE Source!Next
  BY <1>1, ReadKeeps, WriteKeeps, EditKeeps DEF Source!Next
<1>2. CASE UNCHANGED Source!vars
  BY <1>2 DEF Source!vars, SourceInv, CallIs, ContentOK, Source!Found, Source!Entries,
              Source!IdAt, Source!Readable
<1> QED
  BY <1>1, <1>2

\* A write that nobody got in between of changes the task of its call, in what
\* the call is about, and nothing that is to be seen of another.
LEMMA WriteChangesOneTask ==
  ASSUME Source!FileAssumption, SourceInv, Source!Write, held = content
  PROVE  Source!ChangesOneTask(content, content', call, Source!IdOf(content, call))
<1>1. PICK c, k, d : c = content /\ k = call /\ d = content'
  OBVIOUS
<1>2. CallIs(c, k) /\ d = Source!Outcome(c, k) /\ format \in {"markdown", "json"}
  BY <1>1 DEF SourceInv, Source!Write
<1>3. Source!ChangesOneTask(c, d, k, Source!IdOf(c, k))
  BY <1>2, CallsAreContents
<1> QED
  BY <1>1, <1>3

\* For every set of titles and definitions, of the checklist and of the list: a
\* markStatus, updateTask or createTask that no edit came in between of changes
\* one task, whatever humans wrote before and wherever earlier calls were killed.
THEOREM CallsLeaveOthersAlone == Source!Spec => CallsChangeOneTask
<1> USE SourceAssumption
<1>1. Source!Init => SourceInv
  BY SourceInit
<1>2. SourceInv /\ [Source!Next]_Source!vars => SourceInv'
  BY SourceNext
<1>3. SourceInv /\ [Source!Next]_Source!vars =>
        [Source!Write /\ held = content =>
           Source!ChangesOneTask(content, content', call, Source!IdOf(content, call))]_Source!vars
  BY WriteChangesOneTask
<1> QED
  BY <1>1, <1>2, <1>3, PTL DEF Source!Spec, CallsChangeOneTask, Source!CallsChangeOneTask
=============================================================================
