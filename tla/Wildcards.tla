----------------------------- MODULE Wildcards -----------------------------
(***************************************************************************)
(* The patterns of the Decision Policy Engine: tool names in its static     *)
(* rules and surfaces that siblings own.  A pattern is what split("*")      *)
(* makes of its text, a sequence of segments, one more than it has          *)
(* asterisks; a text is a sequence of characters.                           *)
(***************************************************************************)
EXTENDS Naturals, Sequences, FiniteSets, SequencesExt

CONSTANT Character   \* what texts and segments are made of

Pattern == Seq(Seq(Character)) \ {<<>>}

Star == "*"

HasStar(p) == Len(p) > 1

\* The pattern written out, asterisks included.
Text(p) == FoldLeft(LAMBDA t, seg : t \o <<Star>> \o seg, p[1], Tail(p))

LiteralPrefix(p) == p[1]

OccursAt(seg, v, i) == SubSeq(v, i + 1, i + Len(seg)) = seg

\* indexOf: the first occurrence of seg in v at or after from, if there is one.
Occurrences(seg, v, from) == {i \in from..(Len(v) - Len(seg)) : OccursAt(seg, v, i)}
IndexOf(seg, v, from) ==
  CHOOSE i \in Occurrences(seg, v, from) : \A j \in Occurrences(seg, v, from) : i <= j

EndsWith(v, seg) == Len(seg) <= Len(v) /\ OccursAt(seg, v, Len(v) - Len(seg))

\* The scan, as where in v each segment ends: the first must begin the text, every
\* later one is taken where it first occurs after the one before. At most one.
Scan(p, v) ==
  {at \in [DOMAIN p -> 0..Len(v)] :
     /\ IsPrefix(p[1], v) /\ at[1] = Len(p[1])
     /\ \A k \in DOMAIN p \ {1} :
          /\ Occurrences(p[k], v, at[k - 1]) # {}
          /\ at[k] = IndexOf(p[k], v, at[k - 1]) + Len(p[k])}

\* Mutation: the text may go on after the last segment.
WildcardPrefixMatches(p, v) ==
  IF HasStar(p) THEN Scan(p, v) # {} ELSE p = <<v>>

\* toolNameMatches and wildcardMatches are the same function.
WildcardMatches(p, v) ==
  IF HasStar(p) THEN Scan(p, v) # {} /\ EndsWith(v, p[Len(p)]) ELSE p = <<v>>

\* Mutation: two patterns are compared as texts only.
TextsOverlap(left, right) ==
  \/ left = right
  \/ /\ HasStar(left) \/ HasStar(right)
     /\ \/ WildcardMatches(left, Text(right))
        \/ WildcardMatches(right, Text(left))

\* Two surfaces overlap when one covers the other as a text, or when one of
\* them has an asterisk and their literal beginnings agree.
IdentifiersOverlap(left, right) ==
  \/ left = right
  \/ /\ HasStar(left) \/ HasStar(right)
     /\ \/ WildcardMatches(left, Text(right))
        \/ WildcardMatches(right, Text(left))
        \/ IsPrefix(LiteralPrefix(left), LiteralPrefix(right))
        \/ IsPrefix(LiteralPrefix(right), LiteralPrefix(left))

----------------------------------------------------------------------------
(* What a pattern means: a text is cut into the segments with anything in   *)
(* the places of the asterisks.                                             *)

Names(p, v) ==
  \E cut \in [DOMAIN p -> 0..Len(v)] :
    /\ cut[1] = 0
    /\ \A i \in DOMAIN p : cut[i] + Len(p[i]) <= Len(v) /\ OccursAt(p[i], v, cut[i])
    /\ \A i \in DOMAIN p \ {1} : cut[i - 1] + Len(p[i - 1]) <= cut[i]
    /\ cut[Len(p)] + Len(p[Len(p)]) = Len(v)

\* Do two patterns name a common text among these?
Share(left, right, texts) == \E v \in texts : Names(left, v) /\ Names(right, v)
=============================================================================
