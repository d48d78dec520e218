------------------------------- MODULE MCWave -------------------------------
(***************************************************************************)
(* A parent, two children, and a third that one of them may ask for. Every   *)
(* write to the WorkSource takes a revision that nothing in use has; six of  *)
(* them are enough, and as many sessions.                                    *)
(***************************************************************************)
EXTENDS Wave

CONSTANTS r0, r1, r2, r3, r4, r5, d1, d2, s1, s2, s3, s4, s5, s6, default, none

MCRevision == {r0, r1, r2, r3, r4, r5}
MCDefinition == {d1, d2}
MCSession == {s1, s2, s3, s4, s5, s6}

\* A kill comes in behaviours without a retry or a pause, an edit in those without
\* any of the three: what they do, they do one at a time.
\* What becomes of a follow-up is looked at in MCRuns.
OneAtATime ==
  LET tried == \E t \in Task, n \in NodeId : nodes[t][n].retry > 0
      paused == "paused" \in {result, outcome}
  IN  /\ crashes > 0 => ~ tried /\ ~ paused
      /\ edits > 0 => ~ tried /\ ~ paused /\ crashes = 0
      /\ \A c \in Child \ Planned : ~ Present(c)
=============================================================================
