----------------------------- MODULE MCLeafRun -----------------------------
(***************************************************************************)
(* One task. Every write to the WorkSource takes a revision that nothing in *)
(* use has, so that six of them are enough for the nodes, the listing and   *)
(* the task; the sessions are counted in the same way.                      *)
(***************************************************************************)
EXTENDS LeafRun

CONSTANTS a, r0, r1, r2, r3, r4, r5, d1, d2, s1, s2, s3, default, none

MCTask == {a}
MCRevision == {r0, r1, r2, r3, r4, r5}
MCDefinition == {d1, d2}
MCSession == {s1, s2, s3}
=============================================================================
