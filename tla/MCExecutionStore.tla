-------------------------- MODULE MCExecutionStore --------------------------
(***************************************************************************)
(* The three of ExecutionStore side by side. They share nothing; a behaviour  *)
(* is one of one side, the others rest.                                      *)
(*                                                                          *)
(* Log: two operations to tell apart, one with a character outside ASCII, and *)
(* room for enough lines that a torn tail can follow acknowledged ones, be    *)
(* repaired and be torn again.                                               *)
(* Projection: two nodes, so that an event can name the wrong one; two refs,  *)
(* so that order and repetition show; logs long enough for an upsert, an      *)
(* event, a second upsert and another event.                                  *)
(* WorkSource: two tasks, of the same title or not, one title of two lines,    *)
(* and one edit by hand, or a kill, between any two steps.                    *)
(*                                                                          *)
(* Nodes, refs and definitions are alike, so that TLC may swap them.          *)
(***************************************************************************)
EXTENDS ExecutionStore, TLC

CONSTANTS opA, opB, n1, n2, r1, r2, t1, t2, d1, d2

VARIABLE side

MCEvent == {opA, opB}
MCWide == {opB}
MCNodeId == {n1, n2}
MCRef == {r1, r2}
MCTitle == {t1, t2}
MCDefinition == {d1, d2}
MCFirstLine == (t1 :> t1) @@ (t2 :> t1)
MCSymmetry == Permutations({d1, d2}) \cup Permutations({n1, n2}) \cup Permutations({r1, r2})

ASSUME Source!FileAssumption

MCInit ==
  /\ side \in {"log", "projection", "source"}
  /\ Init /\ Projected!Init /\ Source!Init
  /\ side # "source" => format = "json"

MCNext ==
  \/ side = "log" /\ Next /\ UNCHANGED <<side, log, sourceVars>>
  \/ side = "projection" /\ Projected!Next /\ UNCHANGED <<side, vars, sourceVars>>
  \/ side = "source" /\ Source!Next /\ UNCHANGED <<side, vars, log>>

MCSpec == MCInit /\ [][MCNext]_<<side, vars, log, sourceVars>>
=============================================================================
