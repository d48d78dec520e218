------------------------------ MODULE MCKatana ------------------------------
(***************************************************************************)
(* The loop and the store of documents, side by side. A behaviour is one of  *)
(* one side, the other rests.                                                *)
(*                                                                          *)
(* Loop: a story, its scaffold and the task that fills the scaffold in. Two  *)
(* calls at a time, on two documents or on one, so that a task is worked on  *)
(* while its scaffold is and a call finds the document as the other leaves it; *)
(* three in all, two of them on the scaffold.                                *)
(* Store: codes have nothing in common but the counter: one is enough to run  *)
(* out of codes, two to take the code of another document. Two directories,  *)
(* so that a document can be found twice or move.                             *)
(***************************************************************************)
EXTENDS Katana, TLC

VARIABLE side

MCDoc == {"US", "TH", "TL"}
BodyWith(sections, exit, children, listed) ==
  [sections |-> sections, exit |-> exit, children |-> children, listed |-> listed]
Good == BodyWith("written", "checked", "sorted", {"TH", "TL"})
Bad == BodyWith("nested", "open", "unsorted", {"TH", Dangling})
MCBody == {Good, Bad}

TaskOf(level, pass, phase, scaffold, flag) ==
  [level |-> level, phase |-> phase, tag |-> phase, flag |-> flag, fields |-> TRUE, named |-> TRUE,
   parent |-> "US", scaffold |-> scaffold, pass |-> pass, body |-> Bad]
StoryIn(phase) ==
  [level |-> "user-story", phase |-> phase, tag |-> phase, flag |-> FALSE, fields |-> TRUE,
   named |-> TRUE, parent |-> Dangling, scaffold |-> NoDoc, pass |-> "none",
   body |-> Bad]
WorkspaceOf(story, high, low) ==
  [code \in MCDoc |-> CASE code = "US" -> story [] code = "TH" -> high [] code = "TL" -> low]
Early(scaffold) ==
  WorkspaceOf(StoryIn("ready"), TaskOf("task-high-pass", "high", "todo", NoDoc, TRUE),
              TaskOf("task-low-pass", "low", "todo", scaffold, FALSE))
Late(pass) ==
  WorkspaceOf(StoryIn("design"), TaskOf("task-high-pass", pass, "completed", NoDoc, TRUE),
              TaskOf("task-low-pass", "low", "active", "TH", TRUE))

\* DEFAULT_MODEL_CONFIG, as far as the levels here ask for it.
DefaultModels == {<<"user-story", "none">>, <<"task-high-pass", "high">>, <<"task-low-pass", "low">>}
Strict ==
  [rules |-> <<"task-high-pass", "completed">> :> {"template-completeness", "project"}
          @@ <<"task-low-pass", "completed">> :> (BuiltIn \ {"frontmatter-schema"})
          @@ <<"user-story", "active">> :> {"decomposition-readiness", "frontmatter-schema"},
   disabled |-> {}, registry |-> BuiltIn \cup {"project"}, models |-> DefaultModels]
Lenient ==
  [rules |-> <<"task-low-pass", "completed">> :> (BuiltIn \cup {"unknown"}),
   disabled |-> {"parent-readiness"}, registry |-> BuiltIn, models |-> DefaultModels]

MCStarts == [docs : {Early("TH"), Late("high")}, config : {Strict}]
            \cup [docs : {Early(Dangling), Late("none")}, config : {Lenient}]

\* One set of documents stands for the rest of the loop.
MCInit ==
  /\ side \in {"loop", "store"}
  /\ Init /\ Store!Init
  /\ side # "loop" => docs = Early("TH")

MCNext ==
  \/ side = "loop" /\ Next /\ UNCHANGED <<side, storeVars>>
  \/ side = "store" /\ Store!Next /\ UNCHANGED <<side, vars>>

MCSpec == MCInit /\ [][MCNext]_<<side, vars, storeVars>>

\* Call and Request have the same members, so that one permutation serves both
\* sides.
Symmetry == Permutations(Place) \cup Permutations(Text) \cup Permutations(Request \cup Call)
=============================================================================
