-------------------------------- MODULE Gates --------------------------------
(***************************************************************************)
(* katana's gates: the checks that a document has to pass before it enters   *)
(* its next phase. A document is its frontmatter, as far as a gate looks at  *)
(* it, and what a body can say that a gate tells apart.                      *)
(***************************************************************************)
EXTENDS Naturals, Sequences

CONSTANTS Doc,   \* the short codes of the workspace
          Body   \* what the bodies of documents say

NoDoc == "none"        \* a reference that is missing or empty
Dangling == "dangling" \* a reference to a document that does not exist
Reference == Doc \cup {NoDoc, Dangling}

PHASES_BY_LEVEL == [level \in {"product-doc", "epic", "user-story", "task-high-pass",
                               "task-low-pass", "task-ui"} |->
  CASE level = "product-doc" -> <<"draft", "review", "published">>
    [] level \in {"epic", "user-story"} -> <<"discovery", "design", "ready", "active", "completed">>
    [] OTHER -> <<"todo", "active", "completed">>]
Level == DOMAIN PHASES_BY_LEVEL
PhaseOf(level) == {PHASES_BY_LEVEL[level][i] : i \in DOMAIN PHASES_BY_LEVEL[level]}
Phase == UNION {PhaseOf(level) : level \in Level}

PhaseIndex(level, phase) ==
  CHOOSE i \in DOMAIN PHASES_BY_LEVEL[level] : PHASES_BY_LEVEL[level][i] = phase
IsTerminal(level, phase) == PhaseIndex(level, phase) = Len(PHASES_BY_LEVEL[level])
\* Of a phase that is not the last.
NextPhase(level, phase) == PHASES_BY_LEVEL[level][PhaseIndex(level, phase) + 1]

\* sections: the worst state of a section that the template of the level
\* requires, template for one with placeholders in it, nested for one whose text
\* is all under headings of its own. Two of them have gates that look further:
\* exit, the checklist of what has to be met, and children. That one of the two
\* is missing these say; that one is empty or has placeholders, sections says.
Sections == {"missing", "empty", "template", "nested", "written"}
Checklist == {"missing", "prose", "open", "checked"}
Children == {"missing", "unsorted", "sorted"}

GateAssumption ==
  \A b \in Body : /\ b.sections \in Sections /\ b.exit \in Checklist
                  /\ b.children \in Children /\ b.listed \subseteq Doc \cup {Dangling}

\* fields: every field that the level requires is there, with a value that it
\* allows; named: the short code is one of the level; tag: the phase of which
\* there is a tag; flag: exit_criteria_met.
Document == [level : Level, phase : Phase, tag : Phase, flag : BOOLEAN, fields : BOOLEAN,
             named : BOOLEAN, parent : Reference, scaffold : Reference,
             pass : {"high", "low", "none"}, body : Body]

-----------------------------------------------------------------------------
\* The gates that come with katana, of a document d among the documents docs.

Resolves(docs, code) == code \in DOMAIN docs

FrontmatterSchema(d) ==
  /\ d.fields
  /\ d.level # "product-doc" => d.parent # NoDoc
  /\ d.level = "task-low-pass" => d.scaffold # NoDoc
  /\ d.tag = d.phase

ShortCodeFormat(d) == d.named

ParentLevel == [level \in Level \ {"product-doc"} |->
  CASE level = "epic" -> "product-doc" [] level = "user-story" -> "epic" [] OTHER -> "user-story"]
MinParentPhase(level) == IF level = "epic" THEN "review" ELSE "ready"

\* A parent of the wrong level is an error whatever its phase. That a scaffold
\* is completed is not looked at here.
ParentReadiness(docs, d) ==
  d.level # "product-doc" =>
    /\ Resolves(docs, d.parent)
    /\ LET parent == docs[d.parent] IN
         /\ parent.level = ParentLevel[d.level]
         /\ PhaseIndex(parent.level, parent.phase) >= PhaseIndex(parent.level, MinParentPhase(d.level))
    /\ d.level = "task-low-pass" /\ d.scaffold # NoDoc =>
         /\ Resolves(docs, d.scaffold)
         /\ docs[d.scaffold].level = "task-high-pass" /\ docs[d.scaffold].parent = d.parent

\* A box that is not checked is an error only if exit_criteria_met says that
\* there is none; boxes all of which are checked, without it, are a warning.
PhaseTransitionExitCriteria(d) ==
  /\ d.body.exit \notin {"missing", "prose"}
  /\ ~ (d.flag /\ d.body.exit = "open")

ChildLevel(level) ==
  CASE level = "product-doc" -> {"epic"} [] level = "epic" -> {"user-story"}
    [] level = "user-story" -> {"task-high-pass", "task-low-pass", "task-ui"} [] OTHER -> {}

\* code: the short code of d.
DecompositionReadiness(docs, code, d) ==
  ChildLevel(d.level) # {} =>
    /\ d.body.children # "missing"
    /\ d.level = "user-story" => d.body.children = "sorted"
    /\ d.body.listed # {}
    /\ \A child \in d.body.listed :
         /\ Resolves(docs, child)
         /\ docs[child].level \in ChildLevel(d.level) /\ docs[child].parent = code

\* Two readings of a body into sections. loader.ts keeps what is under a
\* heading of its own in the section around it; gate-adapter.ts does not.
ParseSections(b) == IF b.sections = "nested" THEN "written" ELSE b.sections
ParseSectionsLite(b) == IF b.sections = "nested" THEN "empty" ELSE b.sections

TemplateCompleteness(d, sections) ==
  /\ sections = "written" /\ d.body.exit # "missing"
  /\ ChildLevel(d.level) # {} => d.body.children # "missing"

BuiltIn == {"frontmatter-schema", "short-code-format", "parent-readiness", "decomposition-readiness",
            "phase-transition-exit-criteria", "template-completeness"}
\* Gates that look at nothing but the body and the code.
OfTheBody == {"short-code-format", "phase-transition-exit-criteria", "template-completeness"}

\* What the loop's adapter makes of a gate; gates of the project are not ours.
Passes(gate, docs, code, d) ==
  CASE gate = "frontmatter-schema" -> FrontmatterSchema(d)
    [] gate = "short-code-format" -> ShortCodeFormat(d)
    [] gate = "parent-readiness" -> ParentReadiness(docs, d)
    [] gate = "decomposition-readiness" -> DecompositionReadiness(docs, code, d)
    [] gate = "phase-transition-exit-criteria" -> PhaseTransitionExitCriteria(d)
    [] gate = "template-completeness" -> TemplateCompleteness(d, ParseSectionsLite(d.body))
    [] OTHER -> TRUE

\* runGates: the gates that fail, those that throw among them.
RunGates(gates, throwing, docs, code, d) ==
  {gate \in gates : gate \in throwing \/ ~ Passes(gate, docs, code, d)}
=============================================================================
