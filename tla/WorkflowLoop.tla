----------------------------- MODULE WorkflowLoop -----------------------------
(***************************************************************************)
(* runLoop: work on one document until its gates let it into the next       *)
(* phase. The calls share an event loop and the documents. A call gives way  *)
(* where it awaits: the dispatcher, for as long as a model works, and the    *)
(* gates, which answer at once.                                             *)
(*                                                                          *)
(* The store is the caller's: write(doc, patch) puts the document that the  *)
(* call HOLDS, patched, where the stored one was. Nothing keeps two calls    *)
(* from the same document: "one task document at a time" is what a call     *)
(* looks at, not a lock, and each writes over what the other has written.   *)
(***************************************************************************)
EXTENDS Gates, FiniteSets

CONSTANTS Starts,        \* documents that there may be at first, with a configuration
          Call,          \* calls of runLoop that may be under way at a time
          MaxIterations, \* maxIterations
          MaxTakes,      \* bound: times that runLoop is called
          MaxHands       \* bound: changes that people and other tools make

\* A low-pass task that is under way at first has a scaffold that is completed.
ASSUME WorkflowLoopAssumption ==
  /\ GateAssumption
  /\ \A s \in Starts :
       /\ s.docs \in [Doc -> Document]
       /\ \A code \in Doc :
            LET d == s.docs[code] IN
            /\ d.phase \in PhaseOf(d.level)
            /\ d.level = "task-low-pass" /\ d.phase # "todo" =>
                 /\ Resolves(s.docs, d.scaffold)
                 /\ s.docs[d.scaffold].level = "task-high-pass"
                 /\ s.docs[d.scaffold].phase = "completed"
  /\ MaxIterations \in Nat \ {0} /\ MaxTakes \in Nat /\ MaxHands \in Nat

VARIABLES docs,   \* the stored documents
          config, \* rules, disabled, registry; models
          calls,  \* the calls of runLoop
          takes,  \* calls made so far
          hands,  \* changes made by people and other tools
          byHand, \* history: documents that they changed
          shared, \* history: documents that a call took while another worked on them
          ungated \* history: documents in their last phase at first, or worked on in it

vars == <<docs, config, calls, takes, hands, byHand, shared, ungated>>

Idle == [pc |-> "idle"]
Started(code, held) ==
  [pc |-> "taken", code |-> code, from |-> held.phase, held |-> held, iteration |-> 0,
   failures |-> {}]
Underway == {"taken", "working", "evaluated"}
Outcome == {"completed", "scaffold-incomplete", "dispatcher-error", "max-iterations", "threw"}

TypeOK ==
  /\ docs \in [Doc -> Document] /\ config \in {s.config : s \in Starts}
  /\ calls \in [Call -> {Idle}
                      \cup [pc : Outcome, code : Doc, from : Phase, to : Phase]
                      \cup [pc : Underway, code : Doc, from : Phase, held : Document,
                            iteration : 0..(MaxIterations - 1), failures : SUBSET config.registry]]
  /\ takes \in 0..MaxTakes /\ hands \in 0..MaxHands /\ byHand \subseteq Doc
  /\ shared \subseteq Doc /\ ungated \subseteq Doc

Last(d) == IsTerminal(d.level, d.phase)

Init ==
  /\ \E s \in Starts : docs = s.docs /\ config = s.config
  /\ calls = [c \in Call |-> Idle] /\ takes = 0 /\ hands = 0 /\ byHand = {} /\ shared = {}
  /\ ungated = {code \in Doc : Last(docs[code])}

-----------------------------------------------------------------------------
\* DocStore.write, of a document that the call holds.

Write(c, held) == docs' = [docs EXCEPT ![calls[c].code] = held]

Continue(c, pc, held) == calls' = [calls EXCEPT ![c].pc = pc, ![c].held = held]
\* The trace; to: the phase that the call has left the document in.
Return(c, outcome, held) ==
  calls' = [calls EXCEPT ![c] = [pc |-> outcome, code |-> calls[c].code, from |-> calls[c].from,
                                 to |-> held.phase]]

WorksOn(o, code) == calls[o].pc \in Underway /\ calls[o].code = code

\* The caller reads the document that it will hand to runLoop, whatever other
\* calls hold it.
Take(c, code) ==
  /\ calls[c] = Idle /\ takes < MaxTakes
  /\ takes' = takes + 1
  /\ calls' = [calls EXCEPT ![c] = Started(code, docs[code])]
  /\ shared' = IF \E o \in Call : WorksOn(o, code) THEN shared \cup {code} ELSE shared
  /\ UNCHANGED <<docs, config, hands, byHand, ungated>>

-----------------------------------------------------------------------------
\* From the call to the first await.

\* Mutation: that there is a scaffold is enough.
AssertScaffoldExists(d) ==
  d.level = "task-low-pass" =>
    Resolves(docs, d.scaffold) /\ docs[d.scaffold].level = "task-high-pass"

AssertCanStart(d) ==
  d.level = "task-low-pass" =>
    /\ Resolves(docs, d.scaffold) /\ docs[d.scaffold].level = "task-high-pass"
    /\ docs[d.scaffold].phase = "completed"

RejectScaffold(c) ==
  /\ calls[c].pc = "taken" /\ ~ AssertCanStart(calls[c].held)
  /\ Return(c, "scaffold-incomplete", calls[c].held)
  /\ UNCHANGED <<docs, config, takes, hands, byHand, shared, ungated>>

\* resolveTier: an entry of the level and the pass, or one of the level alone.
ResolvesTier(d) ==
  \/ d.pass # "none" /\ <<d.level, d.pass>> \in config.models
  \/ <<d.level, "none">> \in config.models

Promote(d) == IF d.phase = "todo" THEN [d EXCEPT !.phase = "active"] ELSE d

\* Mutation: the document that write returns is not kept.
BeginUnkept(c) ==
  LET held == Promote(calls[c].held) IN
  /\ calls[c].pc = "taken" /\ AssertCanStart(calls[c].held)
  /\ IF held = calls[c].held THEN UNCHANGED docs ELSE Write(c, held)
  /\ IF ResolvesTier(held) THEN Continue(c, "working", calls[c].held) ELSE Return(c, "threw", held)
  /\ UNCHANGED <<config, takes, hands, byHand, shared, ungated>>

\* A level without a model: the call throws, after the document has become active.
Begin(c) ==
  LET held == Promote(calls[c].held) IN
  /\ calls[c].pc = "taken" /\ AssertCanStart(calls[c].held)
  /\ IF held = calls[c].held THEN UNCHANGED docs ELSE Write(c, held)
  /\ IF ResolvesTier(held) THEN Continue(c, "working", held) ELSE Return(c, "threw", held)
  /\ UNCHANGED <<config, takes, hands, byHand, shared, ungated>>

-----------------------------------------------------------------------------
\* One iteration.

DispatchFails(c) ==
  /\ calls[c].pc = "working"
  /\ Return(c, "dispatcher-error", calls[c].held)
  /\ UNCHANGED <<docs, config, takes, hands, byHand, shared, ungated>>

\* The gates of the rule for this level and its next phase, without those that
\* are disabled or unknown; none for a document in its last phase, and none
\* if there is no rule.
SelectGates(d) ==
  IF Last(d) \/ <<d.level, NextPhase(d.level, d.phase)>> \notin DOMAIN config.rules THEN {}
  ELSE (config.rules[<<d.level, NextPhase(d.level, d.phase)>>] \ config.disabled) \cap config.registry

\* Mutation: the gates are asked about the document as it was handed over.
EvaluateFirst(c, held, throwing) ==
  RunGates(SelectGates(calls[c].held), throwing, docs, calls[c].code, calls[c].held)

Evaluate(c, held, throwing) ==
  RunGates(SelectGates(held), throwing, docs', calls[c].code, held)

\* The dispatcher's answer is written and judged at once.
Work(c, body, throwing) ==
  LET held == [calls[c].held EXCEPT !.body = body] IN
  /\ calls[c].pc = "working"
  /\ Write(c, held)
  /\ calls' = [calls EXCEPT ![c].pc = "evaluated", ![c].held = held,
                            ![c].failures = Evaluate(c, held, throwing)]
  /\ ungated' = IF Last(held) THEN ungated \cup {calls[c].code} ELSE ungated
  /\ UNCHANGED <<config, takes, hands, byHand, shared>>

Advance(c) ==
  LET held == calls[c].held
      advanced == IF Last(held) THEN held
                  ELSE [held EXCEPT !.phase = NextPhase(held.level, held.phase)] IN
  /\ calls[c].pc = "evaluated" /\ calls[c].failures = {}
  /\ IF Last(held) THEN UNCHANGED docs ELSE Write(c, advanced)
  /\ Return(c, "completed", advanced)
  /\ UNCHANGED <<config, takes, hands, byHand, shared, ungated>>

TryAgain(c) ==
  /\ calls[c].pc = "evaluated" /\ calls[c].failures # {}
  /\ calls[c].iteration + 1 < MaxIterations
  /\ calls' = [calls EXCEPT ![c].pc = "working", ![c].iteration = @ + 1]
  /\ UNCHANGED <<docs, config, takes, hands, byHand, shared, ungated>>

GiveUp(c) ==
  /\ calls[c].pc = "evaluated" /\ calls[c].failures # {}
  /\ calls[c].iteration + 1 = MaxIterations
  /\ Return(c, "max-iterations", calls[c].held)
  /\ UNCHANGED <<docs, config, takes, hands, byHand, shared, ungated>>

\* The caller has its trace.
Forget(c) ==
  /\ calls[c].pc \in Outcome
  /\ calls' = [calls EXCEPT ![c] = Idle]
  /\ UNCHANGED <<docs, config, takes, hands, byHand, shared, ungated>>

\* The process ends: documents stay as they were written last.
Killed ==
  /\ \E c \in Call : calls[c] # Idle
  /\ calls' = [c \in Call |-> Idle]
  /\ UNCHANGED <<docs, config, takes, hands, byHand, shared, ungated>>

-----------------------------------------------------------------------------
\* People, and katana's tools.

Hand(code, d) ==
  /\ hands < MaxHands /\ hands' = hands + 1
  /\ docs' = [docs EXCEPT ![code] = d]
  /\ byHand' = byHand \cup {code}
  /\ UNCHANGED <<config, calls, takes, shared, ungated>>

EditByHand(code, body) == Hand(code, [docs[code] EXCEPT !.body = body])
\* transition_phase, with force or without, keeps the tag of the phase.
TransitionByHand(code, phase) ==
  /\ phase \in PhaseOf(docs[code].level)
  /\ Hand(code, [docs[code] EXCEPT !.phase = phase, !.tag = phase])

Loop(c) ==
  \/ \E code \in Doc : Take(c, code)
  \/ RejectScaffold(c) \/ Begin(c) \/ DispatchFails(c)
  \/ \E body \in Body, throwing \in {{}, {"project"}} : Work(c, body, throwing)
  \/ Advance(c) \/ TryAgain(c) \/ GiveUp(c) \/ Forget(c)
ByHand ==
  \E code \in Doc : \/ \E body \in Body : EditByHand(code, body)
                    \/ \E phase \in Phase : TransitionByHand(code, phase)

Next == (\E c \in Call : Loop(c)) \/ Killed \/ ByHand

Spec == Init /\ [][Next]_vars
-----------------------------------------------------------------------------
\* "A task-low-pass MUST have scaffold_task set, that scaffold MUST resolve to a
\* task-high-pass document, and that task-high-pass MUST be in phase completed
\* before the low-pass may transition todo -> active": as long as the loops
\* alone move the two documents, the low-pass is past todo only over a
\* completed scaffold, whatever calls are under way for the low-pass, and
\* whichever are killed. The scaffold may not have been worked on by two calls
\* at a time: one of them writes it back as it holds it, active, after the
\* other has completed it, under a low-pass that has begun meanwhile.
LowPassRestsOnItsScaffold ==
  \A code \in Doc \ byHand :
    LET d == docs[code] IN
    (d.level = "task-low-pass" /\ d.phase # "todo" /\ d.scaffold \notin byHand \cup shared)
      => Resolves(docs, d.scaffold) /\ docs[d.scaffold].phase = "completed"

\* What the rule asks of the body alone when a document enters its last phase.
AskedOfTheBody(d) ==
  IF <<d.level, d.phase>> \notin DOMAIN config.rules THEN {}
  ELSE ((config.rules[<<d.level, d.phase>>] \ config.disabled) \cap config.registry) \cap OfTheBody

\* "Completion must be justified by artifacts and gates rather than the loop's
\* assertion": a document that loops brought into its last phase, and none has
\* worked on in it, passes what its rule asks of the body. A body that failed,
\* or that no gate saw, does not stay in it, however many calls write the
\* document: the body that a call completes it with is the one it had judged.
FinishedPassedItsGates ==
  \A code \in Doc \ (byHand \cup ungated) :
    Last(docs[code]) =>
      \A gate \in AskedOfTheBody(docs[code]) : Passes(gate, docs, code, docs[code])

\* No loop takes a document back that only loops have written, one call at a
\* time, though each writes the whole document as it was handed over. Of two
\* calls on one document the slower writes back what it holds, and with it the
\* earlier phase.
LoopsOnlyAdvance ==
  [][ \A code \in Doc \ (byHand' \cup shared') :
        PhaseIndex(docs[code].level, docs[code].phase)
          <= PhaseIndex(docs'[code].level, docs'[code].phase) ]_vars
-----------------------------------------------------------------------------
\* What the documentation promises and this code does not keep.

\* "Never advances a doc by more than one phase per loop call".
OnePhasePerCall ==
  \A c \in Call : calls[c].pc = "completed" =>
    LET level == docs[calls[c].code].level IN
    PhaseIndex(level, calls[c].to) <= PhaseIndex(level, calls[c].from) + 1
=============================================================================
