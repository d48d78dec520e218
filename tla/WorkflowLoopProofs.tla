-------------------------- MODULE WorkflowLoopProofs --------------------------
(***************************************************************************)
(* What loops guarantee, for any documents, configuration and number of      *)
(* calls. The argument is that a call holds the document as it is stored,    *)
(* unless people have changed it or another call works on it: so writing     *)
(* the whole of it takes nothing back. What a call holds past its start has  *)
(* passed the handoff, and what it completes its document with is what its    *)
(* gates were asked about, whoever else writes the document.                 *)
(***************************************************************************)
EXTENDS WorkflowLoop, TLAPS

Active(c) == calls[c].pc \in Underway

\* Of a document that is not shared there is at most one call.
OwnInv ==
  \A c, o \in Call :
    c # o /\ Active(c) /\ Active(o) /\ calls[c].code = calls[o].code => calls[c].code \in shared

ScaffoldDone(ds, d) ==
  /\ Resolves(ds, d.scaffold)
  /\ ds[d.scaffold].level = "task-high-pass" /\ ds[d.scaffold].phase = "completed"

\* What a call holds is what is stored, as far as neither people nor another
\* call have changed it; nobody changes a document's level or scaffold. A low-pass
\* that is held past todo has passed the handoff, in this call or an earlier one.
HeldBy(c) ==
  LET code == calls[c].code
      held == calls[c].held IN
  /\ held.phase \in PhaseOf(held.level)
  /\ held.level = docs[code].level /\ held.scaffold = docs[code].scaffold
  /\ code \notin byHand \cup shared => held = docs[code]
  /\ calls[c].pc # "taken" => held.phase # "todo"
  /\ code \notin byHand /\ held.level = "task-low-pass" /\ held.phase # "todo"
       /\ held.scaffold \notin byHand \cup shared => ScaffoldDone(docs, held)

HeldInv == \A c \in Call : Active(c) => HeldBy(c)

\* Gates that are not among the failures have let the body pass.
JudgedFor(c) ==
  LET held == calls[c].held IN
  /\ Last(held) => calls[c].code \in ungated
  /\ \A gate \in (SelectGates(held) \cap OfTheBody) \ calls[c].failures :
       Passes(gate, docs, calls[c].code, held)

JudgedInv == \A c \in Call : calls[c].pc = "evaluated" => JudgedFor(c)

\* LowPassRestsOnItsScaffold, and that the scaffold is a high-pass task: being
\* completed is then its last phase, which no loop takes it out of.
ScaffoldInv ==
  \A code \in Doc \ byHand :
    LET d == docs[code] IN
    (d.level = "task-low-pass" /\ d.phase # "todo" /\ d.scaffold \notin byHand \cup shared)
      => ScaffoldDone(docs, d)

PhaseInv == \A code \in Doc : docs[code].phase \in PhaseOf(docs[code].level)

IInv ==
  /\ TypeOK /\ OwnInv /\ PhaseInv /\ HeldInv /\ JudgedInv
  /\ ScaffoldInv /\ FinishedPassedItsGates

-----------------------------------------------------------------------------
\* Levels and their phases.

LEMMA Phases ==
  ASSUME NEW level \in Level
  PROVE  LET phases == PHASES_BY_LEVEL[level] IN
         \/ level = "product-doc" /\ phases = <<"draft", "review", "published">>
         \/ /\ level \in {"epic", "user-story"}
            /\ phases = <<"discovery", "design", "ready", "active", "completed">>
         \/ /\ level \in {"task-high-pass", "task-low-pass", "task-ui"}
            /\ phases = <<"todo", "active", "completed">>
BY DEF Level, PHASES_BY_LEVEL

LEMMA IndexOfPhase ==
  ASSUME NEW level \in Level, NEW i \in DOMAIN PHASES_BY_LEVEL[level]
  PROVE  PhaseIndex(level, PHASES_BY_LEVEL[level][i]) = i
<1>1. \A j \in DOMAIN PHASES_BY_LEVEL[level] :
        PHASES_BY_LEVEL[level][j] = PHASES_BY_LEVEL[level][i] => j = i
  BY Phases
<1> QED
  BY <1>1 DEF PhaseIndex

LEMMA PhaseOfIndex ==
  ASSUME NEW level \in Level, NEW phase \in PhaseOf(level)
  PROVE  /\ phase \in Phase
         /\ PhaseIndex(level, phase) \in 1..Len(PHASES_BY_LEVEL[level])
         /\ PHASES_BY_LEVEL[level][PhaseIndex(level, phase)] = phase
<1>1. PICK i \in DOMAIN PHASES_BY_LEVEL[level] : phase = PHASES_BY_LEVEL[level][i]
  BY DEF PhaseOf
<1>2. PhaseIndex(level, phase) = i
  BY <1>1, IndexOfPhase
<1>3. DOMAIN PHASES_BY_LEVEL[level] = 1..Len(PHASES_BY_LEVEL[level])
  BY Phases
<1> QED
  BY <1>1, <1>2, <1>3 DEF Phase

LEMMA NextPhaseIsNext ==
  ASSUME NEW level \in Level, NEW phase \in PhaseOf(level), ~ IsTerminal(level, phase)
  PROVE  /\ NextPhase(level, phase) \in PhaseOf(level)
         /\ PhaseIndex(level, NextPhase(level, phase)) = PhaseIndex(level, phase) + 1
         /\ NextPhase(level, phase) # "todo"
<1> DEFINE i == PhaseIndex(level, phase)
<1>1. /\ i \in 1..Len(PHASES_BY_LEVEL[level]) /\ i # Len(PHASES_BY_LEVEL[level])
  BY PhaseOfIndex DEF IsTerminal
<1>2. i + 1 \in DOMAIN PHASES_BY_LEVEL[level] /\ PHASES_BY_LEVEL[level][i + 1] # "todo"
  BY <1>1, Phases
<1> QED
  BY <1>2, IndexOfPhase DEF NextPhase, PhaseOf

\* Becoming active is a step forward, and not into a last phase.
LEMMA TodoIsFirst ==
  ASSUME NEW level \in Level, "todo" \in PhaseOf(level)
  PROVE  /\ "active" \in PhaseOf(level) /\ ~ IsTerminal(level, "active")
         /\ PhaseIndex(level, "todo") = 1 /\ PhaseIndex(level, "active") = 2
<1>1. PHASES_BY_LEVEL[level] = <<"todo", "active", "completed">>
  BY Phases DEF PhaseOf
<1>2. 1 \in DOMAIN PHASES_BY_LEVEL[level] /\ 2 \in DOMAIN PHASES_BY_LEVEL[level]
  BY <1>1
<1>3. PhaseIndex(level, "todo") = 1 /\ PhaseIndex(level, "active") = 2
  BY <1>1, <1>2, IndexOfPhase
<1> QED
  BY <1>1, <1>2, <1>3 DEF PhaseOf, IsTerminal

LEMMA CompletedIsLast == IsTerminal("task-high-pass", "completed")
<1>1. "task-high-pass" \in Level /\ PHASES_BY_LEVEL["task-high-pass"] = <<"todo", "active", "completed">>
  BY DEF Level, PHASES_BY_LEVEL
<1>2. PhaseIndex("task-high-pass", "completed") = 3
  BY <1>1, IndexOfPhase
<1> QED
  BY <1>1, <1>2 DEF IsTerminal

\* The gates of the body look at nothing that moves a document along.
LEMMA PassesTellsTheBody ==
  ASSUME NEW gate \in OfTheBody, NEW ds, NEW es, NEW code, NEW d, NEW e,
         d.level = e.level, d.named = e.named, d.flag = e.flag, d.body = e.body
  PROVE  Passes(gate, ds, code, d) <=> Passes(gate, es, code, e)
BY DEF OfTheBody, Passes, ShortCodeFormat, PhaseTransitionExitCriteria, TemplateCompleteness

-----------------------------------------------------------------------------
\* Calls, and what they write.

LEMMA ActiveCall ==
  ASSUME TypeOK, NEW c \in Call, Active(c)
  PROVE  /\ calls[c] # Idle /\ calls[c].code \in Doc /\ calls[c].held \in Document
         /\ calls[c] \in [pc : Underway, code : Doc, from : Phase, held : Document,
                          iteration : 0..(MaxIterations - 1), failures : SUBSET config.registry]
BY DEF TypeOK, Active, Idle, Underway, Outcome

LEMMA ReturnedCall ==
  ASSUME TypeOK, NEW c \in Call, Active(c), NEW outcome \in Outcome, NEW held \in Document,
         Return(c, outcome, held)
  PROVE  /\ calls'[c] \in [pc : Outcome, code : Doc, from : Phase, to : Phase]
         /\ calls'[c].code = calls[c].code /\ ~ Active(c)' /\ calls'[c].pc # "evaluated"
         /\ \A o \in Call \ {c} : calls'[o] = calls[o]
         /\ calls' \in [Call -> {Idle}
                        \cup [pc : Outcome, code : Doc, from : Phase, to : Phase]
                        \cup [pc : Underway, code : Doc, from : Phase, held : Document,
                              iteration : 0..(MaxIterations - 1), failures : SUBSET config.registry]]
BY ActiveCall DEF TypeOK, Return, Active, Outcome, Underway, Document

LEMMA MovedDocument ==
  ASSUME NEW d \in Document, NEW phase \in Phase
  PROVE  LET e == [d EXCEPT !.phase = phase] IN
         /\ e \in Document /\ e.phase = phase /\ e.level = d.level /\ e.scaffold = d.scaffold
         /\ e.named = d.named /\ e.flag = d.flag /\ e.body = d.body
BY DEF Document

LEMMA RewrittenDocument ==
  ASSUME NEW d \in Document, NEW body \in Body
  PROVE  LET e == [d EXCEPT !.body = body] IN
         /\ e \in Document /\ e.phase = d.phase /\ e.level = d.level /\ e.scaffold = d.scaffold
BY DEF Document

\* What has been judged of a call's document stays so, whatever is written.
LEMMA JudgedStays ==
  ASSUME JudgedInv, NEW o \in Call, calls'[o] = calls[o], config' = config,
         ungated \subseteq ungated', calls[o].pc = "evaluated"
  PROVE  JudgedFor(o)'
<1>1. JudgedFor(o)
  BY DEF JudgedInv
<1>2. \A gate \in (SelectGates(calls[o].held) \cap OfTheBody) \ calls[o].failures :
        Passes(gate, docs', calls[o].code, calls[o].held)
  BY <1>1, PassesTellsTheBody DEF JudgedFor
<1> QED
  BY <1>1, <1>2 DEF JudgedFor, Last, SelectGates

\* A document in its last phase stays in it, unless people or two calls write it.
LEMMA ScaffoldsStay ==
  ASSUME IInv, NEW c \in Call, Active(c), NEW new \in Document,
         docs' = docs \/ docs' = [docs EXCEPT ![calls[c].code] = new],
         new.level = calls[c].held.level,
         Last(calls[c].held) => new.phase = calls[c].held.phase,
         NEW d \in Document, ScaffoldDone(docs, d), d.scaffold \notin byHand \cup shared
  PROVE  ScaffoldDone(docs', d)
<1> DEFINE code == calls[c].code
           held == calls[c].held
<1>1. code \in Doc /\ held \in Document /\ docs \in [Doc -> Document] /\ HeldBy(c)
  BY ActiveCall DEF IInv, TypeOK, HeldInv
<1>2. d.scaffold \in Doc
  BY <1>1 DEF ScaffoldDone, Resolves
<1>3. CASE docs' = docs \/ d.scaffold # code
  BY <1>1, <1>2, <1>3 DEF ScaffoldDone, Resolves
<1>4. CASE docs' = [docs EXCEPT ![code] = new] /\ d.scaffold = code
  <2>1. held.level = "task-high-pass" /\ held.phase = "completed"
    BY <1>1, <1>4 DEF ScaffoldDone, HeldBy
  <2>2. new.level = "task-high-pass" /\ new.phase = "completed"
    BY <2>1, CompletedIsLast DEF Last
  <2> QED
    BY <1>1, <1>4, <2>2 DEF ScaffoldDone, Resolves
<1> QED
  BY <1>3, <1>4

\* A call disturbs no other but by what it writes.
LEMMA OthersKeep ==
  ASSUME IInv, NEW c \in Call, calls[c] # Idle,
         \/ docs' = docs
         \/ /\ Active(c)
            /\ \E new \in Document :
                 /\ docs' = [docs EXCEPT ![calls[c].code] = new]
                 /\ new.level = calls[c].held.level /\ new.scaffold = calls[c].held.scaffold
                 /\ Last(calls[c].held) => new.phase = calls[c].held.phase,
         \A o \in Call \ {c} : calls'[o] = calls[o],
         byHand' = byHand, shared' = shared, config' = config, ungated \subseteq ungated',
         NEW o \in Call \ {c}
  PROVE  /\ Active(o)' => HeldBy(o)'
         /\ calls'[o].pc = "evaluated" => JudgedFor(o)'
<1>1. SUFFICES ASSUME Active(o) PROVE HeldBy(o)' /\ (calls[o].pc = "evaluated" => JudgedFor(o)')
  BY <1>1 DEF Active, Underway
<1>2. /\ calls[o].code \in Doc /\ calls[o].held \in Document /\ HeldBy(o) /\ calls'[o] = calls[o]
      /\ docs \in [Doc -> Document]
  BY <1>1, ActiveCall DEF IInv, HeldInv, TypeOK
<1>3. ASSUME ScaffoldDone(docs, calls[o].held), calls[o].held.scaffold \notin byHand \cup shared
      PROVE  ScaffoldDone(docs', calls[o].held)
  BY <1>2, <1>3, ScaffoldsStay DEF ScaffoldDone
<1>4. CASE docs' = docs \/ calls[o].code # calls[c].code
  <2>1. docs'[calls[o].code] = docs[calls[o].code]
    BY <1>2, <1>4
  <2> QED
    BY <1>2, <1>3, <2>1, JudgedStays DEF HeldBy, IInv
<1>5. ASSUME Active(c), calls[o].code = calls[c].code, NEW new \in Document,
             docs' = [docs EXCEPT ![calls[c].code] = new],
             new.level = calls[c].held.level, new.scaffold = calls[c].held.scaffold
      PROVE  HeldBy(o)' /\ (calls[o].pc = "evaluated" => JudgedFor(o)')
  <2>1. HeldBy(c) /\ calls[o].code \in shared
    BY <1>1, <1>5 DEF IInv, HeldInv, OwnInv
  <2>2. docs'[calls[o].code] = new
    BY <1>2, <1>5
  <2> QED
    BY <1>2, <1>3, <1>5, <2>1, <2>2, JudgedStays DEF HeldBy, IInv
<1> QED
  BY <1>4, <1>5

\* A document that is written, with a phase that is not before the one that the
\* call held, and not past todo without the handoff.
LEMMA WritesKeepScaffolds ==
  ASSUME IInv, NEW c \in Call, Active(c), NEW new \in Document,
         docs' = [docs EXCEPT ![calls[c].code] = new], byHand' = byHand, shared' = shared,
         new.level = calls[c].held.level, new.scaffold = calls[c].held.scaffold,
         new.phase \in PhaseOf(new.level),
         Last(calls[c].held) => new.phase = calls[c].held.phase,
         new.phase # "todo" => calls[c].held.phase # "todo" \/ AssertCanStart(calls[c].held)
  PROVE  PhaseInv' /\ ScaffoldInv'
<1> DEFINE code == calls[c].code
           held == calls[c].held
<1>1. code \in Doc /\ held \in Document /\ docs \in [Doc -> Document] /\ HeldBy(c)
  BY ActiveCall DEF IInv, TypeOK, HeldInv
<1>2. PhaseInv'
  BY <1>1 DEF IInv, PhaseInv
<1>3. ASSUME NEW other \in Doc \ byHand', docs'[other].level = "task-low-pass",
             docs'[other].phase # "todo", docs'[other].scaffold \notin byHand' \cup shared'
      PROVE  ScaffoldDone(docs', docs'[other])
  <2>1. CASE other # code
    <3>1. docs'[other] = docs[other]
      BY <1>1, <2>1
    <3>2. ScaffoldDone(docs, docs[other]) /\ docs[other] \in Document
      BY <1>1, <1>3, <3>1 DEF IInv, ScaffoldInv
    <3> QED
      BY <1>3, <3>1, <3>2, ScaffoldsStay
  <2>2. CASE other = code
    <3>1. docs'[other] = new
      BY <1>1, <2>2
    <3>2. ScaffoldDone(docs, held)
      BY <1>1, <1>3, <2>2, <3>1 DEF HeldBy, AssertCanStart, ScaffoldDone
    <3>3. ScaffoldDone(docs', held)
      BY <1>1, <1>3, <3>1, <3>2, ScaffoldsStay
    <3> QED
      BY <3>1, <3>3 DEF ScaffoldDone
  <2> QED
    BY <2>1, <2>2
<1> QED
  BY <1>2, <1>3 DEF ScaffoldInv

LEMMA WritesKeepFinished ==
  ASSUME IInv, NEW c \in Call, Active(c), NEW new \in Document,
         docs' = [docs EXCEPT ![calls[c].code] = new],
         byHand' = byHand, config' = config, ungated \subseteq ungated',
         calls[c].code \notin byHand \cup ungated' /\ Last(new) =>
           \A gate \in AskedOfTheBody(new) : Passes(gate, docs', calls[c].code, new)
  PROVE  FinishedPassedItsGates'
<1>1. calls[c].code \in Doc /\ docs \in [Doc -> Document]
  BY ActiveCall DEF IInv, TypeOK
<1>2. SUFFICES ASSUME NEW code \in Doc, code \notin byHand \cup ungated', Last(docs'[code]),
                      NEW gate \in AskedOfTheBody(docs'[code])
               PROVE  Passes(gate, docs', code, docs'[code])
  BY DEF FinishedPassedItsGates, AskedOfTheBody, Last
<1>3. CASE code = calls[c].code
  BY <1>1, <1>2, <1>3
<1>4. CASE code # calls[c].code
  <2>1. docs'[code] = docs[code]
    BY <1>1, <1>4
  <2>2. Passes(gate, docs, code, docs[code])
    BY <1>2, <2>1 DEF IInv, FinishedPassedItsGates
  <2>3. gate \in OfTheBody
    BY <1>2 DEF AskedOfTheBody
  <2> QED
    BY <2>1, <2>2, <2>3, PassesTellsTheBody
<1> QED
  BY <1>3, <1>4

LEMMA DocumentsRest ==
  ASSUME IInv, UNCHANGED <<docs, config, byHand, ungated>>, shared \subseteq shared'
  PROVE  PhaseInv' /\ ScaffoldInv' /\ FinishedPassedItsGates'
<1>1. PhaseInv' /\ ScaffoldInv'
  BY DEF IInv, PhaseInv, ScaffoldInv
<1>2. FinishedPassedItsGates'
  BY DEF IInv, FinishedPassedItsGates, AskedOfTheBody, Last
<1> QED
  BY <1>1, <1>2

\* What is left to show of an action of one call.
LEMMA CallStep ==
  ASSUME IInv, NEW c \in Call, calls[c] # Idle,
         \/ docs' = docs
         \/ /\ Active(c)
            /\ \E new \in Document :
                 /\ docs' = [docs EXCEPT ![calls[c].code] = new]
                 /\ new.level = calls[c].held.level /\ new.scaffold = calls[c].held.scaffold
                 /\ Last(calls[c].held) => new.phase = calls[c].held.phase,
         \A o \in Call \ {c} : calls'[o] = calls[o],
         Active(c)' => Active(c) /\ calls'[c].code = calls[c].code,
         byHand' = byHand, shared' = shared, config' = config, ungated \subseteq ungated',
         Active(c)' => HeldBy(c)',
         calls'[c].pc = "evaluated" => JudgedFor(c)'
  PROVE  OwnInv' /\ HeldInv' /\ JudgedInv'
<1>1. OwnInv'
  BY DEF IInv, OwnInv, Active
<1>2. ASSUME NEW o \in Call
      PROVE  (Active(o)' => HeldBy(o)') /\ (calls'[o].pc = "evaluated" => JudgedFor(o)')
  <2>1. CASE o = c
    BY <2>1 DEF Active, HeldBy, JudgedFor, SelectGates, Last
  <2>2. CASE o # c
    BY <2>2, OthersKeep
  <2> QED
    BY <2>1, <2>2
<1> QED
  BY <1>1, <1>2 DEF HeldInv, JudgedInv

-----------------------------------------------------------------------------
\* The actions.

LEMMA InitInv == Init => IInv
<1> SUFFICES ASSUME Init PROVE IInv
  OBVIOUS
<1>1. PICK s \in Starts : docs = s.docs /\ config = s.config
  BY DEF Init
<1>2. \A c \in Call : calls[c] = Idle
  BY DEF Init
<1>3. \A c \in Call : ~ Active(c) /\ calls[c].pc # "evaluated"
  BY <1>2 DEF Active, Idle, Underway
<1>4. TypeOK
  BY <1>1, WorkflowLoopAssumption DEF Init, TypeOK
<1>5. OwnInv /\ HeldInv /\ JudgedInv
  BY <1>2, <1>3 DEF OwnInv, HeldInv, JudgedInv
<1>6. PhaseInv /\ ScaffoldInv
  BY <1>1, WorkflowLoopAssumption DEF PhaseInv, ScaffoldInv, ScaffoldDone, Resolves
<1>7. FinishedPassedItsGates
  BY DEF Init, FinishedPassedItsGates
<1> QED
  BY <1>4, <1>5, <1>6, <1>7 DEF IInv

LEMMA TakeInv == ASSUME IInv, NEW c \in Call, NEW code \in Doc, Take(c, code) PROVE IInv'
<1>1. /\ calls' = [calls EXCEPT ![c] = Started(code, docs[code])]
      /\ UNCHANGED <<docs, config, hands, byHand, ungated>>
      /\ takes' \in 0..MaxTakes /\ shared \subseteq shared' /\ shared' \subseteq Doc
      /\ calls \in [Call -> {Idle}
              \cup [pc : Outcome, code : Doc, from : Phase, to : Phase]
              \cup [pc : Underway, code : Doc, from : Phase, held : Document,
                    iteration : 0..(MaxIterations - 1), failures : SUBSET config.registry]]
  BY WorkflowLoopAssumption DEF Take, IInv, TypeOK
<1>2. docs[code] \in Document /\ docs[code].phase \in Phase
  BY DEF IInv, TypeOK, Document
<1>3. Started(code, docs[code]) \in
        [pc : Underway, code : Doc, from : Phase, held : Document,
         iteration : 0..(MaxIterations - 1), failures : SUBSET config.registry]
  BY <1>2, WorkflowLoopAssumption DEF Started, Underway
<1>4. TypeOK'
  BY <1>1, <1>3 DEF IInv, TypeOK
<1>5. /\ calls'[c].code = code /\ calls'[c].held = docs[code] /\ calls'[c].pc = "taken"
      /\ \A o \in Call \ {c} : calls'[o] = calls[o]
  BY <1>1 DEF Started
<1>6. OwnInv'
  BY <1>1, <1>5 DEF IInv, OwnInv, Active, Take, WorksOn
<1>7. HeldBy(c)'
  BY <1>1, <1>2, <1>5 DEF IInv, HeldBy, PhaseInv, ScaffoldInv
<1>8. ASSUME NEW o \in Call \ {c}, Active(o) PROVE HeldBy(o)'
  <2>1. HeldBy(o)
    BY <1>8 DEF IInv, HeldInv
  <2> QED
    BY <1>1, <1>5, <2>1 DEF HeldBy
<1>9. HeldInv'
  BY <1>5, <1>7, <1>8 DEF HeldInv, Active
<1>10. JudgedInv'
  BY <1>1, <1>5 DEF IInv, JudgedInv, JudgedFor, SelectGates, Last
<1> QED
  BY <1>1, <1>4, <1>6, <1>9, <1>10, DocumentsRest DEF IInv

\* A call returns, with the documents as they are.
LEMMA ReturnInv ==
  ASSUME IInv, NEW c \in Call, Active(c), NEW outcome \in Outcome, NEW held \in Document,
         Return(c, outcome, held), UNCHANGED <<docs, config, takes, hands, byHand, shared, ungated>>
  PROVE  IInv'
<1>1. TypeOK'
  BY ReturnedCall DEF IInv, TypeOK
<1>2. OwnInv' /\ HeldInv' /\ JudgedInv'
  <2>1. calls[c] # Idle
    BY ActiveCall DEF IInv
  <2> QED
    BY <2>1, ReturnedCall, CallStep DEF IInv
<1> QED
  BY <1>1, <1>2, DocumentsRest DEF IInv

LEMMA ForgetInv == ASSUME IInv, NEW c \in Call, Forget(c) PROVE IInv'
<1>1. calls[c] # Idle /\ calls \in [Call -> {calls[o] : o \in Call}]
  BY DEF Forget, Idle, Outcome, IInv, TypeOK
<1>2. /\ calls'[c] = Idle /\ \A o \in Call \ {c} : calls'[o] = calls[o]
      /\ UNCHANGED <<docs, config, takes, hands, byHand, shared, ungated>>
  BY <1>1 DEF Forget
<1>3. TypeOK'
  BY DEF Forget, IInv, TypeOK
<1>4. ~ Active(c)' /\ calls'[c].pc # "evaluated"
  BY <1>2 DEF Active, Idle, Underway
<1>5. OwnInv' /\ HeldInv' /\ JudgedInv'
  BY <1>1, <1>2, <1>4, CallStep
<1> QED
  BY <1>2, <1>3, <1>5, DocumentsRest DEF IInv

LEMMA KilledInv == ASSUME IInv, Killed PROVE IInv'
<1>1. /\ \A c \in Call : calls'[c] = Idle
      /\ UNCHANGED <<docs, config, takes, hands, byHand, shared, ungated>>
  BY DEF Killed
<1>2. TypeOK'
  BY DEF Killed, IInv, TypeOK
<1>3. OwnInv' /\ HeldInv' /\ JudgedInv'
  BY <1>1 DEF OwnInv, HeldInv, JudgedInv, Active, Idle, Underway
<1> QED
  BY <1>1, <1>2, <1>3, DocumentsRest DEF IInv

\* A call goes on with another pc, and perhaps with another document held.
LEMMA ContinuedCall ==
  ASSUME TypeOK, NEW c \in Call, Active(c), NEW pc \in Underway, NEW held \in Document,
         Continue(c, pc, held)
  PROVE  /\ calls'[c].pc = pc /\ calls'[c].held = held /\ calls'[c].code = calls[c].code
         /\ \A o \in Call \ {c} : calls'[o] = calls[o]
         /\ calls' \in [Call -> {Idle}
                        \cup [pc : Outcome, code : Doc, from : Phase, to : Phase]
                        \cup [pc : Underway, code : Doc, from : Phase, held : Document,
                              iteration : 0..(MaxIterations - 1), failures : SUBSET config.registry]]
BY ActiveCall DEF TypeOK, Continue

LEMMA PromotedDocument ==
  ASSUME NEW d \in Document, d.phase \in PhaseOf(d.level)
  PROVE  LET e == Promote(d) IN
         /\ e \in Document /\ e.level = d.level /\ e.scaffold = d.scaffold
         /\ e.phase \in PhaseOf(e.level) /\ e.phase # "todo"
         /\ Last(d) => e = d
         /\ e # d => ~ Last(e)
         /\ PhaseIndex(e.level, d.phase) <= PhaseIndex(e.level, e.phase)
<1>1. d.level \in Level /\ d.phase \in Phase
  BY DEF Document
<1>2. CASE d.phase # "todo"
  <2>1. Promote(d) = d
    BY <1>2 DEF Promote
  <2> QED
    BY <1>1, <1>2, <2>1, PhaseOfIndex, Phases
<1>3. CASE d.phase = "todo"
  <2>1. /\ "active" \in PhaseOf(d.level) /\ ~ IsTerminal(d.level, "active")
        /\ PhaseIndex(d.level, "todo") = 1 /\ PhaseIndex(d.level, "active") = 2
    BY <1>1, <1>3, TodoIsFirst
  <2>2. "active" \in Phase /\ ~ IsTerminal(d.level, "todo")
    BY <1>1, <2>1, Phases, PhaseOfIndex DEF IsTerminal, PhaseOf
  <2>3. Promote(d) = [d EXCEPT !.phase = "active"]
    BY <1>3 DEF Promote
  <2> QED
    BY <1>3, <2>1, <2>2, <2>3, MovedDocument DEF Last
<1> QED
  BY <1>2, <1>3

LEMMA BeginInv == ASSUME IInv, NEW c \in Call, Begin(c) PROVE IInv'
<1> DEFINE code == calls[c].code
           held == calls[c].held
           new  == Promote(held)
<1>1. Active(c) /\ calls[c].pc = "taken" /\ AssertCanStart(held)
  BY DEF Begin, Active, Underway
<1>2. /\ calls[c] # Idle /\ code \in Doc /\ held \in Document /\ HeldBy(c)
      /\ docs \in [Doc -> Document] /\ TypeOK
  BY <1>1, ActiveCall DEF IInv, HeldInv, TypeOK
<1>3. /\ new \in Document /\ new.level = held.level /\ new.scaffold = held.scaffold
      /\ new.phase \in PhaseOf(new.level) /\ new.phase # "todo"
      /\ Last(held) => new = held
      /\ new # held => ~ Last(new)
  BY <1>2, PromotedDocument DEF HeldBy
<1> HIDE DEF new
<1>4. /\ IF new = held THEN UNCHANGED docs ELSE docs' = [docs EXCEPT ![code] = new]
      /\ Continue(c, "working", new) \/ Return(c, "threw", new)
      /\ UNCHANGED <<config, takes, hands, byHand, shared, ungated>>
  BY DEF Begin, Write, new
<1>5. TypeOK'
  BY <1>1, <1>2, <1>3, <1>4, ReturnedCall, ContinuedCall DEF TypeOK, Outcome, Underway
<1>6. PhaseInv' /\ ScaffoldInv' /\ FinishedPassedItsGates'
  <2>1. CASE new = held
    BY <1>4, <2>1, DocumentsRest
  <2>2. CASE new # held
    <3>1. PhaseInv' /\ ScaffoldInv'
      BY <1>1, <1>2, <1>3, <1>4, <2>2, WritesKeepScaffolds
    <3>2. FinishedPassedItsGates'
      BY <1>1, <1>2, <1>3, <1>4, <2>2, WritesKeepFinished
    <3> QED
      BY <3>1, <3>2
  <2> QED
    BY <2>1, <2>2
<1>7. OwnInv' /\ HeldInv' /\ JudgedInv'
  <2>1. CASE Return(c, "threw", new)
    BY <1>1, <1>2, <1>3, <1>4, <2>1, ReturnedCall, CallStep DEF Outcome
  <2>2. CASE Continue(c, "working", new)
    <3>1. /\ calls'[c].pc = "working" /\ calls'[c].held = new /\ calls'[c].code = code
          /\ \A o \in Call \ {c} : calls'[o] = calls[o]
      BY <1>1, <1>2, <1>3, <2>2, ContinuedCall DEF Underway
    <3>2. docs'[code].level = docs[code].level /\ docs'[code].scaffold = docs[code].scaffold
          /\ (code \notin byHand \cup shared => docs'[code] = new)
      BY <1>2, <1>3, <1>4 DEF HeldBy
    <3>3. ASSUME new.level = "task-low-pass", new.scaffold \notin byHand \cup shared
          PROVE  ScaffoldDone(docs', new)
      <4>1. ScaffoldDone(docs, new)
        BY <1>1, <1>3, <3>3 DEF AssertCanStart, ScaffoldDone
      <4> QED
        BY <1>1, <1>3, <1>4, <3>3, <4>1, ScaffoldsStay
    <3>4. HeldBy(c)'
      BY <1>2, <1>3, <1>4, <3>1, <3>2, <3>3 DEF HeldBy
    <3> QED
      BY <1>1, <1>2, <1>3, <1>4, <3>1, <3>4, CallStep
  <2> QED
    BY <1>4, <2>1, <2>2
<1> QED
  BY <1>5, <1>6, <1>7 DEF IInv

LEMMA WorkInv ==
  ASSUME IInv, NEW c \in Call, NEW body \in Body, NEW throwing, Work(c, body, throwing)
  PROVE  IInv'
<1> DEFINE code == calls[c].code
           held == calls[c].held
           new  == [held EXCEPT !.body = body]
<1>1. Active(c) /\ calls[c].pc = "working"
  BY DEF Work, Active, Underway
<1>2. /\ calls[c] # Idle /\ code \in Doc /\ held \in Document /\ HeldBy(c)
      /\ calls[c] \in [pc : Underway, code : Doc, from : Phase, held : Document,
                       iteration : 0..(MaxIterations - 1), failures : SUBSET config.registry]
      /\ docs \in [Doc -> Document] /\ TypeOK
  BY <1>1, ActiveCall DEF IInv, HeldInv, TypeOK
<1>3. /\ new \in Document /\ new.phase = held.phase /\ new.level = held.level
      /\ new.scaffold = held.scaffold /\ Last(new) = Last(held)
  BY <1>2, RewrittenDocument DEF Last
<1> HIDE DEF new
<1>4. /\ docs' = [docs EXCEPT ![code] = new]
      /\ calls' = [calls EXCEPT ![c].pc = "evaluated", ![c].held = new,
                                ![c].failures = Evaluate(c, new, throwing)]
      /\ ungated' = IF Last(new) THEN ungated \cup {code} ELSE ungated
      /\ UNCHANGED <<config, takes, hands, byHand, shared>>
  BY DEF Work, Write, new
<1>5. Evaluate(c, new, throwing) \subseteq config.registry
  BY DEF Evaluate, RunGates, SelectGates
<1>6. /\ calls'[c].pc = "evaluated" /\ calls'[c].held = new /\ calls'[c].code = code
      /\ calls'[c].failures = Evaluate(c, new, throwing)
      /\ \A o \in Call \ {c} : calls'[o] = calls[o]
  BY <1>2, <1>4 DEF TypeOK
<1>7. TypeOK'
  BY <1>2, <1>3, <1>4, <1>5 DEF TypeOK, Underway
<1>8. PhaseInv' /\ ScaffoldInv'
  BY <1>1, <1>2, <1>3, <1>4, WritesKeepScaffolds DEF HeldBy
<1>9. FinishedPassedItsGates'
  BY <1>1, <1>2, <1>3, <1>4, WritesKeepFinished
<1>10. HeldBy(c)'
  <2>1. ASSUME ScaffoldDone(docs, held), held.scaffold \notin byHand \cup shared
        PROVE  ScaffoldDone(docs', new)
    <3>1. ScaffoldDone(docs, new)
      BY <1>3, <2>1 DEF ScaffoldDone
    <3> QED
      BY <1>1, <1>3, <1>4, <2>1, <3>1, ScaffoldsStay
  <2> QED
    BY <1>1, <1>2, <1>3, <1>4, <1>6, <2>1 DEF HeldBy
<1>11. JudgedFor(c)'
  <2>1. \A gate \in SelectGates(new) \ calls'[c].failures : Passes(gate, docs', code, new)
    BY <1>6 DEF Evaluate, RunGates
  <2>2. Last(new) => code \in ungated'
    BY <1>4
  <2> QED
    BY <1>4, <1>6, <2>1, <2>2 DEF JudgedFor, SelectGates, Last
<1>12. OwnInv' /\ HeldInv' /\ JudgedInv'
  BY <1>1, <1>2, <1>3, <1>4, <1>6, <1>10, <1>11, CallStep
<1> QED
  BY <1>7, <1>8, <1>9, <1>12 DEF IInv

LEMMA TryAgainInv == ASSUME IInv, NEW c \in Call, TryAgain(c) PROVE IInv'
<1>1. Active(c) /\ calls[c].pc = "evaluated" /\ UNCHANGED <<docs, config, takes, hands, byHand, shared, ungated>>
  BY DEF TryAgain, Active, Underway
<1>2. /\ calls[c] # Idle /\ HeldBy(c) /\ TypeOK
      /\ calls[c] \in [pc : Underway, code : Doc, from : Phase, held : Document,
                       iteration : 0..(MaxIterations - 1), failures : SUBSET config.registry]
  BY <1>1, ActiveCall DEF IInv, HeldInv
<1>3. /\ calls'[c].pc = "working" /\ calls'[c].held = calls[c].held
      /\ calls'[c].code = calls[c].code /\ \A o \in Call \ {c} : calls'[o] = calls[o]
  BY <1>2 DEF TryAgain, TypeOK
<1>4. TypeOK'
  BY <1>1, <1>2, WorkflowLoopAssumption DEF TryAgain, TypeOK, Underway
<1>5. HeldBy(c)'
  BY <1>1, <1>2, <1>3 DEF HeldBy
<1>6. OwnInv' /\ HeldInv' /\ JudgedInv'
  BY <1>1, <1>2, <1>3, <1>5, CallStep
<1> QED
  BY <1>1, <1>4, <1>6, DocumentsRest DEF IInv

LEMMA AdvanceInv == ASSUME IInv, NEW c \in Call, Advance(c) PROVE IInv'
<1> DEFINE code == calls[c].code
           held == calls[c].held
           new  == [held EXCEPT !.phase = NextPhase(held.level, held.phase)]
<1>1. Active(c) /\ calls[c].pc = "evaluated" /\ calls[c].failures = {}
  BY DEF Advance, Active, Underway
<1>2. /\ calls[c] # Idle /\ code \in Doc /\ held \in Document /\ HeldBy(c) /\ JudgedFor(c)
      /\ docs \in [Doc -> Document] /\ TypeOK
  BY <1>1, ActiveCall DEF IInv, HeldInv, JudgedInv, TypeOK
<1>3. UNCHANGED <<config, takes, hands, byHand, shared, ungated>>
  BY DEF Advance
<1>4. CASE Last(held)
  <2>1. Return(c, "completed", held) /\ UNCHANGED docs
    BY <1>4 DEF Advance
  <2> QED
    BY <1>1, <1>2, <1>3, <2>1, ReturnInv DEF Outcome
<1>5. CASE ~ Last(held)
  <2>1. Return(c, "completed", new) /\ docs' = [docs EXCEPT ![code] = new]
    BY <1>5 DEF Advance, Write
  <2>2. held.level \in Level /\ held.phase \in PhaseOf(held.level)
    BY <1>2 DEF HeldBy, Document
  <2>3. /\ NextPhase(held.level, held.phase) \in PhaseOf(held.level)
        /\ NextPhase(held.level, held.phase) \in Phase
    BY <1>5, <2>2, NextPhaseIsNext, PhaseOfIndex DEF Last
  <2>4. /\ new \in Document /\ new.phase = NextPhase(held.level, held.phase)
        /\ new.level = held.level /\ new.scaffold = held.scaffold
        /\ new.named = held.named /\ new.flag = held.flag /\ new.body = held.body
    BY <1>2, <2>3, MovedDocument
  <2> HIDE DEF new
  <2>5. TypeOK'
    BY <1>1, <1>2, <1>3, <2>1, <2>4, ReturnedCall DEF TypeOK, Outcome
  <2>6. PhaseInv' /\ ScaffoldInv'
    BY <1>1, <1>2, <1>3, <1>5, <2>1, <2>3, <2>4, WritesKeepScaffolds DEF HeldBy
  <2>7. ASSUME NEW gate \in AskedOfTheBody(new) PROVE Passes(gate, docs', code, new)
    <3>1. gate \in (SelectGates(held) \cap OfTheBody) \ calls[c].failures
      BY <1>1, <1>5, <2>4, <2>7 DEF AskedOfTheBody, SelectGates
    <3>2. Passes(gate, docs, code, held)
      BY <1>2, <3>1 DEF JudgedFor
    <3> QED
      BY <2>4, <3>1, <3>2, PassesTellsTheBody
  <2>8. FinishedPassedItsGates'
    BY <1>1, <1>2, <1>3, <2>1, <2>4, <2>7, WritesKeepFinished
  <2>9. OwnInv' /\ HeldInv' /\ JudgedInv'
    BY <1>1, <1>2, <1>3, <1>5, <2>1, <2>4, ReturnedCall, CallStep DEF Outcome
  <2> QED
    BY <2>5, <2>6, <2>8, <2>9 DEF IInv
<1> QED
  BY <1>4, <1>5

\* People change what a document says, or its phase.
LEMMA HandInv ==
  ASSUME IInv, NEW code \in Doc, NEW d \in Document, Hand(code, d),
         d.level = docs[code].level, d.scaffold = docs[code].scaffold, d.phase \in PhaseOf(d.level)
  PROVE  IInv'
<1>1. /\ docs' = [docs EXCEPT ![code] = d] /\ byHand' = byHand \cup {code}
      /\ UNCHANGED <<config, calls, takes, shared, ungated>> /\ docs \in [Doc -> Document]
  BY DEF Hand, IInv, TypeOK
<1>2. TypeOK'
  BY <1>1, WorkflowLoopAssumption DEF Hand, IInv, TypeOK
<1>3. OwnInv' /\ PhaseInv'
  BY <1>1 DEF IInv, OwnInv, PhaseInv, Active
<1>4. ASSUME NEW c \in Call, Active(c) PROVE HeldBy(c)'
  <2>1. HeldBy(c) /\ calls[c].code \in Doc
    BY <1>4, ActiveCall DEF IInv, HeldInv
  <2>2. ASSUME ScaffoldDone(docs, calls[c].held), calls[c].held.scaffold \notin byHand'
        PROVE  ScaffoldDone(docs', calls[c].held)
    BY <1>1, <2>2 DEF ScaffoldDone, Resolves
  <2> QED
    BY <1>1, <2>1, <2>2 DEF HeldBy
<1>5. HeldInv'
  BY <1>1, <1>4 DEF HeldInv, Active
<1>6. ASSUME NEW c \in Call, calls[c].pc = "evaluated" PROVE JudgedFor(c)'
  <2>1. JudgedFor(c)
    BY <1>6 DEF IInv, JudgedInv
  <2>2. \A gate \in (SelectGates(calls[c].held) \cap OfTheBody) \ calls[c].failures :
          Passes(gate, docs', calls[c].code, calls[c].held)
    BY <2>1, PassesTellsTheBody DEF JudgedFor
  <2> QED
    BY <1>1, <2>1, <2>2 DEF JudgedFor, Last, SelectGates
<1>7. JudgedInv'
  BY <1>1, <1>6 DEF JudgedInv
<1>8. ScaffoldInv'
  BY <1>1 DEF IInv, ScaffoldInv, ScaffoldDone, Resolves
<1>9. FinishedPassedItsGates'
  <2>1. SUFFICES ASSUME NEW other \in Doc, other \notin byHand' \cup ungated', Last(docs'[other]),
                        NEW gate \in AskedOfTheBody(docs'[other])
                 PROVE  Passes(gate, docs', other, docs'[other])
    BY <1>1 DEF FinishedPassedItsGates, AskedOfTheBody, Last
  <2>2. docs'[other] = docs[other] /\ other \notin byHand \cup ungated
    BY <1>1, <2>1
  <2>3. Passes(gate, docs, other, docs[other])
    BY <2>1, <2>2 DEF IInv, FinishedPassedItsGates
  <2>4. gate \in OfTheBody
    BY <2>1 DEF AskedOfTheBody
  <2> QED
    BY <2>2, <2>3, <2>4, PassesTellsTheBody
<1> QED
  BY <1>2, <1>3, <1>5, <1>7, <1>8, <1>9 DEF IInv

LEMMA ByHandInv == ASSUME IInv, ByHand PROVE IInv'
<1>1. PICK code \in Doc : \/ \E body \in Body : EditByHand(code, body)
                        \/ \E phase \in Phase : TransitionByHand(code, phase)
  BY DEF ByHand
<1>2. docs[code] \in Document /\ docs[code].phase \in PhaseOf(docs[code].level)
  BY DEF IInv, TypeOK, PhaseInv
<1>3. ASSUME NEW body \in Body, EditByHand(code, body) PROVE IInv'
  BY <1>2, <1>3, HandInv, RewrittenDocument DEF EditByHand
<1>4. ASSUME NEW phase \in Phase, TransitionByHand(code, phase) PROVE IInv'
  <2> DEFINE d == [docs[code] EXCEPT !.phase = phase, !.tag = phase]
  <2>1. /\ d \in Document /\ d.level = docs[code].level /\ d.scaffold = docs[code].scaffold
        /\ d.phase = phase
    BY <1>2 DEF Document
  <2>2. phase \in PhaseOf(docs[code].level) /\ Hand(code, d)
    BY <1>4 DEF TransitionByHand
  <2> HIDE DEF d
  <2> QED
    BY <2>1, <2>2, HandInv
<1> QED
  BY <1>1, <1>3, <1>4

LEMMA LoopInv == ASSUME IInv, NEW c \in Call, Loop(c) PROVE IInv'
<1>1. ASSUME NEW code \in Doc, Take(c, code) PROVE IInv'
  BY <1>1, TakeInv
<1>2. CASE RejectScaffold(c)
  <2>1. Active(c)
    BY <1>2 DEF RejectScaffold, Active, Underway
  <2> QED
    BY <1>2, <2>1, ActiveCall, ReturnInv DEF RejectScaffold, Outcome, IInv
<1>3. CASE Begin(c)
  BY <1>3, BeginInv
<1>4. CASE DispatchFails(c)
  <2>1. Active(c)
    BY <1>4 DEF DispatchFails, Active, Underway
  <2> QED
    BY <1>4, <2>1, ActiveCall, ReturnInv DEF DispatchFails, Outcome, IInv
<1>5. ASSUME NEW body \in Body, NEW throwing \in {{}, {"project"}}, Work(c, body, throwing)
      PROVE  IInv'
  BY <1>5, WorkInv
<1>6. CASE Advance(c)
  BY <1>6, AdvanceInv
<1>7. CASE TryAgain(c)
  BY <1>7, TryAgainInv
<1>8. CASE GiveUp(c)
  <2>1. Active(c)
    BY <1>8 DEF GiveUp, Active, Underway
  <2> QED
    BY <1>8, <2>1, ActiveCall, ReturnInv DEF GiveUp, Outcome, IInv
<1>9. CASE Forget(c)
  BY <1>9, ForgetInv
<1> QED
  BY <1>1, <1>2, <1>3, <1>4, <1>5, <1>6, <1>7, <1>8, <1>9 DEF Loop

LEMMA StutterInv == ASSUME IInv, UNCHANGED vars PROVE IInv'
<1>1. UNCHANGED <<docs, config, calls, takes, hands, byHand, shared, ungated>>
  BY DEF vars
<1>2. TypeOK' /\ OwnInv'
  BY <1>1 DEF IInv, TypeOK, OwnInv, Active
<1>3. HeldInv'
  BY <1>1 DEF IInv, HeldInv, HeldBy, Active
<1>4. JudgedInv'
  BY <1>1 DEF IInv, JudgedInv, JudgedFor, SelectGates, Last
<1> QED
  BY <1>1, <1>2, <1>3, <1>4, DocumentsRest DEF IInv

-----------------------------------------------------------------------------
\* The theorems.

\* The invariant that all of them come from.
THEOREM Invariant == Spec => []IInv
<1>1. Init => IInv
  BY InitInv
<1>2. ASSUME IInv, [Next]_vars PROVE IInv'
  BY <1>2, LoopInv, KilledInv, ByHandInv, StutterInv DEF Next
<1> QED
  BY <1>1, <1>2, PTL DEF Spec

\* Documents, calls and configuration keep their types.
THEOREM TypeCorrect == Spec => []TypeOK
<1>1. IInv => TypeOK
  BY DEF IInv
<1> QED
  BY <1>1, Invariant, PTL

\* However the calls interleave and whichever are killed, a low-pass task that
\* people leave alone, and whose scaffold is left alone by people and has not been
\* worked on by two calls at a time, is past todo only over a scaffold that is
\* completed (assertCanStart, and the writes of runLoop).
THEOREM HandoffIsKept == Spec => []LowPassRestsOnItsScaffold
<1>1. IInv => LowPassRestsOnItsScaffold
  BY DEF IInv, ScaffoldInv, ScaffoldDone, LowPassRestsOnItsScaffold
<1> QED
  BY <1>1, Invariant, PTL

\* What loops brought into its last phase passes what its rule asks of the body, on
\* however many calls a document was handed to (runLoop judges what it writes).
THEOREM CompletionIsJustified == Spec => []FinishedPassedItsGates
<1>1. IInv => FinishedPassedItsGates
  BY DEF IInv
<1> QED
  BY <1>1, Invariant, PTL

\* One document's phase in a step that writes it, or does not.
LEMMA WriteAdvances ==
  ASSUME IInv, NEW c \in Call, Active(c), NEW new,
         docs' = docs \/ docs' = [docs EXCEPT ![calls[c].code] = new],
         new.level = calls[c].held.level,
         PhaseIndex(new.level, calls[c].held.phase) <= PhaseIndex(new.level, new.phase),
         NEW code \in Doc, code \notin byHand \cup shared
  PROVE  PhaseIndex(docs[code].level, docs[code].phase)
           <= PhaseIndex(docs'[code].level, docs'[code].phase)
<1>1. HeldBy(c) /\ docs \in [Doc -> Document]
  BY DEF IInv, HeldInv, TypeOK
<1>2. CASE docs'[code] = docs[code]
  <2>1. PhaseIndex(docs[code].level, docs[code].phase) \in Nat
    BY <1>1, PhaseOfIndex, Phases DEF IInv, PhaseInv, Document
  <2> QED
    BY <1>2, <2>1
<1>3. CASE docs'[code] # docs[code]
  <2>1. code = calls[c].code /\ docs'[code] = new
    BY <1>1, <1>3
  <2> QED
    BY <1>1, <2>1 DEF HeldBy
<1> QED
  BY <1>2, <1>3

LEMMA RestAdvances ==
  ASSUME IInv, NEW code \in Doc, docs'[code] = docs[code]
  PROVE  PhaseIndex(docs[code].level, docs[code].phase)
           <= PhaseIndex(docs'[code].level, docs'[code].phase)
<1>1. PhaseIndex(docs[code].level, docs[code].phase) \in Nat
  BY PhaseOfIndex, Phases DEF IInv, PhaseInv, TypeOK, Document
<1> QED
  BY <1>1

\* No document goes back that only loops have written and no two calls have worked
\* on at a time, though each write of runLoop puts the document as the call holds it.
THEOREM NoLoopTakesBack == Spec => LoopsOnlyAdvance
<1> DEFINE Advances(code) == PhaseIndex(docs[code].level, docs[code].phase)
                               <= PhaseIndex(docs'[code].level, docs'[code].phase)
<1>1. ASSUME IInv, Next, NEW code \in Doc \ (byHand' \cup shared') PROVE Advances(code)
  <2>1. ASSUME NEW c \in Call, Begin(c) PROVE Advances(code)
    <3> DEFINE held == calls[c].held
               new  == Promote(held)
    <3>1. Active(c)
      BY <2>1 DEF Begin, Active, Underway
    <3>2. held \in Document /\ held.phase \in PhaseOf(held.level)
      BY <1>1, <3>1, ActiveCall DEF IInv, HeldInv, HeldBy
    <3>3. new.level = held.level /\ PhaseIndex(new.level, held.phase) <= PhaseIndex(new.level, new.phase)
      BY <3>2, PromotedDocument
    <3> HIDE DEF new
    <3>4. (docs' = docs \/ docs' = [docs EXCEPT ![calls[c].code] = new]) /\ byHand' = byHand /\ shared' = shared
      BY <2>1 DEF Begin, Write, new
    <3> QED
      BY <1>1, <3>1, <3>3, <3>4, WriteAdvances
  <2>2. ASSUME NEW c \in Call, NEW body \in Body, NEW throwing, Work(c, body, throwing)
        PROVE  Advances(code)
    <3> DEFINE held == calls[c].held
               new  == [held EXCEPT !.body = body]
    <3>1. Active(c)
      BY <2>2 DEF Work, Active, Underway
    <3>2. held \in Document /\ held.phase \in PhaseOf(held.level)
      BY <1>1, <3>1, ActiveCall DEF IInv, HeldInv, HeldBy
    <3>3. new.level = held.level /\ new.phase = held.phase
      BY <3>2, RewrittenDocument
    <3>4. PhaseIndex(held.level, held.phase) \in Nat
      BY <3>2, PhaseOfIndex, Phases DEF Document
    <3>5. docs' = [docs EXCEPT ![calls[c].code] = new] /\ byHand' = byHand /\ shared' = shared
      BY <2>2 DEF Work, Write
    <3>6. PhaseIndex(new.level, held.phase) <= PhaseIndex(new.level, new.phase)
      BY <3>3, <3>4
    <3> HIDE DEF new
    <3> QED
      BY <1>1, <3>1, <3>3, <3>5, <3>6, WriteAdvances
  <2>3. ASSUME NEW c \in Call, Advance(c) PROVE Advances(code)
    <3> DEFINE held == calls[c].held
               new  == [held EXCEPT !.phase = NextPhase(held.level, held.phase)]
    <3>1. Active(c)
      BY <2>3 DEF Advance, Active, Underway
    <3>2. held \in Document /\ held.phase \in PhaseOf(held.level) /\ held.level \in Level
      BY <1>1, <3>1, ActiveCall DEF IInv, HeldInv, HeldBy, Document
    <3>3. CASE Last(held)
      BY <1>1, <2>3, <3>3, RestAdvances DEF Advance
    <3>4. CASE ~ Last(held)
      <4>1. new.level = held.level /\ new.phase = NextPhase(held.level, held.phase)
        BY <3>2 DEF Document
      <4>2. PhaseIndex(held.level, held.phase) <= PhaseIndex(held.level, NextPhase(held.level, held.phase))
        BY <3>2, <3>4, NextPhaseIsNext, PhaseOfIndex, Phases DEF Last
      <4>3. docs' = [docs EXCEPT ![calls[c].code] = new] /\ byHand' = byHand /\ shared' = shared
        BY <2>3, <3>4 DEF Advance, Write
      <4> HIDE DEF new
      <4> QED
        BY <1>1, <3>1, <4>1, <4>2, <4>3, WriteAdvances
    <3> QED
      BY <3>3, <3>4
  <2>4. ASSUME ByHand PROVE Advances(code)
    <3>1. docs'[code] = docs[code]
      BY <1>1, <2>4 DEF ByHand, EditByHand, TransitionByHand, Hand, IInv, TypeOK
    <3> QED
      BY <1>1, <3>1, RestAdvances
  <2>5. ASSUME docs' = docs PROVE Advances(code)
    BY <1>1, <2>5, RestAdvances
  <2>6. ASSUME NEW c \in Call, Loop(c) PROVE Advances(code)
    <3>1. \/ docs' = docs \/ Begin(c) \/ Advance(c)
          \/ \E body \in Body, throwing \in {{}, {"project"}} : Work(c, body, throwing)
      BY <2>6 DEF Loop, Take, RejectScaffold, DispatchFails, TryAgain, GiveUp, Forget
    <3> QED
      BY <2>1, <2>2, <2>3, <2>5, <3>1
  <2> HIDE DEF Advances
  <2> QED
    BY <1>1, <2>4, <2>5, <2>6 DEF Next, Killed
<1>2. ASSUME IInv, [Next]_vars PROVE [\A code \in Doc \ (byHand' \cup shared') : Advances(code)]_vars
  BY <1>1, <1>2
<1> QED
  BY <1>2, Invariant, PTL DEF Spec, LoopsOnlyAdvance
=============================================================================
