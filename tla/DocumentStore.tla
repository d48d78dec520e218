---------------------------- MODULE DocumentStore ----------------------------
(***************************************************************************)
(* Where katana keeps its documents: a markdown file for people and git, a  *)
(* row in sqlite for the tools. SqliteStorage writes both in one            *)
(* transaction, the file as soon as the transaction comes to it;            *)
(* syncWorkspace takes over into the rows what has become of the files.     *)
(*                                                                          *)
(* better-sqlite3 is synchronous, so a transaction, like a whole sync, is   *)
(* one step; a kill in it leaves the file, whole or torn, and no row. The   *)
(* requests of one level of document are modelled, whose short codes come   *)
(* from one counter. A file is named after the code of its document; the    *)
(* initiative gives the directory.                                          *)
(***************************************************************************)
EXTENDS Naturals

CONSTANTS Place,         \* directories, one per initiative
          LastCode,      \* the last code that four digits can write
          LastPhase,     \* phases of the level, numbered from 1 (PHASES_BY_LEVEL)
          Body,          \* what the body of a document may say, as it comes back from a file
          Request,       \* calls of transition_phase under way at a time
          Collaborators, \* do people change the files?
          MaxClock       \* bound: contents that get a time stamp of their own

DocumentStoreAssumption ==
  /\ LastCode \in Nat /\ LastPhase \in Nat \ {0} /\ MaxClock \in Nat
  /\ Collaborators \in BOOLEAN
  /\ "cut" \notin Body

VARIABLES files,    \* what is on disk
          rows,     \* the table documents
          counter,  \* short_code_counters.next_n
          asked,    \* the document that a transition has read before its await
          clock,    \* the time of day
          clean,    \* history: paths last written by a call, or a sync, that succeeded
          back      \* history: files that people made again what the row's hash is of

vars == <<files, rows, counter, asked, clock, clean, back>>

Code == 1..LastCode
Phase == 1..LastPhase
Path == Code \X Place
CodeOf(p) == p[1]

\* Frontmatter and body. archived: what the frontmatter says; updated: its time
\* stamp, which no two writes share; born: created_at, and by that which document
\* it is. A write that is cut short may leave a body cut.
Document == [phase : Phase, archived : BOOLEAN, body : Body \cup {"cut"},
             updated : 1..MaxClock, born : 1..MaxClock]
NoFile == [kind |-> "none"]
Unreadable == [kind |-> "unreadable"] \* torn, or frontmatter that is malformed
NoRow == [kind |-> "none"]
Readable(p) == files[p] \in Document

\* frontmatter_json and body, file_hash (by what was hashed), the column archived.
Row == [doc : Document, hash : Document, archived : BOOLEAN]
RowOf(d) == [doc |-> d, hash |-> d, archived |-> d.archived]
HasRow(p) == rows[p] # NoRow

NotAsked == [kind |-> "none"]

TypeOK ==
  /\ files \in [Path -> Document \cup {NoFile, Unreadable}]
  /\ rows \in [Path -> Row \cup {NoRow}]
  /\ counter \in 1..(LastCode + 1)
  /\ asked \in [Request -> [code : Code, phase : Phase] \cup {NotAsked}]
  /\ clock \in 0..MaxClock
  /\ clean \in [Path -> BOOLEAN]
  /\ back \in [Path -> BOOLEAN]

Init ==
  /\ files = [p \in Path |-> NoFile] /\ rows = [p \in Path |-> NoRow]
  /\ counter = 1 /\ asked = [r \in Request |-> NotAsked] /\ clock = 0
  /\ clean = [p \in Path |-> FALSE] /\ back = [p \in Path |-> FALSE]

-----------------------------------------------------------------------------
\* The files.

Put(p, content) ==
  /\ files' = [files EXCEPT ![p] = content]
  /\ back' = [back EXCEPT ![p] = FALSE]

Now == clock < MaxClock /\ clock' = clock + 1

\* writeMarkdown, and then the end of the process: sqlite rolls back.
KilledAfterWriting(p, d) ==
  /\ \E content \in {d, [d EXCEPT !.body = "cut"], Unreadable} : Put(p, content)
  /\ clean' = [clean EXCEPT ![p] = FALSE]
  /\ asked' = [r \in Request |-> NotAsked]
  /\ UNCHANGED <<rows, counter>>

\* writeMarkdown, the statement and the commit.
Written(p, d, row) ==
  /\ Put(p, d)
  /\ rows' = [rows EXCEPT ![p] = row]
  /\ clean' = [clean EXCEPT ![p] = TRUE]

-----------------------------------------------------------------------------
\* create: the next code, the file, the row.

NewDocument(body) == 
  [phase |-> 1, archived |-> FALSE, body |-> body, updated |-> clock', born |-> clock']

\* UNIQUE(short_code) holds for archived rows too.
Taken(code) == \E p \in Path : CodeOf(p) = code /\ HasRow(p)

\* The insert of a code that a row has already fails, which rolls back the
\* counter and leaves the file.
Create(place, body) ==
  LET p == <<counter, place>> IN
  /\ counter \in Code /\ Now
  /\ IF Taken(counter)
     THEN /\ Put(p, NewDocument(body))
          /\ clean' = [clean EXCEPT ![p] = FALSE]
          /\ UNCHANGED <<rows, counter>>
     ELSE /\ Written(p, NewDocument(body), RowOf(NewDocument(body)))
          /\ counter' = counter + 1
  /\ UNCHANGED asked

KilledInCreate(place, body) ==
  /\ counter \in Code /\ Now
  /\ KilledAfterWriting(<<counter, place>>, NewDocument(body))

-----------------------------------------------------------------------------
\* edit: of the body that the row knows, whatever the file says.

Current(p) == HasRow(p) /\ ~ rows[p].archived

\* The search text is found in bodies that say it.
Found(p, search) == Current(p) /\ rows[p].doc.body = search

Edit(p, search, replace) ==
  LET d == [rows[p].doc EXCEPT !.body = replace] IN
  /\ Found(p, search)
  /\ Written(p, d, [rows[p] EXCEPT !.doc = d, !.hash = d])
  /\ UNCHANGED <<counter, asked, clock>>

KilledInEdit(p, search, replace) ==
  /\ Found(p, search)
  /\ KilledAfterWriting(p, [rows[p].doc EXCEPT !.body = replace])
  /\ UNCHANGED clock

-----------------------------------------------------------------------------
\* transition_phase: the document is read, and after an await patched.

Read(r, p) ==
  /\ asked[r] = NotAsked /\ Current(p)
  /\ asked' = [asked EXCEPT ![r] = [code |-> CodeOf(p), phase |-> rows[p].doc.phase]]
  /\ UNCHANGED <<files, rows, counter, clock, clean, back>>

\* The next phase, or a later one; any phase with force.
MayEnter(r, target, force) == force \/ target > asked[r].phase

Patched(p, target) == [rows[p].doc EXCEPT !.phase = target, !.updated = clock']

\* patchFrontmatter leaves the column file_hash as it was.
Transition(r, p, target, force) ==
  /\ asked[r] # NotAsked /\ CodeOf(p) = asked[r].code /\ Current(p)
  /\ MayEnter(r, target, force) /\ Now
  /\ Written(p, Patched(p, target), [rows[p] EXCEPT !.doc = Patched(p, target),
                                                     !.archived = Patched(p, target).archived])
  /\ asked' = [asked EXCEPT ![r] = NotAsked]
  /\ UNCHANGED counter

KilledInTransition(r, p, target, force) ==
  /\ asked[r] # NotAsked /\ CodeOf(p) = asked[r].code /\ Current(p)
  /\ MayEnter(r, target, force) /\ Now
  /\ KilledAfterWriting(p, Patched(p, target))

\* Blocked, at the last phase, or the document is archived meanwhile.
TransitionRejected(r) ==
  /\ asked[r] # NotAsked
  /\ asked' = [asked EXCEPT ![r] = NotAsked]
  /\ UNCHANGED <<files, rows, counter, clock, clean, back>>

-----------------------------------------------------------------------------
\* syncWorkspace.

\* What it does with the files that it can read and with the other rows. Of
\* files with one code at most one gets a row, and none if there is a row with
\* that code, archived or not, for another path: an error of the report.
Updated == {p \in Path : Readable(p) /\ HasRow(p) /\ rows[p].hash # files[p]}
Insertable == {p \in Path : Readable(p) /\ ~ Taken(CodeOf(p))}
Inserted == {chosen \in SUBSET Insertable :
               \A p \in Insertable : \E q \in chosen :
                 \A s \in chosen : CodeOf(s) = CodeOf(p) <=> s = q}
Orphaned == {p \in Path : HasRow(p) /\ ~ Readable(p)}

\* Mutation: the columns that are set on conflict do not include the hash.
UpsertWithoutHash(p) ==
  IF HasRow(p) THEN [RowOf(files[p]) EXCEPT !.hash = rows[p].hash] ELSE RowOf(files[p])

\* Mutation: nor whether the document is archived.
UpsertWithoutArchived(p) ==
  IF HasRow(p) THEN [RowOf(files[p]) EXCEPT !.archived = rows[p].archived] ELSE RowOf(files[p])

Upsert(p) == RowOf(files[p])

\* A file that cannot be read counts as one that is gone.
Synced(p, inserted) ==
  IF p \in inserted \cup Updated THEN Upsert(p)
  ELSE IF p \in Orphaned THEN [rows[p] EXCEPT !.archived = TRUE]
  ELSE rows[p]

Sync ==
  /\ \E inserted \in Inserted :
       /\ rows' = [p \in Path |-> Synced(p, inserted)]
       /\ clean' = [p \in Path |-> Readable(p) /\ (HasRow(p) \/ p \in inserted)]
  /\ UNCHANGED <<files, counter, asked, clock, back>>

-----------------------------------------------------------------------------
\* The people who share the repository.

Changed(p, content) ==
  /\ Collaborators
  /\ Put(p, content) /\ clean' = [clean EXCEPT ![p] = FALSE]
  /\ UNCHANGED <<rows, counter, asked>>

FileEdited(p, body, phase, archived) ==
  /\ Readable(p) /\ Now
  /\ Changed(p, [files[p] EXCEPT !.body = body, !.phase = phase, !.archived = archived,
                                !.updated = clock'])

\* A document that was created elsewhere, with its code.
FileAdded(p, body) ==
  /\ files[p] = NoFile /\ ~ HasRow(p) /\ Now
  /\ Changed(p, NewDocument(body))

FileSpoiled(p) == Readable(p) /\ Changed(p, Unreadable) /\ UNCHANGED clock
FileRemoved(p) == files[p] # NoFile /\ Changed(p, NoFile) /\ UNCHANGED clock

\* mv, within a clone or by git: the document keeps its name.
FileMoved(p, q) ==
  /\ Collaborators /\ Readable(p) /\ files[q] = NoFile /\ CodeOf(p) = CodeOf(q)
  /\ files' = [files EXCEPT ![p] = NoFile, ![q] = files[p]]
  /\ clean' = [clean EXCEPT ![p] = FALSE, ![q] = FALSE]
  /\ back' = [back EXCEPT ![p] = FALSE, ![q] = HasRow(q) /\ files[p] = rows[q].hash]
  /\ UNCHANGED <<rows, counter, asked, clock>>

\* git checkout. What else a file held before is to a sync like any edit.
FileBroughtBack(p) ==
  /\ Collaborators /\ HasRow(p) /\ files[p] # rows[p].hash
  /\ files' = [files EXCEPT ![p] = rows[p].hash]
  /\ clean' = [clean EXCEPT ![p] = FALSE]
  /\ back' = [back EXCEPT ![p] = TRUE]
  /\ UNCHANGED <<rows, counter, asked, clock>>

ToolCall ==
  \/ \E place \in Place, body \in Body : Create(place, body)
  \/ \E p \in Path, search \in Body, replace \in Body : Edit(p, search, replace)
  \/ \E r \in Request, p \in Path : Read(r, p)
  \/ \E r \in Request, p \in Path, target \in Phase, force \in BOOLEAN :
       Transition(r, p, target, force)
  \/ \E r \in Request : TransitionRejected(r)
Kill ==
  \/ \E place \in Place, body \in Body : KilledInCreate(place, body)
  \/ \E p \in Path, search \in Body, replace \in Body : KilledInEdit(p, search, replace)
  \/ \E r \in Request, p \in Path, target \in Phase, force \in BOOLEAN :
       KilledInTransition(r, p, target, force)
FileChange ==
  \/ \E p \in Path, body \in Body, phase \in Phase, archived \in BOOLEAN :
       FileEdited(p, body, phase, archived)
  \/ \E p \in Path, body \in Body : FileAdded(p, body)
  \/ \E p \in Path : FileSpoiled(p) \/ FileRemoved(p) \/ FileBroughtBack(p)
  \/ \E p \in Path, q \in Path : FileMoved(p, q)

Next == ToolCall \/ Kill \/ Sync \/ FileChange

Spec == Init /\ [][Next]_vars
-----------------------------------------------------------------------------
\* "This module always writes both the file and the row", and the sync "re-
\* conciles file<->row drift": after a call that succeeded, or a sync that
\* reported no error, the row says what the file says, and is archived only if
\* the file says so, until someone changes the file or a call fails in the middle. The exception is a file that comes
\* back as it was when it was last hashed: the sync skips it, although the row
\* has been patched since, or archived.
StoresAgree ==
  \A p \in Path : clean[p] /\ ~ back[p] =>
    HasRow(p) /\ rows[p].archived = files[p].archived /\ files[p] = rows[p].doc

\* "Running twice in a row produces zero changes on the second run", whatever
\* has become of the files before the first.
SyncSettles ==
  [][ Sync => (/\ Updated = {} /\ Insertable = {}
               /\ \A p \in Orphaned : rows[p].archived)' ]_vars

-----------------------------------------------------------------------------
\* What the documents promise and this code does not keep.

\* "Once a numeric tail is assigned to a type, it is never reassigned": the
\* file of a document is that document's.
CodesAreNotReused ==
  \A p \in Path : HasRow(p) /\ Readable(p) => files[p].born = rows[p].doc.born

\* "Forward-only state machines": without force no document goes back, however
\* many transitions are under way.
PhasesMoveForward ==
  [][ \A r \in Request, p \in Path, target \in Phase :
        Transition(r, p, target, FALSE) => rows[p].doc.phase < rows'[p].doc.phase ]_vars

\* "SHA-256 of the on-disk file contents".
HashIsOfTheFile ==
  \A p \in Path : clean[p] => rows[p].hash = files[p]
=============================================================================
