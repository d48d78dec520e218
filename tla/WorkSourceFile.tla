---------------------------- MODULE WorkSourceFile ----------------------------
(***************************************************************************)
(* The WorkSource as a file: the Markdown checklist and the JSON list. Every   *)
(* call of the Supervisor reads the file, works on what it read and writes    *)
(* all of it back, without a lock or a rename; humans edit the file between   *)
(* any two steps, and the process may be killed in the middle of a write.     *)
(***************************************************************************)
EXTENDS Naturals, Sequences, SequencesExt, FiniteSets

CONSTANTS Title, Definition, \* what a human, or a follow-up, may write down
          FirstLine,        \* of a title that has several: the title that it is
          None,
          MaxTasks,         \* bound: tasks in the file
          MaxEdits          \* bound: edits by humans, and kills

FileAssumption == FirstLine \in [Title -> Title] /\ None \notin Definition /\ MaxTasks \in Nat

VARIABLES format,
          file,
          held,   \* what the call under way has read
          call,   \* the call under way
          pc,
          edits   \* edits and kills so far

vars == <<format, file, held, call, pc, edits>>

Status == {"todo", "active", "done", "blocked"}

\* What the Supervisor gets to see of a task.
View == [status : Status, def : Definition \cup {None}, child : BOOLEAN]

-----------------------------------------------------------------------------
\* The checklist: items; after an item there may be a comment that holds what
\* the checkbox cannot. Comments that do not decode count as none when read.
Item == [kind : {"item"}, title : Title, checked : BOOLEAN]
Comment == [kind : {"comment"}, status : {"none", "active", "blocked"},
            def : Definition \cup {None}, child : BOOLEAN]
Garbled == [kind |-> "garbled"]
Text == [kind |-> "text"]
NoComment == [kind |-> "comment", status |-> "none", def |-> None, child |-> FALSE]

ItemsAt(lines) == {i \in DOMAIN lines : lines[i].kind = "item"}

CommentOf(lines, i) ==
  IF i < Len(lines) /\ lines[i + 1].kind = "comment" THEN lines[i + 1] ELSE NoComment

\* The id: the title, and which of the items of that title it is.
MarkdownId(lines, i) ==
  <<lines[i].title, Cardinality({j \in ItemsAt(lines) : j <= i /\ lines[j].title = lines[i].title})>>

MarkdownView(lines, i) ==
  LET comment == CommentOf(lines, i)
  IN [status |-> IF lines[i].checked THEN "done"
                 ELSE IF comment.status = "none" THEN "todo" ELSE comment.status,
      def |-> comment.def, child |-> comment.child]

\* replaceMetadataLine: a comment that does not decode is replaced too.
Commented(lines, i, comment) ==
  IF i < Len(lines) /\ lines[i + 1].kind \in {"comment", "garbled"}
  THEN [lines EXCEPT ![i + 1] = comment] ELSE InsertAt(lines, i + 1, comment)

\* Mutation: the comment is written anew, with what the call brings.
MarkedAnew(lines, i, status) ==
  Commented([lines EXCEPT ![i].checked = status = "done"], i,
            [NoComment EXCEPT !.status = IF status \in {"active", "blocked"} THEN status ELSE "none"])

\* A status that the checkbox shows is not in the comment.
Marked(lines, i, status) ==
  Commented([lines EXCEPT ![i].checked = status = "done"], i,
            [CommentOf(lines, i) EXCEPT !.status =
               IF status \in {"active", "blocked"} THEN status ELSE "none"])

Patched(lines, i, def) == Commented(lines, i, [CommentOf(lines, i) EXCEPT !.def = def])

\* The item shows the title's first line, and is looked for by all of it; what
\* follows of the title comes between the item and its comment.
Appended(lines, title, def, child) ==
  LET item == [kind |-> "item", title |-> FirstLine[title], checked |-> FALSE]
      comment == [NoComment EXCEPT !.def = def, !.child = child]
  IN lines \o IF FirstLine[title] = title THEN <<item, comment>> ELSE <<item, Text, comment>>

AppendedId(lines, title) ==
  <<title, 1 + Cardinality({i \in ItemsAt(lines) : lines[i].title = title})>>

-----------------------------------------------------------------------------
\* The JSON list, in its order. The revision that a record stores is left out: it
\* changes with every call on the record, and with no edit by hand.
Record == [kind : {"record"}, id : Title \X (1..MaxTasks), view : View]
Torn == [kind |-> "torn"]

\* An id that no record has, whatever records had it before.
FreeId(records, title) ==
  LET used == {records[i].id : i \in DOMAIN records}
  IN <<title, CHOOSE n \in 1..MaxTasks + 1 :
                <<title, n>> \notin used /\ \A k \in 1..n - 1 : <<title, k>> \in used>>

\* tasks.map: every record of the id becomes the one given, as a human may have
\* copied the record and its id with it.
Replaced(records, record) ==
  [i \in DOMAIN records |-> IF records[i].id = record.id THEN record ELSE records[i]]

NewRecord(records, title, def, child) ==
  [kind |-> "record", id |-> FreeId(records, title),
   view |-> [status |-> "todo", def |-> def, child |-> child]]

-----------------------------------------------------------------------------
\* Either.

\* A JSON file that is not one is refused; an empty one has no tasks.
Readable(content) == Torn \notin Range(content)

Entries(content) == IF format = "json" THEN DOMAIN content ELSE ItemsAt(content)
IdAt(content, i) == IF format = "json" THEN content[i].id ELSE MarkdownId(content, i)
ViewAt(content, i) == IF format = "json" THEN content[i].view ELSE MarkdownView(content, i)

\* listTasks: what there is under an id.
Found(content, id) == {i \in Entries(content) : IdAt(content, i) = id}
Seen(content, id) == {ViewAt(content, i) : i \in Found(content, id)}

\* find: the first one of the id.
First(content, id) ==
  CHOOSE i \in Found(content, id) : \A j \in Found(content, id) : i <= j

Ids(content) == {IdAt(content, i) : i \in Entries(content)}

Mark == [op : {"mark"}, id : Title \X (1..MaxTasks), status : Status]
Patch == [op : {"patch"}, id : Title \X (1..MaxTasks), def : Definition]
\* A follow-up gets the parent of the task that it follows.
Create == [op : {"create"}, title : Title, def : Definition, child : {TRUE}]

\* The id that the call is about.
IdOf(content, c) ==
  IF c.op # "create" THEN c.id
  ELSE IF format = "json" THEN FreeId(content, c.title) ELSE AppendedId(content, c.title)

Outcome(content, c) ==
  LET i == First(content, c.id)
  IN CASE c.op = "create" /\ format = "markdown" -> Appended(content, c.title, c.def, c.child)
       [] c.op = "create" /\ format = "json" -> Append(content, NewRecord(content, c.title, c.def, c.child))
       [] c.op = "mark" /\ format = "markdown" -> Marked(content, i, c.status)
       [] c.op = "mark" /\ format = "json" -> Replaced(content, [content[i] EXCEPT !.view.status = c.status])
       [] c.op = "patch" /\ format = "markdown" -> Patched(content, i, c.def)
       [] c.op = "patch" /\ format = "json" -> Replaced(content, [content[i] EXCEPT !.view.def = c.def])

NoCall == [op |-> "none"]

Init == /\ format \in {"markdown", "json"} /\ file = <<>> /\ held = <<>>
        /\ call = NoCall /\ pc = "idle" /\ edits = 0

\* A call whose task is not there throws.
Read(c) ==
  /\ pc = "idle" /\ Readable(file)
  /\ c.op = "create" => Cardinality(Entries(file)) < MaxTasks
  /\ c.op # "create" => Found(file, c.id) # {}
  /\ held' = file /\ call' = c /\ pc' = "read"
  /\ UNCHANGED <<format, file, edits>>

\* The checklist is read again for the answer, by which time the task may be
\* gone: the call then throws, although it was carried out.
Write ==
  /\ pc = "read"
  /\ file' = Outcome(held, call)
  /\ pc' = "idle" /\ held' = <<>> /\ call' = NoCall
  /\ UNCHANGED <<format, edits>>

\* Killed before the write, or in the middle of it, when some of the content is
\* there: some lines of the checklist; JSON that does not parse, or nothing.
Killed ==
  /\ pc = "read" /\ edits < MaxEdits
  /\ LET written == Outcome(held, call)
     IN file' \in {file} \cup IF format = "json" THEN {<<>>, <<Torn>>}
                             ELSE {SubSeq(written, 1, n) : n \in 0..Len(written)}
  /\ pc' = "idle" /\ held' = <<>> /\ call' = NoCall /\ edits' = edits + 1
  /\ UNCHANGED format

\* What a human may make of a file: a line less, a line more, a box ticked or
\* not; a record more, a definition rewritten or a record copied in the JSON.
Edit ==
  /\ edits < MaxEdits /\ Readable(file)
  /\ \/ \E i \in DOMAIN file : file' = RemoveAt(file, i)
     \/ /\ format = "markdown"
        /\ \/ \E i \in 1..Len(file) + 1, l \in Item \cup {Text, Garbled} :
                file' = InsertAt(file, i, l)
           \/ \E i \in ItemsAt(file) : file' = [file EXCEPT ![i].checked = ~ @]
     \/ /\ format = "json"
        /\ \/ \E i \in 1..Len(file) + 1, t \in Title, d \in Definition :
                file' = InsertAt(file, i, NewRecord(file, t, d, FALSE))
           \/ \E i \in DOMAIN file, d \in Definition : file' = [file EXCEPT ![i].view.def = d]
           \/ \E i \in 1..Len(file) + 1, k \in DOMAIN file, d \in Definition :
                file' = InsertAt(file, i, [file[k] EXCEPT !.view.def = d])
  /\ Cardinality(Entries(file')) <= MaxTasks
  /\ edits' = edits + 1
  /\ UNCHANGED <<format, held, call, pc>>

\* A file that does not parse is put right by hand.
Repair ==
  /\ ~ Readable(file) /\ file' = <<>>
  /\ UNCHANGED <<format, held, call, pc, edits>>

Next ==
  \/ \E c \in Mark \cup Patch \cup Create : Read(c)
  \/ Write \/ Killed \/ Edit \/ Repair

Spec == Init /\ [][Next]_vars
-----------------------------------------------------------------------------
\* Of two contents of the file: the call, about the task of this id, made the
\* second of the first and changed nothing that is to be seen of another task.
\* Of several records with the id, the first is the task.
ChangesOneTask(before, after, c, id) ==
  /\ \A other \in Ids(before) \cup Ids(after) :
       \/ other = id \/ Seen(after, other) = Seen(before, other)
       \/ c.op = "create" /\ FirstLine[c.title] # c.title
  /\ c.op = "mark" =>
       Seen(after, id) = {[ViewAt(before, First(before, id)) EXCEPT !.status = c.status]}
  /\ c.op = "patch" =>
       Seen(after, id) = {[ViewAt(before, First(before, id)) EXCEPT !.def = c.def]}
  /\ c.op = "create" /\ FirstLine[c.title] = c.title =>
       /\ Found(before, id) = {} /\ Cardinality(Found(after, id)) = 1
       /\ Seen(after, id) = {[status |-> "todo", def |-> c.def, child |-> c.child]}

\* A call that nobody interferes with changes the task that it names, in what it
\* names of it, and nothing that is to be seen of any other, whatever humans
\* made of the file before: items of one title, comments that ended up below
\* another item or below none, comments that do not decode, records copied
\* with their id (all of which become what the first becomes). A task that is
\* created is there under the id that the caller gets, once, unless its title
\* has several lines.
CallsChangeOneTask ==
  [][Write /\ held = file => ChangesOneTask(file, file', call, IdOf(file, call))]_vars

\* What the port asks for, and a title of several lines in the checklist denies:
\* "it must be visible to the next listTasks call".
CreatedIsVisible ==
  [][Write /\ call.op = "create" => Found(file', IdOf(held, call)) # {}]_vars
=============================================================================
