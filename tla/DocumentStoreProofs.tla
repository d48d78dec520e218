------------------------- MODULE DocumentStoreProofs -------------------------
(***************************************************************************)
(* That rows and files agree, for all numbers of codes, phases, directories *)
(* and requests. The column file_hash lags behind the row; the argument is  *)
(* that it then names a content older than any that can appear in the file  *)
(* again, unless people bring it back.                                      *)
(***************************************************************************)
EXTENDS Katana, TLAPS

\* A hash that is not that of the row's document is that of an older content. A
\* document that says that it is archived is so in its row.
HashInv ==
  \A p \in Store!Path : Store!HasRow(p) =>
    /\ rows[p].hash.updated <= rows[p].doc.updated /\ rows[p].doc.updated <= clock
    /\ rows[p].hash.updated = rows[p].doc.updated => rows[p].hash = rows[p].doc
    /\ rows[p].doc.archived => rows[p].archived

\* Where a sync would skip the file, there is nothing for it to do.
SkipInv ==
  \A p \in Store!Path : Store!HasRow(p) /\ files[p] = rows[p].hash /\ ~ back[p] =>
    rows[p].doc = files[p] /\ rows[p].archived = files[p].archived

\* No document has the time stamp of a later one.
PastInv == \A p \in Store!Path : Store!Readable(p) => files[p].updated <= clock

IInv == Store!TypeOK /\ PastInv /\ HashInv /\ SkipInv /\ Store!StoresAgree

-----------------------------------------------------------------------------
\* No document is mistaken for a file that is not there, nor a row.
LEMMA Distinct ==
  /\ Store!NoFile \notin Store!Document /\ Store!Unreadable \notin Store!Document
  /\ Store!NoRow \notin Store!Row
BY DEF Store!NoFile, Store!Unreadable, Store!NoRow, Store!Document, Store!Row

LEMMA RowOfType == ASSUME NEW d \in Store!Document PROVE Store!RowOf(d) \in Store!Row
BY DEF Store!RowOf, Store!Row, Store!Document

LEMMA RowFields ==
  ASSUME Store!TypeOK, NEW p \in Store!Path, Store!HasRow(p)
  PROVE  /\ rows[p] \in Store!Row /\ rows[p].doc \in Store!Document /\ rows[p].hash \in Store!Document
         /\ rows[p].archived \in BOOLEAN
BY DEF Store!TypeOK, Store!HasRow, Store!Row

LEMMA DocumentFields ==
  ASSUME NEW d \in Store!Document
  PROVE  /\ d.phase \in Store!Phase /\ d.body \in Text \cup {"cut"}
         /\ d.archived \in BOOLEAN
         /\ d.updated \in 1..MaxClock /\ d.born \in 1..MaxClock
BY DEF Store!Document

\* What a call writes is a document.
LEMMA NewDocumentType ==
  ASSUME Store!TypeOK, Store!Now, NEW body \in Text
  PROVE  Store!NewDocument(body) \in Store!Document /\ Store!NewDocument(body).updated = clock'
BY StoreAssumption DEF Store!TypeOK, Store!Now, Store!NewDocument, Store!Document, Store!Phase,
                       Store!DocumentStoreAssumption

LEMMA EditedType ==
  ASSUME NEW d \in Store!Document, NEW body \in Text \cup {"cut"}
  PROVE  LET e == [d EXCEPT !.body = body] IN
         e \in Store!Document /\ e.updated = d.updated /\ e.archived = d.archived
BY DEF Store!Document

LEMMA PatchedType ==
  ASSUME Store!TypeOK, Store!Now, NEW p \in Store!Path, Store!HasRow(p), NEW target \in Store!Phase
  PROVE  Store!Patched(p, target) \in Store!Document /\ Store!Patched(p, target).updated = clock'
<1>1. rows[p].doc \in Store!Document
  BY RowFields
<1>2. clock' \in 1..MaxClock
  BY StoreAssumption DEF Store!TypeOK, Store!Now, Store!DocumentStoreAssumption
<1> QED
  BY <1>1, <1>2 DEF Store!Patched, Store!Document

-----------------------------------------------------------------------------
\* What every step has to keep, but for the counter and the requests.
StoreType ==
  /\ files \in [Store!Path -> Store!Document \cup {Store!NoFile, Store!Unreadable}]
  /\ rows \in [Store!Path -> Store!Row \cup {Store!NoRow}]
  /\ clock \in 0..MaxClock
  /\ clean \in [Store!Path -> BOOLEAN]
  /\ back \in [Store!Path -> BOOLEAN]

StoreInv == StoreType /\ PastInv /\ HashInv /\ SkipInv /\ Store!StoresAgree

OthersType ==
  /\ counter \in 1..(LastCode + 1)
  /\ asked \in [Request -> [code : Store!Code, phase : Store!Phase] \cup {Store!NotAsked}]

LEMMA InvParts == IInv <=> StoreInv /\ OthersType
BY DEF IInv, Store!TypeOK, StoreInv, StoreType, OthersType

\* A call that succeeds: file and row say the same, and the hash is that of
\* the file or of an older content.
LEMMA WrittenInv ==
  ASSUME StoreInv, clock' \in 0..MaxClock, clock <= clock',
         NEW p \in Store!Path, NEW d \in Store!Document, NEW row \in Store!Row,
         Store!Written(p, d, row),
         row.doc = d, row.archived = d.archived, d.updated <= clock', row.hash.updated <= d.updated,
         row.hash.updated = d.updated => row.hash = d
  PROVE  StoreInv'
<1>1. /\ files' = [files EXCEPT ![p] = d] /\ rows' = [rows EXCEPT ![p] = row]
      /\ clean' = [clean EXCEPT ![p] = TRUE]
  BY DEF Store!Written, Store!Put
<1>2. back' = [back EXCEPT ![p] = FALSE]
  BY DEF Store!Written, Store!Put
<1>3. StoreType'
  BY <1>1, <1>2 DEF StoreInv, StoreType
<1>4. HashInv'
  <2> SUFFICES ASSUME NEW q \in Store!Path, Store!HasRow(q)'
               PROVE  /\ rows'[q].hash.updated <= rows'[q].doc.updated
                      /\ rows'[q].doc.updated <= clock'
                      /\ rows'[q].hash.updated = rows'[q].doc.updated
                           => rows'[q].hash = rows'[q].doc
                      /\ rows'[q].doc.archived => rows'[q].archived
    BY DEF HashInv
  <2>1. CASE q = p
    BY <1>1, <2>1 DEF StoreInv, StoreType
  <2>2. CASE q # p
    <3>1. rows'[q] = rows[q] /\ Store!HasRow(q)
      BY <1>1, <2>2 DEF Store!HasRow, StoreInv, StoreType
    <3>2. rows[q].doc.updated \in Nat /\ clock \in Nat
      BY <3>1, RowFields, DocumentFields DEF StoreInv, StoreType, Store!HasRow, Store!Row
    <3> QED
      BY <3>1, <3>2 DEF StoreInv, HashInv
  <2> QED
    BY <2>1, <2>2
<1>5. SkipInv'
  <2> SUFFICES ASSUME NEW q \in Store!Path, Store!HasRow(q)', files'[q] = rows'[q].hash, ~ back'[q]
               PROVE  rows'[q].doc = files'[q] /\ rows'[q].archived = files'[q].archived
    BY DEF SkipInv
  <2>1. CASE q = p
    BY <1>1, <2>1 DEF StoreInv, StoreType
  <2>2. CASE q # p
    BY <1>1, <1>2, <2>2 DEF StoreInv, StoreType, SkipInv, Store!HasRow
  <2> QED
    BY <2>1, <2>2
<1>7. PastInv'
  <2> SUFFICES ASSUME NEW q \in Store!Path, Store!Readable(q)'
               PROVE  files'[q].updated <= clock'
    BY DEF PastInv
  <2>1. CASE q = p
    BY <1>1, <2>1 DEF StoreInv, StoreType
  <2>2. CASE q # p
    <3>1. files'[q] = files[q] /\ Store!Readable(q)
      BY <1>1, <2>2 DEF Store!Readable, StoreInv, StoreType
    <3>2. files[q].updated \in Nat /\ clock \in Nat
      BY <3>1, DocumentFields DEF StoreInv, StoreType, Store!Readable
    <3> QED
      BY <3>1, <3>2 DEF StoreInv, PastInv
  <2> QED
    BY <2>1, <2>2
<1>6. Store!StoresAgree'
  <2> SUFFICES ASSUME NEW q \in Store!Path, clean'[q], ~ back'[q]
               PROVE  /\ Store!HasRow(q)' /\ rows'[q].archived = files'[q].archived
                      /\ files'[q] = rows'[q].doc
    BY DEF Store!StoresAgree
  <2>1. CASE q = p
    BY <1>1, <2>1, Distinct DEF StoreInv, StoreType, Store!HasRow
  <2>2. CASE q # p
    BY <1>1, <1>2, <2>2 DEF StoreInv, StoreType, Store!StoresAgree, Store!HasRow
  <2> QED
    BY <2>1, <2>2
<1> QED
  BY <1>3, <1>4, <1>5, <1>6, <1>7 DEF StoreInv

\* Files that change without their rows: a file that is now what its row's
\* hash is of is what the row says, or someone brought it back.
LEMMA FilesOnlyInv ==
  ASSUME StoreInv, clock' \in 0..MaxClock, clock <= clock', rows' = rows,
         files' \in [Store!Path -> Store!Document \cup {Store!NoFile, Store!Unreadable}],
         clean' \in [Store!Path -> BOOLEAN], back' \in [Store!Path -> BOOLEAN],
         \A q \in Store!Path : clean'[q] => clean[q] /\ files'[q] = files[q] /\ (back[q] => back'[q]),
         \A q \in Store!Path : Store!HasRow(q) /\ files'[q] = rows[q].hash /\ ~ back'[q] =>
           rows[q].doc = files'[q] /\ rows[q].archived = files'[q].archived,
         \A q \in Store!Path : Store!Readable(q)' => files'[q].updated <= clock'
  PROVE  StoreInv'
<1>1. StoreType'
  BY DEF StoreInv, StoreType
<1>2. HashInv'
  <2>1. ASSUME NEW q \in Store!Path, Store!HasRow(q) PROVE rows[q].doc.updated <= clock'
    <3>1. rows[q].doc.updated \in Nat /\ clock \in Nat
      BY <2>1, DocumentFields DEF StoreInv, StoreType, Store!HasRow, Store!Row
    <3> QED
      BY <2>1, <3>1 DEF StoreInv, HashInv
  <2> QED
    BY <2>1 DEF StoreInv, HashInv, Store!HasRow
<1>3. SkipInv'
  BY DEF SkipInv, Store!HasRow
<1>4. Store!StoresAgree'
  BY DEF StoreInv, Store!StoresAgree, Store!HasRow
<1> QED
  BY <1>1, <1>2, <1>3, <1>4 DEF StoreInv, PastInv

\* One file that changes.
LEMMA FileOnlyInv ==
  ASSUME StoreInv, clock' \in 0..MaxClock, clock <= clock', rows' = rows,
         NEW p \in Store!Path, NEW content \in Store!Document \cup {Store!NoFile, Store!Unreadable},
         Store!Put(p, content), clean' = [clean EXCEPT ![p] = FALSE],
         content \in Store!Document => content.updated <= clock',
         Store!HasRow(p) /\ content = rows[p].hash =>
           rows[p].doc = content /\ rows[p].archived = content.archived
  PROVE  StoreInv'
<1>1. /\ files' = [files EXCEPT ![p] = content]
      /\ back' = [back EXCEPT ![p] = FALSE]
  BY DEF Store!Put
<1>2. /\ files' \in [Store!Path -> Store!Document \cup {Store!NoFile, Store!Unreadable}]
      /\ clean' \in [Store!Path -> BOOLEAN]
      /\ back' \in [Store!Path -> BOOLEAN]
  BY <1>1 DEF StoreInv, StoreType
<1>3. ASSUME NEW q \in Store!Path, clean'[q]
      PROVE  clean[q] /\ files'[q] = files[q] /\ back'[q] = back[q]
  BY <1>1, <1>3 DEF StoreInv, StoreType
<1>4. ASSUME NEW q \in Store!Path, Store!HasRow(q), files'[q] = rows[q].hash, ~ back'[q]
      PROVE  rows[q].doc = files'[q] /\ rows[q].archived = files'[q].archived
  <2>1. CASE q = p
    BY <1>1, <1>4, <2>1 DEF StoreInv, StoreType
  <2>2. CASE q # p
    BY <1>1, <1>4, <2>2 DEF StoreInv, StoreType, SkipInv
  <2> QED
    BY <2>1, <2>2
<1>5. ASSUME NEW q \in Store!Path, Store!Readable(q)'
      PROVE  files'[q].updated <= clock'
  <2>1. CASE q = p
    BY <1>1, <1>5, <2>1 DEF StoreInv, StoreType, Store!Readable
  <2>2. CASE q # p
    <3>1. files'[q] = files[q] /\ Store!Readable(q)
      BY <1>1, <1>5, <2>2 DEF Store!Readable, StoreInv, StoreType
    <3>2. files[q].updated \in Nat /\ clock \in Nat
      BY <3>1, DocumentFields DEF StoreInv, StoreType, Store!Readable
    <3> QED
      BY <3>1, <3>2 DEF StoreInv, PastInv
  <2> QED
    BY <2>1, <2>2
<1> QED
  BY <1>2, <1>3, <1>4, <1>5, FilesOnlyInv

\* A write that is not followed by its commit. The body may be cut short; the
\* time stamp tells whether what is in the file can be what was hashed.
LEMMA KilledInv ==
  ASSUME StoreInv, clock' \in 0..MaxClock, clock <= clock',
         NEW p \in Store!Path, NEW d \in Store!Document,
         Store!KilledAfterWriting(p, d), d.updated <= clock',
         Store!HasRow(p) /\ rows[p].hash.updated = d.updated =>
           rows[p].hash = rows[p].doc /\ rows[p].archived = rows[p].hash.archived
  PROVE  StoreInv'
<1>1. PICK content \in {d, [d EXCEPT !.body = "cut"], Store!Unreadable} : Store!Put(p, content)
  BY DEF Store!KilledAfterWriting
<1>2. content = Store!Unreadable \/ (content \in Store!Document /\ content.updated = d.updated)
  BY <1>1, EditedType
<1>3. rows' = rows /\ clean' = [clean EXCEPT ![p] = FALSE]
  BY DEF Store!KilledAfterWriting
<1>4. Store!HasRow(p) => rows[p].hash \in Store!Document
  BY DEF StoreInv, StoreType, Store!HasRow, Store!Row
<1>5. Store!HasRow(p) /\ content = rows[p].hash =>
        rows[p].doc = content /\ rows[p].archived = content.archived
  BY <1>2, <1>4, Distinct
<1>6. content \in Store!Document => content.updated <= clock'
  BY <1>2, Distinct
<1> QED
  BY <1>1, <1>2, <1>3, <1>5, <1>6, FileOnlyInv

-----------------------------------------------------------------------------
\* At first there is nothing.
LEMMA InitInv == Store!Init => IInv
BY StoreAssumption, Distinct
   DEF Store!DocumentStoreAssumption, Store!Init, IInv, Store!TypeOK, PastInv, HashInv, SkipInv,
       Store!StoresAgree, Store!HasRow, Store!Readable, Store!DocumentStoreAssumption

\* A row's hash has an earlier time stamp than what is written now.
LEMMA FreshHash ==
  ASSUME StoreInv, Store!Now
  PROVE  /\ clock' \in 0..MaxClock /\ clock' \in Nat /\ clock <= clock'
         /\ \A p \in Store!Path : Store!HasRow(p) =>
              /\ rows[p].hash.updated <= clock' /\ rows[p].hash.updated # clock'
<1>1. clock \in Nat /\ clock' = clock + 1 /\ clock' \in 0..MaxClock
  BY StoreAssumption DEF StoreInv, StoreType, Store!Now, Store!DocumentStoreAssumption
<1>2. ASSUME NEW p \in Store!Path, Store!HasRow(p)
      PROVE  /\ rows[p].hash.updated <= clock' /\ rows[p].hash.updated # clock'
  <2>1. rows[p].hash \in Store!Document /\ rows[p].doc \in Store!Document
    BY <1>2 DEF StoreInv, StoreType, Store!HasRow, Store!Row
  <2>2. rows[p].hash.updated \in Nat /\ rows[p].doc.updated \in Nat
    BY <2>1, DocumentFields
  <2>3. rows[p].hash.updated <= rows[p].doc.updated /\ rows[p].doc.updated <= clock
    BY <1>2 DEF StoreInv, HashInv
  <2> QED
    BY <1>1, <2>2, <2>3
<1> QED
  BY <1>1, <1>2

\* create, the insert failing or not: file and row are new, or only the file.
LEMMA CreateInv ==
  ASSUME IInv, NEW place \in Place, NEW body \in Text, Store!Create(place, body)
  PROVE  IInv'
<1> DEFINE p == <<counter, place>>
           d == Store!NewDocument(body)
<1>1. StoreInv /\ OthersType
  BY InvParts
<1>2. Store!Now /\ counter \in Store!Code /\ asked' = asked
  BY DEF Store!Create
<1>3. p \in Store!Path /\ Store!CodeOf(p) = counter
  BY <1>2 DEF Store!Path, Store!CodeOf
<1>4. d \in Store!Document /\ d.updated = clock'
  BY <1>2, NewDocumentType DEF IInv
<1>5. /\ clock' \in 0..MaxClock /\ clock' \in Nat /\ clock <= clock'
      /\ Store!HasRow(p) => rows[p].hash.updated # clock'
  BY <1>1, <1>2, <1>3, FreshHash
<1>6. CASE Store!Taken(counter)
  <2>1. /\ Store!Put(p, d) /\ clean' = [clean EXCEPT ![p] = FALSE]
        /\ rows' = rows /\ counter' = counter
    BY <1>6 DEF Store!Create
  <2>2. /\ d \in Store!Document \cup {Store!NoFile, Store!Unreadable} /\ d.updated <= clock'
        /\ Store!HasRow(p) => d # rows[p].hash
    BY <1>4, <1>5
  <2>3. StoreInv'
    <3> HIDE DEF d, p
    <3> QED
      BY <1>1, <1>3, <1>5, <2>1, <2>2, FileOnlyInv
  <2>4. OthersType'
    BY <1>1, <1>2, <2>1 DEF OthersType
  <2> QED
    BY <2>3, <2>4, InvParts, PTL
<1>7. CASE ~ Store!Taken(counter)
  <2>1. Store!Written(p, d, Store!RowOf(d)) /\ counter' = counter + 1
    BY <1>7 DEF Store!Create
  <2>2. /\ Store!RowOf(d) \in Store!Row /\ Store!RowOf(d).doc = d /\ Store!RowOf(d).hash = d
        /\ Store!RowOf(d).archived = d.archived
    BY <1>4, RowOfType DEF Store!RowOf
  <2>3. StoreInv'
    <3> HIDE DEF d
    <3> QED
      BY <1>1, <1>3, <1>4, <1>5, <2>1, <2>2, WrittenInv
  <2>4. OthersType'
    BY <1>1, <1>2, <2>1, StoreAssumption DEF OthersType, Store!Code, Store!DocumentStoreAssumption
  <2> QED
    BY <2>3, <2>4, InvParts, PTL
<1> QED
  BY <1>6, <1>7

\* A kill in create.
LEMMA KilledInCreateInv ==
  ASSUME IInv, NEW place \in Place, NEW body \in Text, Store!KilledInCreate(place, body)
  PROVE  IInv'
<1> DEFINE p == <<counter, place>>
           d == Store!NewDocument(body)
<1>1. StoreInv /\ OthersType
  BY InvParts
<1>2. Store!Now /\ counter \in Store!Code /\ Store!KilledAfterWriting(p, d)
  BY DEF Store!KilledInCreate
<1>3. p \in Store!Path
  BY <1>2 DEF Store!Path
<1>4. d \in Store!Document /\ d.updated = clock'
  BY <1>2, NewDocumentType DEF IInv
<1>5. /\ clock' \in 0..MaxClock /\ clock' \in Nat /\ clock <= clock'
      /\ Store!HasRow(p) => rows[p].hash.updated # clock'
  BY <1>1, <1>2, <1>3, FreshHash
<1>6. StoreInv'
  <2> HIDE DEF d
  <2> QED
    BY <1>1, <1>2, <1>3, <1>4, <1>5, KilledInv
<1>7. OthersType'
  BY <1>1, <1>2 DEF OthersType, Store!KilledAfterWriting
<1> QED
  BY <1>6, <1>7, InvParts, PTL

\* edit: the row's document with another body, its hash the file's.
LEMMA EditInv ==
  ASSUME IInv, NEW p \in Store!Path, NEW search \in Text, NEW replace \in Text,
         Store!Edit(p, search, replace)
  PROVE  IInv'
<1> DEFINE d   == [rows[p].doc EXCEPT !.body = replace]
           row == [rows[p] EXCEPT !.doc = d, !.hash = d]
<1>1. StoreInv /\ OthersType
  BY InvParts
<1>2. /\ Store!HasRow(p) /\ ~ rows[p].archived /\ Store!Written(p, d, row)
      /\ UNCHANGED <<counter, asked, clock>>
  BY DEF Store!Edit, Store!Found, Store!Current
<1>3. rows[p] \in Store!Row /\ rows[p].doc \in Store!Document /\ clock \in Nat /\ clock \in 0..MaxClock
  BY <1>1, <1>2 DEF StoreInv, StoreType, Store!HasRow, Store!Row
<1>4. d \in Store!Document /\ d.updated = rows[p].doc.updated /\ d.archived = rows[p].doc.archived
  BY <1>3, EditedType
<1>5. d.updated \in Nat /\ d.updated <= clock
  BY <1>1, <1>2, <1>3, <1>4, DocumentFields DEF StoreInv, HashInv
<1>6. row \in Store!Row /\ row.doc = d /\ row.hash = d /\ row.archived = d.archived
  <2>1. ~ rows[p].doc.archived /\ rows[p].doc.archived \in BOOLEAN /\ rows[p].archived \in BOOLEAN
    BY <1>1, <1>2, <1>3, DocumentFields DEF StoreInv, HashInv, Store!Row
  <2> HIDE DEF d
  <2>2. row \in Store!Row /\ row.doc = d /\ row.hash = d /\ row.archived = rows[p].archived
    BY <1>3, <1>4 DEF Store!Row
  <2> QED
    BY <1>2, <1>4, <2>1, <2>2
<1>7. StoreInv'
  <2> HIDE DEF d, row
  <2> QED
    BY <1>1, <1>2, <1>3, <1>4, <1>5, <1>6, WrittenInv
<1>8. OthersType'
  BY <1>1, <1>2 DEF OthersType
<1> QED
  BY <1>7, <1>8, InvParts, PTL

\* A kill in edit: if the row was hashed with the time stamp that the file has
\* now, the hash was up to date.
LEMMA KilledInEditInv ==
  ASSUME IInv, NEW p \in Store!Path, NEW search \in Text, NEW replace \in Text,
         Store!KilledInEdit(p, search, replace)
  PROVE  IInv'
<1> DEFINE d == [rows[p].doc EXCEPT !.body = replace]
<1>1. StoreInv /\ OthersType
  BY InvParts
<1>2. /\ Store!HasRow(p) /\ ~ rows[p].archived
      /\ Store!KilledAfterWriting(p, d) /\ clock' = clock
  BY DEF Store!KilledInEdit, Store!Found, Store!Current
<1>3. rows[p].doc \in Store!Document /\ clock \in Nat /\ clock \in 0..MaxClock
  BY <1>1, <1>2 DEF StoreInv, StoreType, Store!HasRow, Store!Row
<1>4. d \in Store!Document /\ d.updated = rows[p].doc.updated
  BY <1>3, EditedType
<1>5. /\ d.updated \in Nat /\ d.updated <= clock
      /\ rows[p].hash.updated = d.updated => rows[p].hash = rows[p].doc
  BY <1>1, <1>2, <1>3, <1>4, DocumentFields DEF StoreInv, HashInv
<1>6. rows[p].archived = rows[p].doc.archived
  <2>1. ~ rows[p].doc.archived /\ rows[p].doc.archived \in BOOLEAN /\ rows[p].archived \in BOOLEAN
    BY <1>1, <1>2, <1>3, DocumentFields, RowFields DEF StoreInv, HashInv, IInv
  <2> QED
    BY <1>2, <2>1
<1>7. StoreInv'
  <2> HIDE DEF d
  <2> QED
    BY <1>1, <1>2, <1>3, <1>4, <1>5, <1>6, KilledInv
<1>8. OthersType'
  BY <1>1, <1>2 DEF OthersType, Store!KilledAfterWriting
<1> QED
  BY <1>7, <1>8, InvParts, PTL

\* The read that a transition begins with, and a transition that comes to
\* nothing, leave the documents alone.
LEMMA ReadInv ==
  ASSUME IInv, NEW r \in Request, NEW p \in Store!Path, Store!Read(r, p)
  PROVE  IInv'
<1>1. rows[p].doc.phase \in Store!Phase /\ Store!CodeOf(p) \in Store!Code
  BY RowFields, DocumentFields DEF IInv, Store!Read, Store!Current, Store!Path, Store!CodeOf
<1>2. OthersType'
  BY <1>1 DEF IInv, Store!TypeOK, OthersType, Store!Read
<1>3. StoreInv'
  BY InvParts DEF Store!Read, StoreInv, StoreType, PastInv, HashInv, SkipInv, Store!StoresAgree,
                  Store!HasRow, Store!Readable
<1> QED
  BY <1>2, <1>3, InvParts, PTL

LEMMA TransitionRejectedInv ==
  ASSUME IInv, NEW r \in Request, Store!TransitionRejected(r)
  PROVE  IInv'
<1>1. OthersType'
  BY DEF IInv, Store!TypeOK, OthersType, Store!TransitionRejected
<1>2. StoreInv'
  BY InvParts DEF Store!TransitionRejected, StoreInv, StoreType, PastInv, HashInv, SkipInv,
                  Store!StoresAgree, Store!HasRow, Store!Readable
<1> QED
  BY <1>1, <1>2, InvParts, PTL

\* patchFrontmatter: the row keeps a hash older than the file.
LEMMA TransitionInv ==
  ASSUME IInv, NEW r \in Request, NEW p \in Store!Path, NEW target \in Store!Phase,
         NEW force \in BOOLEAN, Store!Transition(r, p, target, force)
  PROVE  IInv'
<1> DEFINE d == Store!Patched(p, target)
           row == [rows[p] EXCEPT !.doc = d, !.archived = d.archived]
<1>1. StoreInv /\ OthersType
  BY InvParts
<1>2. /\ Store!HasRow(p) /\ ~ rows[p].archived /\ Store!Now /\ Store!Written(p, d, row)
      /\ asked' = [asked EXCEPT ![r] = Store!NotAsked] /\ counter' = counter
  BY DEF Store!Transition, Store!Current
<1>3. d \in Store!Document /\ d.updated = clock'
  BY <1>2, PatchedType DEF IInv
<1>4. rows[p] \in Store!Row
  BY <1>1, <1>2 DEF StoreInv, StoreType, Store!HasRow
<1>5. row \in Store!Row /\ row.doc = d /\ row.hash = rows[p].hash /\ row.archived = d.archived
  <2> HIDE DEF d
  <2> QED
    BY <1>2, <1>3, <1>4, DocumentFields DEF Store!Row
<1>6. /\ clock' \in 0..MaxClock /\ clock' \in Nat /\ clock <= clock'
      /\ rows[p].hash.updated <= clock' /\ rows[p].hash.updated # clock'
  BY <1>1, <1>2, FreshHash
<1>7. StoreInv'
  <2> HIDE DEF d, row
  <2> QED
    BY <1>1, <1>2, <1>3, <1>5, <1>6, WrittenInv
<1>8. OthersType'
  BY <1>1, <1>2 DEF OthersType
<1> QED
  BY <1>7, <1>8, InvParts, PTL

LEMMA KilledInTransitionInv ==
  ASSUME IInv, NEW r \in Request, NEW p \in Store!Path, NEW target \in Store!Phase,
         NEW force \in BOOLEAN, Store!KilledInTransition(r, p, target, force)
  PROVE  IInv'
<1> DEFINE d == Store!Patched(p, target)
<1>1. StoreInv /\ OthersType
  BY InvParts
<1>2. Store!HasRow(p) /\ Store!Now /\ Store!KilledAfterWriting(p, d)
  BY DEF Store!KilledInTransition, Store!Current
<1>3. d \in Store!Document /\ d.updated = clock'
  BY <1>2, PatchedType DEF IInv
<1>4. /\ clock' \in 0..MaxClock /\ clock' \in Nat /\ clock <= clock'
      /\ rows[p].hash.updated # clock'
  BY <1>1, <1>2, FreshHash
<1>5. StoreInv'
  <2> HIDE DEF d
  <2> QED
    BY <1>1, <1>2, <1>3, <1>4, KilledInv
<1>6. OthersType'
  BY <1>1, <1>2 DEF OthersType, Store!KilledAfterWriting
<1> QED
  BY <1>5, <1>6, InvParts, PTL

-----------------------------------------------------------------------------
\* What a sync makes of the rows: a document that was read is its row's, the
\* row of a file that was not is archived, and any other row stays.
LEMMA SyncedRows ==
  ASSUME StoreType, NEW inserted \in Store!Inserted, NEW p \in Store!Path
  PROVE  /\ inserted \subseteq Store!Insertable
         /\ p \in inserted \cup Store!Updated =>
              /\ files[p] \in Store!Document /\ Store!Synced(p, inserted) \in Store!Row
              /\ Store!Synced(p, inserted).doc = files[p] /\ Store!Synced(p, inserted).hash = files[p]
              /\ Store!Synced(p, inserted).archived = files[p].archived
         /\ p \in Store!Orphaned =>
              /\ Store!Synced(p, inserted) \in Store!Row
              /\ Store!Synced(p, inserted).doc = rows[p].doc
              /\ Store!Synced(p, inserted).hash = rows[p].hash
              /\ Store!Synced(p, inserted).archived
         /\ p \notin inserted \cup Store!Updated /\ p \notin Store!Orphaned =>
              Store!Synced(p, inserted) = rows[p]
<1>1. inserted \subseteq Store!Insertable
  BY DEF Store!Inserted
<1>2. ASSUME p \in inserted \cup Store!Updated
      PROVE  /\ files[p] \in Store!Document /\ Store!Synced(p, inserted) \in Store!Row
             /\ Store!Synced(p, inserted).doc = files[p] /\ Store!Synced(p, inserted).hash = files[p]
             /\ Store!Synced(p, inserted).archived = files[p].archived
  <2>1. files[p] \in Store!Document
    BY <1>1, <1>2 DEF Store!Insertable, Store!Updated, Store!Readable
  <2> QED
    BY <1>2, <2>1, RowOfType DEF Store!Synced, Store!Upsert, Store!RowOf
<1>3. ASSUME p \in Store!Orphaned
      PROVE  /\ Store!Synced(p, inserted) \in Store!Row
             /\ Store!Synced(p, inserted).doc = rows[p].doc
             /\ Store!Synced(p, inserted).hash = rows[p].hash
             /\ Store!Synced(p, inserted).archived
  <2>1. p \notin inserted \cup Store!Updated
    BY <1>1, <1>3 DEF Store!Insertable, Store!Updated, Store!Orphaned
  <2>2. Store!Synced(p, inserted) = [rows[p] EXCEPT !.archived = TRUE]
    BY <1>3, <2>1 DEF Store!Synced
  <2>3. rows[p] \in Store!Row
    BY <1>3 DEF Store!Orphaned, StoreType, Store!HasRow
  <2> QED
    BY <2>2, <2>3 DEF Store!Row
<1>4. p \notin inserted \cup Store!Updated /\ p \notin Store!Orphaned =>
        Store!Synced(p, inserted) = rows[p]
  BY DEF Store!Synced
<1> QED
  BY <1>1, <1>2, <1>3, <1>4

\* syncWorkspace, path by path.
LEMMA SyncInv == ASSUME IInv, Store!Sync PROVE IInv'
<1>1. StoreInv /\ OthersType /\ StoreType
  BY InvParts DEF StoreInv
<1>2. PICK inserted \in Store!Inserted :
        /\ rows' = [p \in Store!Path |-> Store!Synced(p, inserted)]
        /\ clean' = [p \in Store!Path |-> Store!Readable(p) /\ (Store!HasRow(p) \/ p \in inserted)]
  BY DEF Store!Sync
<1>3. files' = files /\ counter' = counter /\ asked' = asked /\ clock' = clock /\ back' = back
  BY DEF Store!Sync
<1>4. clock \in Nat
  BY <1>1 DEF StoreType
<1>5. ASSUME NEW p \in Store!Path
      PROVE  /\ rows'[p] \in Store!Row \cup {Store!NoRow}
             /\ Store!HasRow(p)' =>
                  /\ rows'[p].hash.updated <= rows'[p].doc.updated
                  /\ rows'[p].doc.updated <= clock
                  /\ rows'[p].hash.updated = rows'[p].doc.updated => rows'[p].hash = rows'[p].doc
                  /\ rows'[p].doc.archived => rows'[p].archived
             /\ Store!HasRow(p)' /\ files[p] = rows'[p].hash /\ ~ back[p] =>
                  rows'[p].doc = files[p] /\ rows'[p].archived = files[p].archived
             /\ clean'[p] /\ ~ back[p] =>
                  Store!HasRow(p)' /\ rows'[p].archived = files[p].archived /\ files[p] = rows'[p].doc
  <2>1. rows'[p] = Store!Synced(p, inserted)
    BY <1>2
  <2>2. CASE p \in inserted \cup Store!Updated
    <3>1. /\ files[p] \in Store!Document /\ rows'[p] \in Store!Row
          /\ rows'[p].doc = files[p] /\ rows'[p].hash = files[p]
          /\ rows'[p].archived = files[p].archived
      BY <1>1, <2>1, <2>2, SyncedRows
    <3>2. files[p].updated \in Nat /\ files[p].updated <= clock
      BY <1>1, <3>1, DocumentFields DEF StoreInv, PastInv, Store!Readable
    <3>3. Store!HasRow(p)'
      BY <3>1, Distinct DEF Store!HasRow
    <3> QED
      BY <3>1, <3>2, <3>3
  <2>3. CASE p \in Store!Orphaned
    <3>1. /\ rows'[p] \in Store!Row /\ rows'[p].doc = rows[p].doc /\ rows'[p].hash = rows[p].hash
          /\ rows'[p].archived
      BY <1>1, <2>1, <2>3, SyncedRows
    <3>2. Store!HasRow(p) /\ files[p] \notin Store!Document /\ rows[p].hash \in Store!Document
      BY <1>1, <2>3 DEF Store!Orphaned, Store!Readable, StoreType, Store!HasRow, Store!Row
    <3>3. ~ clean'[p]
      BY <1>2, <3>2, <2>3 DEF Store!Orphaned
    <3> QED
      BY <1>1, <3>1, <3>2, <3>3 DEF StoreInv, HashInv
  <2>4. CASE p \notin inserted \cup Store!Updated /\ p \notin Store!Orphaned
    <3>1. rows'[p] = rows[p] /\ Store!HasRow(p)' = Store!HasRow(p)
      BY <1>1, <2>1, <2>4, SyncedRows DEF Store!HasRow
    <3>2. clean'[p] => Store!HasRow(p) /\ files[p] = rows[p].hash
      BY <1>2, <2>4 DEF Store!Updated
    <3>3. rows[p] \in Store!Row \cup {Store!NoRow}
      BY <1>1 DEF StoreType
    <3> QED
      BY <1>1, <3>1, <3>2, <3>3 DEF StoreInv, HashInv, SkipInv
  <2> QED
    BY <2>2, <2>3, <2>4
<1>6. clean' \in [Store!Path -> BOOLEAN]
  BY <1>2 DEF Store!Readable, Store!HasRow
<1>7. rows' \in [Store!Path -> Store!Row \cup {Store!NoRow}]
  BY <1>2, <1>5
<1>8. StoreType'
  BY <1>1, <1>3, <1>6, <1>7 DEF StoreType
<1>9. PastInv'
  BY <1>1, <1>3 DEF StoreInv, PastInv, Store!Readable
<1>10. HashInv' /\ SkipInv' /\ Store!StoresAgree'
  BY <1>3, <1>5 DEF HashInv, SkipInv, Store!StoresAgree
<1>11. OthersType'
  BY <1>1, <1>3 DEF OthersType
<1> QED
  BY <1>8, <1>9, <1>10, <1>11, InvParts, PTL DEF StoreInv

-----------------------------------------------------------------------------
\* Changes that people make to the files.
LEMMA ChangedInv ==
  ASSUME IInv, clock' \in 0..MaxClock, clock <= clock',
         NEW p \in Store!Path, NEW content \in Store!Document \cup {Store!NoFile, Store!Unreadable},
         Store!Changed(p, content),
         content \in Store!Document => content.updated <= clock',
         Store!HasRow(p) => content # rows[p].hash
  PROVE  IInv'
<1>1. StoreInv'
  BY InvParts, FileOnlyInv DEF Store!Changed
<1>2. OthersType'
  BY InvParts DEF OthersType, Store!Changed
<1> QED
  BY <1>1, <1>2, InvParts, PTL

LEMMA FileEditedInv ==
  ASSUME IInv, NEW p \in Store!Path, NEW body \in Text, NEW phase \in Store!Phase,
         NEW archived \in BOOLEAN, Store!FileEdited(p, body, phase, archived)
  PROVE  IInv'
<1> DEFINE d == [files[p] EXCEPT !.body = body, !.phase = phase, !.archived = archived,
                              !.updated = clock']
<1>1. files[p] \in Store!Document /\ Store!Now /\ Store!Changed(p, d)
  BY DEF Store!FileEdited, Store!Readable
<1>2. clock' \in 1..MaxClock
  BY <1>1, StoreAssumption DEF IInv, Store!TypeOK, Store!Now, Store!DocumentStoreAssumption
<1>3. d \in Store!Document /\ d.updated = clock'
  BY <1>1, <1>2 DEF Store!Document
<1>4. /\ clock' \in 0..MaxClock /\ clock' \in Nat /\ clock <= clock'
      /\ Store!HasRow(p) => rows[p].hash.updated # clock'
  BY <1>1, InvParts, FreshHash
<1> HIDE DEF d
<1> QED
  BY <1>1, <1>3, <1>4, ChangedInv

LEMMA FileAddedInv ==
  ASSUME IInv, NEW p \in Store!Path, NEW body \in Text, Store!FileAdded(p, body)
  PROVE  IInv'
<1> DEFINE d == Store!NewDocument(body)
<1>1. ~ Store!HasRow(p) /\ Store!Now /\ Store!Changed(p, d)
  BY DEF Store!FileAdded
<1>2. d \in Store!Document /\ d.updated = clock'
  BY <1>1, NewDocumentType DEF IInv
<1>3. clock' \in 0..MaxClock /\ clock' \in Nat /\ clock <= clock'
  BY <1>1, InvParts, FreshHash
<1> HIDE DEF d
<1> QED
  BY <1>1, <1>2, <1>3, ChangedInv

\* What is not a document is nobody's hash.
LEMMA FileLostInv ==
  ASSUME IInv, NEW p \in Store!Path, Store!FileSpoiled(p) \/ Store!FileRemoved(p)
  PROVE  IInv'
<1>1. PICK content \in {Store!NoFile, Store!Unreadable} : Store!Changed(p, content)
  BY DEF Store!FileSpoiled, Store!FileRemoved
<1>2. content \notin Store!Document
  BY <1>1, Distinct
<1>3. Store!HasRow(p) => rows[p].hash \in Store!Document
  BY RowFields DEF IInv
<1>4. clock' = clock /\ clock \in Nat /\ clock \in 0..MaxClock
  BY DEF Store!FileSpoiled, Store!FileRemoved, IInv, Store!TypeOK
<1> QED
  BY <1>1, <1>2, <1>3, <1>4, ChangedInv

LEMMA FileMovedInv ==
  ASSUME IInv, NEW p \in Store!Path, NEW q \in Store!Path, Store!FileMoved(p, q)
  PROVE  IInv'
<1>1. StoreInv /\ OthersType
  BY InvParts
<1>2. /\ files[p] \in Store!Document /\ files[q] = Store!NoFile /\ p # q
      /\ files' = [files EXCEPT ![p] = Store!NoFile, ![q] = files[p]]
      /\ clean' = [clean EXCEPT ![p] = FALSE, ![q] = FALSE]
      /\ back' = [back EXCEPT ![p] = FALSE, ![q] = Store!HasRow(q) /\ files[p] = rows[q].hash]
      /\ UNCHANGED <<rows, counter, asked, clock>>
  BY Distinct DEF Store!FileMoved, Store!Readable
<1>3. /\ files \in [Store!Path -> Store!Document \cup {Store!NoFile, Store!Unreadable}]
      /\ clean \in [Store!Path -> BOOLEAN] /\ back \in [Store!Path -> BOOLEAN]
      /\ clock \in 0..MaxClock /\ clock \in Nat
  BY <1>1 DEF StoreInv, StoreType
<1>4. clock' \in 0..MaxClock /\ clock <= clock' /\ rows' = rows
  BY <1>2, <1>3
<1>5. /\ files' \in [Store!Path -> Store!Document \cup {Store!NoFile, Store!Unreadable}]
      /\ clean' \in [Store!Path -> BOOLEAN]
  BY <1>2, <1>3
<1>6. back' \in [Store!Path -> BOOLEAN]
  BY <1>2, <1>3 DEF Store!HasRow
<1>7. ASSUME NEW s \in Store!Path, clean'[s]
      PROVE  clean[s] /\ files'[s] = files[s] /\ back'[s] = back[s]
  BY <1>2, <1>3, <1>7
<1>8. ASSUME NEW s \in Store!Path, Store!HasRow(s), files'[s] = rows[s].hash, ~ back'[s]
      PROVE  rows[s].doc = files'[s] /\ rows[s].archived = files'[s].archived
  <2>1. rows[s].hash \in Store!Document
    BY <1>8, RowFields DEF IInv
  <2>2. s # p
    BY <1>2, <1>3, <1>8, <2>1, Distinct
  <2>3. s # q
    BY <1>2, <1>3, <1>8
  <2> QED
    BY <1>1, <1>2, <1>3, <1>8, <2>2, <2>3 DEF StoreInv, SkipInv
<1>9. ASSUME NEW s \in Store!Path, Store!Readable(s)'
      PROVE  files'[s].updated <= clock'
  <2>1. s # p
    BY <1>2, <1>3, <1>9, Distinct DEF Store!Readable
  <2>2. files'[s] = files[IF s = q THEN p ELSE s]
    BY <1>2, <1>3, <2>1
  <2> QED
    BY <1>1, <1>2, <1>9, <2>2 DEF StoreInv, PastInv, Store!Readable
<1>10. StoreInv'
  BY <1>1, <1>4, <1>5, <1>6, <1>7, <1>8, <1>9, FilesOnlyInv
<1>11. OthersType'
  BY <1>1, <1>2 DEF OthersType
<1> QED
  BY <1>10, <1>11, InvParts, PTL

LEMMA FileBroughtBackInv ==
  ASSUME IInv, NEW p \in Store!Path, Store!FileBroughtBack(p)
  PROVE  IInv'
<1>1. StoreInv /\ OthersType
  BY InvParts
<1>2. /\ Store!HasRow(p) /\ files' = [files EXCEPT ![p] = rows[p].hash]
      /\ clean' = [clean EXCEPT ![p] = FALSE] /\ back' = [back EXCEPT ![p] = TRUE]
      /\ UNCHANGED <<rows, counter, asked, clock>>
  BY DEF Store!FileBroughtBack
<1>3. /\ files \in [Store!Path -> Store!Document \cup {Store!NoFile, Store!Unreadable}]
      /\ clean \in [Store!Path -> BOOLEAN] /\ back \in [Store!Path -> BOOLEAN]
      /\ clock \in 0..MaxClock /\ clock \in Nat
  BY <1>1 DEF StoreInv, StoreType
<1>4. rows[p].hash \in Store!Document /\ rows[p].doc \in Store!Document
  BY <1>2, RowFields DEF IInv
<1>5. /\ files' \in [Store!Path -> Store!Document \cup {Store!NoFile, Store!Unreadable}]
      /\ clean' \in [Store!Path -> BOOLEAN] /\ back' \in [Store!Path -> BOOLEAN]
  BY <1>2, <1>3, <1>4
<1>6. ASSUME NEW s \in Store!Path, clean'[s]
      PROVE  clean[s] /\ files'[s] = files[s] /\ back'[s] = back[s]
  BY <1>2, <1>3, <1>6
<1>7. ASSUME NEW s \in Store!Path, Store!HasRow(s), files'[s] = rows[s].hash, ~ back'[s]
      PROVE  rows[s].doc = files'[s] /\ rows[s].archived = files'[s].archived
  BY <1>1, <1>2, <1>3, <1>7 DEF StoreInv, SkipInv
<1>8. ASSUME NEW s \in Store!Path, Store!Readable(s)'
      PROVE  files'[s].updated <= clock'
  <2>1. CASE s = p
    <3>1. rows[p].hash.updated \in Nat /\ rows[p].doc.updated \in Nat
      BY <1>4, DocumentFields
    <3> QED
      BY <1>1, <1>2, <1>3, <2>1, <3>1 DEF StoreInv, HashInv
  <2>2. CASE s # p
    BY <1>1, <1>2, <1>3, <1>8, <2>2 DEF StoreInv, PastInv, Store!Readable
  <2> QED
    BY <2>1, <2>2
<1>9. StoreInv'
  BY <1>1, <1>2, <1>3, <1>5, <1>6, <1>7, <1>8, FilesOnlyInv
<1>10. OthersType'
  BY <1>1, <1>2 DEF OthersType
<1> QED
  BY <1>9, <1>10, InvParts, PTL

-----------------------------------------------------------------------------
\* The invariant is inductive.
LEMMA StepInv == ASSUME IInv, [Store!Next]_(Store!vars) PROVE IInv'
<1>1. CASE Store!ToolCall
  BY <1>1, CreateInv, EditInv, ReadInv, TransitionInv, TransitionRejectedInv DEF Store!ToolCall
<1>2. CASE Store!Kill
  BY <1>2, KilledInCreateInv, KilledInEditInv, KilledInTransitionInv DEF Store!Kill
<1>3. CASE Store!Sync
  BY <1>3, SyncInv
<1>4. CASE Store!FileChange
  BY <1>4, FileEditedInv, FileAddedInv, FileLostInv, FileMovedInv, FileBroughtBackInv
     DEF Store!FileChange
<1>5. CASE UNCHANGED Store!vars
  BY <1>5 DEF Store!vars, IInv, Store!TypeOK, PastInv, HashInv, SkipInv, Store!StoresAgree,
              Store!HasRow, Store!Readable
<1> QED
  BY <1>1, <1>2, <1>3, <1>4, <1>5 DEF Store!Next

LEMMA Invariant == Store!Spec => []IInv
BY InitInv, StepInv, PTL DEF Store!Spec

\* Files, rows, counter and requests keep their types.
THEOREM TypeCorrect == Store!Spec => []Store!TypeOK
BY Invariant, PTL DEF IInv

\* After a call that succeeded, or a sync that reported no error, the row says
\* what the file says, whatever calls, kills, syncs and changes came before,
\* unless the file came back as it was when it was last hashed.
THEOREM FilesAndRowsAgree == Store!Spec => []StoresAgree
BY Invariant, PTL DEF IInv, StoresAgree

\* A second sync in a row would find nothing to do.
LEMMA SyncLeavesNothing ==
  ASSUME IInv, Store!Sync
  PROVE  (Store!Updated = {} /\ Store!Insertable = {} /\ \A p \in Store!Orphaned : rows[p].archived)'
<1>1. StoreType
  BY InvParts DEF StoreInv
<1>2. PICK inserted \in Store!Inserted : rows' = [p \in Store!Path |-> Store!Synced(p, inserted)]
  BY DEF Store!Sync
<1>3. files' = files
  BY DEF Store!Sync
<1>4. ASSUME NEW p \in Store!Path
      PROVE  /\ Store!HasRow(p) \/ p \in inserted => Store!HasRow(p)'
             /\ Store!HasRow(p)' /\ Store!Readable(p) => rows'[p].hash = files[p]
             /\ Store!HasRow(p)' /\ ~ Store!Readable(p) => rows'[p].archived
  <2>1. rows'[p] = Store!Synced(p, inserted)
    BY <1>2
  <2>2. CASE p \in inserted \cup Store!Updated
    <3>1. files[p] \in Store!Document /\ rows'[p] \in Store!Row /\ rows'[p].hash = files[p]
      BY <1>1, <2>1, <2>2, SyncedRows
    <3> QED
      BY <3>1, Distinct DEF Store!HasRow, Store!Readable
  <2>3. CASE p \in Store!Orphaned
    <3>1. rows'[p] \in Store!Row /\ rows'[p].archived /\ ~ Store!Readable(p)
      BY <1>1, <2>1, <2>3, SyncedRows DEF Store!Orphaned
    <3> QED
      BY <3>1, Distinct DEF Store!HasRow
  <2>4. CASE p \notin inserted \cup Store!Updated /\ p \notin Store!Orphaned
    <3>1. rows'[p] = rows[p]
      BY <1>1, <2>1, <2>4, SyncedRows
    <3> QED
      BY <2>4, <3>1 DEF Store!HasRow, Store!Orphaned, Store!Updated
  <2> QED
    BY <2>2, <2>3, <2>4
<1>5. Store!Updated' = {}
  BY <1>3, <1>4 DEF Store!Updated, Store!Readable
<1>6. \A p \in Store!Orphaned' : rows'[p].archived
  BY <1>3, <1>4 DEF Store!Orphaned, Store!Readable
<1>7. ASSUME NEW p \in Store!Path, Store!Readable(p) PROVE Store!Taken(Store!CodeOf(p))'
  <2>1. CASE Store!Taken(Store!CodeOf(p))
    BY <1>4, <2>1 DEF Store!Taken
  <2>2. CASE ~ Store!Taken(Store!CodeOf(p))
    <3>1. p \in Store!Insertable
      BY <1>7, <2>2 DEF Store!Insertable
    <3>2. PICK q \in inserted : Store!CodeOf(q) = Store!CodeOf(p)
      BY <3>1 DEF Store!Inserted
    <3>3. q \in Store!Path
      BY <1>1, <3>2, SyncedRows DEF Store!Insertable, Store!Inserted
    <3> QED
      BY <1>4, <3>2, <3>3 DEF Store!Taken
  <2> QED
    BY <2>1, <2>2
<1>8. Store!Insertable' = {}
  BY <1>3, <1>7 DEF Store!Insertable, Store!Readable
<1> QED
  BY <1>5, <1>6, <1>8

\* "Running twice in a row produces zero changes on the second run."
THEOREM SyncIsIdempotent == Store!Spec => SyncSettles
<1>1. ASSUME IInv, [Store!Next]_(Store!vars)
      PROVE  [ Store!Sync => (/\ Store!Updated = {} /\ Store!Insertable = {}
                        /\ \A p \in Store!Orphaned : rows[p].archived)' ]_(Store!vars)
  BY <1>1, SyncLeavesNothing
<1> QED
  BY <1>1, Invariant, PTL DEF Store!Spec, SyncSettles, Store!SyncSettles
=============================================================================
