-------------------------------- MODULE Katana --------------------------------
(***************************************************************************)
(* The two parts of katana that move documents along: the loop, which works  *)
(* on a document until its gates let it on, and the store, which keeps every *)
(* document in a file and in a row. The loop writes through an interface of   *)
(* its own (DocStore), to which nothing connects the store yet; here they     *)
(* stand side by side, for any parameters.                                   *)
(***************************************************************************)
EXTENDS WorkflowLoop

CONSTANTS Place, LastCode, LastPhase, Text, Request, Collaborators, MaxClock  \* of DocumentStore

VARIABLES files, rows, counter, asked, clock, clean, back

Store == INSTANCE DocumentStore WITH Body <- Text

ASSUME StoreAssumption == Store!DocumentStoreAssumption

storeVars == <<files, rows, counter, asked, clock, clean, back>>

-----------------------------------------------------------------------------
\* After a call that succeeded, or a sync that reported no error, the row says
\* what the file says, until someone changes the file or a call fails in the
\* middle.
StoresAgree == Store!StoresAgree

\* Running a sync twice in a row changes nothing the second time.
SyncSettles == Store!SyncSettles
=============================================================================
