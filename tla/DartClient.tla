------------------------------ MODULE DartClient ------------------------------
(***************************************************************************)
(* The Dart wrapper (src/lib/src/apxdb_ffi.dart) over the native document  *)
(* store (src/src/native/apxdb.c).  Every isolate of the process has an    *)
(* _isOpen of its own and all share one native library, so between the     *)
(* wrapper's test of _isOpen, its native call and its assignment the other *)
(* isolates go on.  A native call runs under g_mutex and is one step.      *)
(*                                                                         *)
(* A document is its number (the N of "doc_N") and its body.  Of a JSON    *)
(* text the body says which ids occur in it, since apxdb_find_document     *)
(* looks for its argument there; the bytes of other documents are not read.*)
(***************************************************************************)
EXTENDS NativeLifecycle, Integers, Sequences

CONSTANTS
  Isolates,  \* the Dart isolates
  MaxId,     \* bound: the document counter stops here
  Named      \* bound: the ids that JSON texts name

ASSUME DartAssumption == MaxId \in Nat /\ Named \subseteq Nat

VARIABLES
  documents,  \* g_documents
  counter,    \* g_document_counter
  isOpen,     \* ApxDB._isOpen of each isolate
  call,       \* the wrapper call each isolate is in
  result,     \* what its native call returned, until the wrapper has read it
  created     \* the documents it created since its last open returned

nativeVars == <<state, dir, documents, counter>>
isolateVars == <<isOpen, call, result, created>>
vars == <<nativeVars, isolateVars>>

Bodies == [json: {TRUE}, names: SUBSET Named] \cup [json: {FALSE}, names: {{}}]
Calls == {"none", "open", "opened", "close", "closed"}
Results == {"none", "ok", "alreadyOpen", "partialRecovery", "io", "unknown"}

Init ==
  /\ LifecycleInit
  /\ documents = <<>>
  /\ counter = 0
  /\ isOpen = [i \in Isolates |-> FALSE]
  /\ call = [i \in Isolates |-> "none"]
  /\ result = [i \in Isolates |-> "none"]
  /\ created = [i \in Isolates |-> {}]

-----------------------------------------------------------------------------
(***************************************************************************)
(* ApxDB.open.  With _isOpen set it throws and does nothing.               *)
(***************************************************************************)
BeginOpen(i) ==
  /\ call[i] = "none"
  /\ ~isOpen[i]
  /\ call' = [call EXCEPT ![i] = "open"]
  /\ UNCHANGED <<nativeVars, isOpen, result, created>>

\* free_documents, and the counter starts again.
StoreEmptied == documents' = <<>> /\ counter' = 0

Returns(i, from, to, r) ==
  /\ call[i] = from
  /\ call' = [call EXCEPT ![i] = to]
  /\ result' = [result EXCEPT ![i] = r]
  /\ UNCHANGED <<isOpen, created>>

NativeOpens(i, d) ==
  /\ OpenSucceeds(d)
  /\ StoreEmptied
  /\ Returns(i, "open", "opened", "ok")

NativeOpenFails(i) ==
  \/ OpenFailsIO /\ UNCHANGED <<documents, counter>> /\ Returns(i, "open", "opened", "io")
  \/ OpenFailsAlloc /\ StoreEmptied /\ Returns(i, "open", "opened", "unknown")

NativeOpenRefuses(i) ==
  /\ \/ state = "OPEN" /\ Returns(i, "open", "opened", "alreadyOpen")
     \/ state = "FAILED" /\ Returns(i, "open", "opened", "partialRecovery")
  /\ UNCHANGED nativeVars

\* Slip in EndOpen: alreadyOpen counts as open.
EndOpenAnyway(i) ==
  /\ call[i] = "opened"
  /\ call' = [call EXCEPT ![i] = "none"]
  /\ isOpen' = [isOpen EXCEPT ![i] = @ \/ result[i] \in {"ok", "alreadyOpen"}]
  /\ created' = [created EXCEPT ![i] = {}]
  /\ result' = [result EXCEPT ![i] = "none"]
  /\ UNCHANGED nativeVars

EndOpen(i) ==
  /\ call[i] = "opened"
  /\ call' = [call EXCEPT ![i] = "none"]
  /\ isOpen' = [isOpen EXCEPT ![i] = @ \/ result[i] = "ok"]
  /\ created' = [created EXCEPT ![i] = {}]
  /\ result' = [result EXCEPT ![i] = "none"]
  /\ UNCHANGED nativeVars

(***************************************************************************)
(* ApxDB.close.  Without _isOpen it returns notOpen and does nothing.      *)
(***************************************************************************)
\* Slip in BeginClose: no look at _isOpen.
BeginCloseAnyway(i) ==
  /\ call[i] = "none"
  /\ call' = [call EXCEPT ![i] = "close"]
  /\ UNCHANGED <<nativeVars, isOpen, result, created>>

BeginClose(i) ==
  /\ call[i] = "none"
  /\ isOpen[i]
  /\ call' = [call EXCEPT ![i] = "close"]
  /\ UNCHANGED <<nativeVars, isOpen, result, created>>

\* The native close of a database that is not closed.  (It never finds one that
\* is, which is what OneOwner says.)
NativeCloses(i) ==
  /\ TransitionToClosed
  /\ StoreEmptied
  /\ Returns(i, "close", "closed", "ok")

EndClose(i) ==
  /\ call[i] = "closed"
  /\ call' = [call EXCEPT ![i] = "none"]
  /\ isOpen' = [isOpen EXCEPT ![i] = @ /\ result[i] # "ok"]
  /\ result' = [result EXCEPT ![i] = "none"]
  /\ UNCHANGED <<nativeVars, created>>

-----------------------------------------------------------------------------
(***************************************************************************)
(* Documents.  The wrapper does not look at _isOpen; the native call wants *)
(* an open database.                                                       *)
(***************************************************************************)

\* createDocument and createDocumentBytes.
Create(i, body) ==
  /\ call[i] = "none"
  /\ state = "OPEN"
  /\ counter < MaxId
  /\ counter' = counter + 1
  /\ LET doc == [id |-> counter + 1, body |-> body]
     IN /\ documents' = Append(documents, doc)
        /\ created' = [created EXCEPT ![i] = @ \cup {doc}]
  /\ UNCHANGED <<state, dir, isOpen, call, result>>

\* push_document cannot allocate: the number is used up.
CreateFails(i) ==
  /\ call[i] = "none"
  /\ state = "OPEN"
  /\ counter < MaxId
  /\ counter' = counter + 1
  /\ UNCHANGED <<state, dir, documents, isolateVars>>

\* The first of the documents at places, as a set.
First(places) == {documents[k] : k \in {i \in places : \A j \in places : i <= j}}

\* The document whose bytes apxdb_get_document_bytes, and apxdb_find_document,
\* return for "doc_id": none or one.  (For a document that is not JSON the latter
\* returns the text "binary_document".)
DocumentBytes(id) == First({k \in DOMAIN documents : documents[k].id = id})
FindDocument(id) ==
  First({k \in DOMAIN documents :
    \/ documents[k].id = id
    \/ documents[k].body.json /\ id \in documents[k].body.names})

-----------------------------------------------------------------------------
\* An isolate ends and starts again (hot restart): its statics are initial,
\* the native library is not told.
HotRestart(i) ==
  /\ isOpen' = [isOpen EXCEPT ![i] = FALSE]
  /\ call' = [call EXCEPT ![i] = "none"]
  /\ result' = [result EXCEPT ![i] = "none"]
  /\ created' = [created EXCEPT ![i] = {}]
  /\ UNCHANGED nativeVars

RestartProcess ==
  /\ ProcessRestart
  /\ StoreEmptied
  /\ isOpen' = [i \in Isolates |-> FALSE]
  /\ call' = [i \in Isolates |-> "none"]
  /\ result' = [i \in Isolates |-> "none"]
  /\ created' = [i \in Isolates |-> {}]

\* What an isolate does once it has begun a call.
GoesOn(i) ==
  \/ \E d \in Dirs : NativeOpens(i, d)
  \/ NativeOpenFails(i)
  \/ NativeOpenRefuses(i)
  \/ EndOpen(i)
  \/ NativeCloses(i)
  \/ EndClose(i)

Next ==
  \/ \E i \in Isolates : GoesOn(i)
  \/ \E i \in Isolates : BeginOpen(i) \/ BeginClose(i)
  \/ \E i \in Isolates, body \in Bodies : Create(i, body)
  \/ \E i \in Isolates : CreateFails(i) \/ HotRestart(i)
  \/ RestartProcess

Spec == Init /\ [][Next]_vars

\* A call once begun runs to its end: an isolate blocks in it, it does not stop.
FairSpec == Spec /\ \A i \in Isolates : WF_vars(GoesOn(i))

-----------------------------------------------------------------------------
\* Every variable has its type.
TypeOK ==
  /\ LifecycleTypeOK
  /\ documents \in Seq([id: Nat, body: Bodies])
  /\ counter \in Nat
  /\ isOpen \in [Isolates -> BOOLEAN]
  /\ call \in [Isolates -> Calls]
  /\ result \in [Isolates -> Results]
  /\ created \in [Isolates -> SUBSET [id: Nat, body: Bodies]]

\* The isolate's open has succeeded in the native library and its close has not.
Owns(i) ==
  \/ isOpen[i] /\ call[i] # "closed"
  \/ call[i] = "opened" /\ result[i] = "ok"

\* Whatever the interleaving of opens, closes and restarts, at most one isolate
\* owns the database, and it is open while one does: no isolate's _isOpen is
\* stale, and no isolate closes the database under another.
OneOwner ==
  /\ \A i, j \in Isolates : Owns(i) /\ Owns(j) => i = j
  /\ \A i \in Isolates : Owns(i) => state = "OPEN"

\* As long as an isolate has the database open, each id it was given names the
\* document it created, although other isolates create, open and close too.
CreatedIsKept ==
  \A i \in Isolates : isOpen[i] /\ Owns(i) =>
    \A doc \in created[i] : DocumentBytes(doc.id) = {doc}

\* A database that failed to open stays FAILED until the process ends: the
\* wrapper never makes the native call that would clean up.
FailedUntilRestart == [][state = "FAILED" => state' = "FAILED" \/ RestartProcess]_vars

\* A close that was begun ends with the database given up by the isolate: the
\* native close never finds the database closed already.
CloseCompletes == \A i \in Isolates : call[i] = "close" ~> ~isOpen[i]

\* What the README's example does (README.md:19): find a document by the id
\* that creating it returned.
FindsCreated ==
  \A i \in Isolates : isOpen[i] /\ Owns(i) =>
    \A doc \in created[i] : FindDocument(doc.id) = {doc}
=============================================================================
