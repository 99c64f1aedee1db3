-------------------------- MODULE DartClient_proofs --------------------------
(***************************************************************************)
(* Proofs about the Dart wrapper: for any number of isolates, directories  *)
(* and documents, one isolate at most owns the native database, and the    *)
(* documents it created are there as long as it does.                      *)
(***************************************************************************)
EXTENDS DartClient, SequenceTheorems, TLAPS

Document == [id: Nat, body: Bodies]

\* The stages of a call agree with _isOpen and with what the library returned.
StagesAgree ==
  \A i \in Isolates : /\ call[i] = "close" => isOpen[i]
                      /\ isOpen[i] => call[i] \in {"none", "close", "closed"}
                      /\ call[i] = "closed" => result[i] = "ok"

\* Document numbers do not repeat and stay under the counter.
Numbering ==
  /\ \A k \in DOMAIN documents : documents[k].id <= counter
  /\ \A k, l \in DOMAIN documents : documents[k].id = documents[l].id => k = l

\* What an owner created is in the store.
CreatedAreThere ==
  \A i \in Isolates : isOpen[i] /\ Owns(i) =>
    \A doc \in created[i] : \E k \in DOMAIN documents : documents[k] = doc

DInv == TypeOK /\ StagesAgree /\ OneOwner /\ Numbering /\ CreatedAreThere

-----------------------------------------------------------------------------
(* The steps that leave the library alone *)

LEMMA StoreIds ==
  ASSUME DInv
  PROVE  \A k \in DOMAIN documents : documents[k].id \in Nat /\ documents[k].id <= counter
  <1>1. documents \in Seq(Document) /\ Numbering
    BY DEF DInv, TypeOK, Document
  <1>2. \A k \in DOMAIN documents : documents[k] \in Document
    BY <1>1, ElementOfSeq, LenProperties
  <1> QED
    BY <1>1, <1>2 DEF Document, Numbering

\* A step of isolate i that leaves the library and the other isolates as they
\* are and does not make i an owner.
LEMMA WrapperStep ==
  ASSUME DInv, NEW i \in Isolates, UNCHANGED nativeVars,
         isOpen' \in [Isolates -> BOOLEAN], call' \in [Isolates -> Calls],
         result' \in [Isolates -> Results], created' \in [Isolates -> SUBSET Document],
         \A j \in Isolates \ {i} : /\ isOpen'[j] = isOpen[j] /\ call'[j] = call[j]
                                   /\ result'[j] = result[j] /\ created'[j] = created[j],
         (Owns(i))' => Owns(i),
         isOpen'[i] => created'[i] = {} \/ (isOpen[i] /\ created'[i] = created[i]),
         call'[i] = "close" => isOpen'[i],
         isOpen'[i] => call'[i] \in {"none", "close", "closed"},
         call'[i] = "closed" => result'[i] = "ok"
  PROVE  DInv'
  <1>1. TypeOK' /\ Numbering'
    BY DEF DInv, TypeOK, LifecycleTypeOK, nativeVars, Numbering, Document
  <1>2. StagesAgree'
    BY DEF DInv, StagesAgree
  <1>3. \A j \in Isolates : (Owns(j))' => Owns(j)
    BY DEF Owns
  <1>4. OneOwner'
    BY <1>3 DEF DInv, OneOwner, nativeVars
  <1>5. CreatedAreThere'
    <2> SUFFICES ASSUME NEW j \in Isolates, isOpen'[j], (Owns(j))', NEW doc \in created'[j]
                 PROVE  \E k \in DOMAIN documents : documents[k] = doc
      BY DEF CreatedAreThere, nativeVars
    <2>1. isOpen[j] /\ created'[j] = created[j] /\ Owns(j)
      BY <1>3
    <2> QED
      BY <2>1 DEF DInv, CreatedAreThere
  <1> QED
    BY <1>1, <1>2, <1>4, <1>5 DEF DInv

LEMMA WrapperSteps ==
  ASSUME DInv, NEW i \in Isolates,
         \/ BeginOpen(i)
         \/ BeginClose(i)
         \/ NativeOpenRefuses(i)
         \/ EndOpen(i)
         \/ EndClose(i)
         \/ HotRestart(i)
  PROVE  DInv'
  <1>1. /\ isOpen \in [Isolates -> BOOLEAN] /\ call \in [Isolates -> Calls]
        /\ result \in [Isolates -> Results] /\ created \in [Isolates -> SUBSET Document]
        /\ call[i] = "close" => isOpen[i]
        /\ isOpen[i] => call[i] \in {"none", "close", "closed"}
        /\ call[i] = "closed" => result[i] = "ok"
    BY DEF DInv, TypeOK, StagesAgree, Document
  <1>2. CASE BeginOpen(i)
    BY <1>1, <1>2, WrapperStep DEF BeginOpen, Calls, Owns
  <1>3. CASE BeginClose(i)
    BY <1>1, <1>3, WrapperStep DEF BeginClose, Calls, Owns
  <1>4. CASE NativeOpenRefuses(i)
    BY <1>1, <1>4, WrapperStep DEF NativeOpenRefuses, Returns, Calls, Results, Owns
  <1>5. CASE EndOpen(i)
    BY <1>1, <1>5, WrapperStep DEF EndOpen, Calls, Results, Owns
  <1>6. CASE EndClose(i)
    BY <1>1, <1>6, WrapperStep DEF EndClose, Calls, Results, Owns
  <1>7. CASE HotRestart(i)
    BY <1>1, <1>7, WrapperStep DEF HotRestart, Calls, Results, Owns
  <1> QED
    BY <1>2, <1>3, <1>4, <1>5, <1>6, <1>7

-----------------------------------------------------------------------------
(* The steps of the library *)

LEMMA EmptyStore ==
  ASSUME StoreEmptied
  PROVE  documents' \in Seq(Document) /\ counter' \in Nat /\ Numbering'
  BY DEF StoreEmptied, Numbering

\* A native open: nobody owned the database before.
LEMMA NativeOpenKeeps ==
  ASSUME DInv, NEW i \in Isolates, (\E d \in Dirs : NativeOpens(i, d)) \/ NativeOpenFails(i)
  PROVE  DInv'
  <1>1. /\ state = "CLOSED" /\ call[i] = "open"
        /\ isOpen \in [Isolates -> BOOLEAN] /\ call \in [Isolates -> Calls]
        /\ result \in [Isolates -> Results] /\ created \in [Isolates -> SUBSET Document]
    BY DEF NativeOpens, NativeOpenFails, OpenSucceeds, OpenFailsIO, OpenFailsAlloc, Returns, DInv,
       TypeOK, Document
  <1>2. \A j \in Isolates : ~Owns(j)
    BY <1>1 DEF DInv, OneOwner
  <1>3. PICK r \in {"ok", "io", "unknown"} :
          /\ Returns(i, "open", "opened", r)
          /\ r = "ok" => state' = "OPEN"
    BY DEF NativeOpens, NativeOpenFails, OpenSucceeds
  <1>4. /\ isOpen' = isOpen /\ created' = created
        /\ call'[i] = "opened" /\ result'[i] = r
        /\ \A j \in Isolates \ {i} : call'[j] = call[j] /\ result'[j] = result[j]
        /\ call' \in [Isolates -> Calls] /\ result' \in [Isolates -> Results]
    BY <1>1, <1>3 DEF Returns, Calls, Results
  <1>5. documents' \in Seq(Document) /\ counter' \in Nat /\ Numbering'
    <2>1. CASE StoreEmptied
      BY <2>1, EmptyStore
    <2>2. CASE UNCHANGED <<documents, counter>>
      BY <2>2 DEF DInv, TypeOK, Numbering, Document
    <2> QED
      BY <2>1, <2>2 DEF NativeOpens, NativeOpenFails
  <1>6. LifecycleTypeOK'
    BY DEF NativeOpens, NativeOpenFails, OpenSucceeds, OpenFailsIO, OpenFailsAlloc, DInv, TypeOK,
       LifecycleTypeOK, States
  <1>7. ~isOpen[i]
    BY <1>1 DEF DInv, StagesAgree
  <1>8. StagesAgree'
    BY <1>4, <1>7 DEF DInv, StagesAgree
  <1>9. \A j \in Isolates : (Owns(j))' => j = i /\ r = "ok"
    BY <1>2, <1>4, <1>7 DEF Owns
  <1>10. OneOwner'
    BY <1>3, <1>9 DEF OneOwner
  <1>11. CreatedAreThere'
    BY <1>4, <1>7, <1>9 DEF CreatedAreThere
  <1>12. TypeOK'
    BY <1>1, <1>4, <1>5, <1>6 DEF TypeOK, Document
  <1> QED
    BY <1>5, <1>8, <1>10, <1>11, <1>12 DEF DInv

\* A native close: the isolate that calls it is the owner.
LEMMA NativeCloseKeeps ==
  ASSUME DInv, NEW i \in Isolates, NativeCloses(i)
  PROVE  DInv'
  <1>1. /\ call[i] = "close" /\ isOpen[i]
        /\ isOpen \in [Isolates -> BOOLEAN] /\ call \in [Isolates -> Calls]
        /\ result \in [Isolates -> Results] /\ created \in [Isolates -> SUBSET Document]
    BY DEF NativeCloses, Returns, DInv, TypeOK, StagesAgree, Document
  <1>2. \A j \in Isolates : Owns(j) => j = i
    BY <1>1 DEF DInv, OneOwner, Owns
  <1>3. /\ isOpen' = isOpen /\ created' = created
        /\ call'[i] = "closed" /\ result'[i] = "ok"
        /\ \A j \in Isolates \ {i} : call'[j] = call[j] /\ result'[j] = result[j]
        /\ call' \in [Isolates -> Calls] /\ result' \in [Isolates -> Results]
    BY <1>1 DEF NativeCloses, Returns, Calls, Results
  <1>4. \A j \in Isolates : ~(Owns(j))'
    BY <1>2, <1>3 DEF Owns
  <1>5. documents' \in Seq(Document) /\ counter' \in Nat /\ Numbering'
    BY EmptyStore DEF NativeCloses
  <1>6. LifecycleTypeOK'
    BY DEF NativeCloses, TransitionToClosed, LifecycleTypeOK, States
  <1>7. StagesAgree'
    BY <1>1, <1>3 DEF DInv, StagesAgree
  <1>8. OneOwner' /\ CreatedAreThere'
    BY <1>4 DEF OneOwner, CreatedAreThere
  <1>9. TypeOK'
    BY <1>1, <1>3, <1>5, <1>6 DEF TypeOK, Document
  <1> QED
    BY <1>5, <1>7, <1>8, <1>9 DEF DInv

LEMMA CreateKeeps ==
  ASSUME DInv, NEW i \in Isolates, NEW body \in Bodies, Create(i, body)
  PROVE  DInv'
  <1> DEFINE doc == [id |-> counter + 1, body |-> body]
  <1>1. /\ documents' = Append(documents, doc) /\ counter' = counter + 1
        /\ created' = [created EXCEPT ![i] = @ \cup {doc}]
        /\ UNCHANGED <<state, dir, isOpen, call, result>>
        /\ documents \in Seq(Document) /\ counter \in Nat /\ doc \in Document
        /\ created \in [Isolates -> SUBSET Document] /\ doc.id = counter + 1
    BY DEF Create, DInv, TypeOK, Document
  <1> HIDE DEF doc
  <1>2. /\ Len(documents) \in Nat /\ DOMAIN documents = 1..Len(documents)
        /\ documents' \in Seq(Document) /\ DOMAIN documents' = 1..(Len(documents) + 1)
        /\ \A k \in 1..Len(documents) : documents'[k] = documents[k]
        /\ documents'[Len(documents) + 1] = doc
    BY <1>1, AppendProperties, LenProperties
  <1>3. \A k \in DOMAIN documents : documents[k].id \in Nat /\ documents[k].id <= counter
    BY StoreIds
  <1>4. Numbering'
    <2>1. ASSUME NEW k \in DOMAIN documents'
          PROVE  /\ documents'[k].id <= counter'
                 /\ k = Len(documents) + 1 <=> documents'[k].id = counter + 1
      <3>1. CASE k \in DOMAIN documents
        <4>1. documents'[k].id \in Nat /\ documents'[k].id <= counter /\ k <= Len(documents)
          BY <1>2, <1>3, <3>1
        <4> QED
          BY <1>1, <1>2, <4>1
      <3>2. CASE k \notin DOMAIN documents
        BY <1>1, <1>2, <3>2
      <3> QED
        BY <3>1, <3>2
    <2>2. ASSUME NEW k \in DOMAIN documents', NEW l \in DOMAIN documents',
                 documents'[k].id = documents'[l].id
          PROVE  k = l
      <3>1. CASE k = Len(documents) + 1 \/ l = Len(documents) + 1
        BY <2>1, <2>2, <3>1
      <3>2. CASE ~(k = Len(documents) + 1 \/ l = Len(documents) + 1)
        <4>1. /\ k \in DOMAIN documents /\ l \in DOMAIN documents
              /\ documents'[k] = documents[k] /\ documents'[l] = documents[l]
          BY <1>2, <3>2
        <4> QED
          BY <2>2, <4>1 DEF DInv, Numbering
      <3> QED
        BY <3>1, <3>2
    <2> QED
      BY <2>1, <2>2 DEF Numbering
  <1>5. CreatedAreThere'
    <2> SUFFICES ASSUME NEW j \in Isolates, isOpen[j], Owns(j), NEW x \in created'[j]
                 PROVE  \E k \in DOMAIN documents' : documents'[k] = x
      BY <1>1 DEF CreatedAreThere, Owns
    <2>1. x \in created[j] \/ x = doc
      BY <1>1
    <2>2. CASE x = doc
      BY <1>2, <2>2
    <2>3. CASE x \in created[j]
      <3>1. PICK k \in DOMAIN documents : documents[k] = x
        BY <2>3 DEF DInv, CreatedAreThere
      <3> QED
        BY <1>2, <3>1
    <2> QED
      BY <2>1, <2>2, <2>3
  <1>6. TypeOK'
    BY <1>1, <1>2 DEF DInv, TypeOK, LifecycleTypeOK, Document
  <1>7. StagesAgree' /\ OneOwner'
    BY <1>1 DEF DInv, StagesAgree, OneOwner, Owns
  <1> QED
    BY <1>4, <1>5, <1>6, <1>7 DEF DInv

LEMMA OtherSteps ==
  ASSUME DInv, RestartProcess \/ \E i \in Isolates : CreateFails(i)
  PROVE  DInv'
  <1>1. CASE RestartProcess
    <2>1. documents' \in Seq(Document) /\ counter' \in Nat /\ Numbering'
      BY <1>1, EmptyStore DEF RestartProcess
    <2>2. \A i \in Isolates : ~isOpen'[i] /\ call'[i] = "none"
      BY <1>1 DEF RestartProcess
    <2>3. TypeOK'
      BY <1>1, <2>1 DEF RestartProcess, ProcessRestart, TypeOK, LifecycleTypeOK, States, Calls,
         Results, Document
    <2> QED
      BY <2>1, <2>2, <2>3 DEF DInv, StagesAgree, OneOwner, Owns, CreatedAreThere
  <1>2. CASE \E i \in Isolates : CreateFails(i)
    <2>1. UNCHANGED <<state, dir, documents, isolateVars>> /\ counter' = counter + 1 /\ counter \in Nat
      BY <1>2 DEF CreateFails, DInv, TypeOK
    <2>2. Numbering'
      <3>1. \A k \in DOMAIN documents : documents[k].id \in Nat
        BY StoreIds
      <3> QED
        BY <2>1, <3>1 DEF DInv, Numbering
    <2> QED
      BY <2>1, <2>2 DEF DInv, TypeOK, LifecycleTypeOK, StagesAgree, OneOwner, Owns, CreatedAreThere,
         isolateVars
  <1> QED
    BY <1>1, <1>2

-----------------------------------------------------------------------------
(* Theorems *)

LEMMA InitDInv == Init => DInv
  <1> SUFFICES ASSUME Init PROVE DInv
    OBVIOUS
  <1>1. documents = <<>> /\ counter = 0 /\ documents \in Seq(Document)
    BY DEF Init
  <1>2. TypeOK
    BY <1>1 DEF Init, LifecycleInit, TypeOK, LifecycleTypeOK, States, Calls, Results, Document
  <1> QED
    BY <1>1, <1>2 DEF Init, DInv, StagesAgree, OneOwner, Owns, Numbering, CreatedAreThere

LEMMA NextDInv == DInv /\ [Next]_vars => DInv'
  <1> SUFFICES ASSUME DInv, [Next]_vars PROVE DInv'
    OBVIOUS
  <1>1. ASSUME NEW i \in Isolates, GoesOn(i) PROVE DInv'
    BY <1>1, WrapperSteps, NativeOpenKeeps, NativeCloseKeeps DEF GoesOn
  <1>2. ASSUME NEW i \in Isolates, BeginOpen(i) \/ BeginClose(i) \/ HotRestart(i) PROVE DInv'
    BY <1>2, WrapperSteps
  <1>3. ASSUME NEW i \in Isolates, NEW body \in Bodies, Create(i, body) PROVE DInv'
    BY <1>3, CreateKeeps
  <1>4. CASE RestartProcess \/ \E i \in Isolates : CreateFails(i)
    BY <1>4, OtherSteps
  <1>5. CASE UNCHANGED vars
    BY <1>5 DEF vars, nativeVars, isolateVars, DInv, TypeOK, LifecycleTypeOK, StagesAgree, OneOwner,
       Owns, Numbering, CreatedAreThere
  <1> QED
    BY <1>1, <1>2, <1>3, <1>4, <1>5 DEF Next

\* Every variable of the wrapper and the store under it has its type, and the
\* invariant the theorems below follow from holds.
THEOREM DartInductive == Spec => []DInv
  <1> QED
    BY InitDInv, NextDInv, PTL DEF Spec

\* The documents stay a sequence and every isolate at a stage of a call, also
\* when native calls and assignments of several isolates mix.
THEOREM DartTypes == Spec => []TypeOK
  <1>1. DInv => TypeOK
    BY DEF DInv
  <1> QED
    BY <1>1, DartInductive, PTL

\* At most one isolate owns the native database, and it is open while one does,
\* for any number of isolates between test, native call and assignment.
THEOREM OneOwnerAtATime == Spec => []OneOwner
  <1>1. DInv => OneOwner
    BY DEF DInv
  <1> QED
    BY <1>1, DartInductive, PTL

\* apxdb_get_document_bytes of an id its owner was given finds the document that
\* createDocument stored, whatever the other isolates create, open or close.
THEOREM CreatedStays == Spec => []CreatedIsKept
  <1>1. DInv => CreatedIsKept
    <2> SUFFICES ASSUME DInv, NEW i \in Isolates, isOpen[i], Owns(i), NEW doc \in created[i]
                 PROVE  DocumentBytes(doc.id) = {doc}
      BY DEF CreatedIsKept
    <2>1. PICK k \in DOMAIN documents : documents[k] = doc
      BY DEF DInv, CreatedAreThere
    <2>2. {l \in DOMAIN documents : documents[l].id = doc.id} = {k}
      BY <2>1 DEF DInv, Numbering
    <2>3. k <= k
      BY LenProperties DEF DInv, TypeOK
    <2> QED
      BY <2>1, <2>2, <2>3 DEF DocumentBytes, First
  <1> QED
    BY <1>1, DartInductive, PTL

\* Once an open failed, no isolate's call takes the library out of FAILED: only
\* the end of the process does.
THEOREM FailedStays == Spec => FailedUntilRestart
  <1> DEFINE Stays == state = "FAILED" => state' = "FAILED" \/ RestartProcess
  <1>1. DInv /\ [Next]_vars => Stays
    <2> SUFFICES ASSUME DInv, [Next]_vars, state = "FAILED", ~RestartProcess
                 PROVE  state' = "FAILED"
      OBVIOUS
    <2>1. \A i \in Isolates : ~NativeCloses(i)
      <3> SUFFICES ASSUME NEW i \in Isolates, NativeCloses(i) PROVE FALSE
        OBVIOUS
      <3>1. Owns(i)
        BY DEF NativeCloses, Returns, DInv, StagesAgree, Owns
      <3> QED
        BY <3>1 DEF DInv, OneOwner
    <2>2. \A i \in Isolates : /\ \A d \in Dirs : ~NativeOpens(i, d)
                              /\ ~NativeOpenFails(i)
      BY DEF NativeOpens, NativeOpenFails, OpenSucceeds, OpenFailsIO, OpenFailsAlloc
    <2> QED
      BY <2>1, <2>2 DEF Next, GoesOn, BeginOpen, BeginClose, NativeOpenRefuses, EndOpen, EndClose,
         Create, CreateFails, HotRestart, nativeVars, vars
  <1>2. Spec => [][Stays]_vars
    <2> HIDE DEF Stays
    <2> QED
      BY <1>1, DartInductive, PTL DEF Spec
  <1> QED
    BY <1>2 DEF FailedUntilRestart
==============================================================================
