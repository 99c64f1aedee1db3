------------------------ MODULE CsvImport_proofs ------------------------
(***************************************************************************)
(* Proofs about the importer: when no file is torn, an import only appends,*)
(* whatever else fails, and a failed one leaves no row out of order; when  *)
(* no save fails before it replaces the file, a reported import is saved.  *)
(***************************************************************************)
EXTENDS CsvImport, StoreDurability_proofs

-----------------------------------------------------------------------------
(* Sequences *)

LEMMA BeginsWith ==
  ASSUME NEW s \in Seq(Doc), NEW t \in Seq(Doc)
  PROVE  IsPrefix(s, s) /\ IsPrefix(s, s \o t)
  <1>1. /\ Len(s) \in Nat /\ Len(t) \in Nat
        /\ s \o t \in Seq(Doc) /\ Len(s \o t) = Len(s) + Len(t)
        /\ \A i \in 1..(Len(s) + Len(t)) : (s \o t)[i] = IF i <= Len(s) THEN s[i] ELSE t[i - Len(s)]
    BY LenProperties, ConcatProperties
  <1>2. SubSeq(s, 1, Len(s)) = s
    BY WholeSubSeq
  <1>3. SubSeq(s \o t, 1, Len(s)) = s
    <2>1. \A i \in 1..Len(s) : (s \o t)[i] = s[i] /\ s[i] \in Doc
      BY <1>1, ElementOfSeq
    <2>2. /\ SubSeq(s \o t, 1, Len(s)) \in Seq(Doc) /\ Len(SubSeq(s \o t, 1, Len(s))) = Len(s)
          /\ \A i \in 1..Len(s) : SubSeq(s \o t, 1, Len(s))[i] = (s \o t)[i]
      BY <1>1, <2>1, SubSeqProperties
    <2> QED
      BY <2>1, <2>2, SeqEqual
  <1> QED
    BY <1>1, <1>2, <1>3 DEF IsPrefix

LEMMA AppendLater ==
  ASSUME NEW s \in Seq(Doc), NEW t \in Seq(Doc), NEW x \in Doc
  PROVE  Append(s \o t, x) = s \o Append(t, x)
  <1>1. s \o t \in Seq(Doc) /\ <<x>> \in Seq(Doc)
    BY ConcatProperties
  <1>2. Append(s \o t, x) = (s \o t) \o <<x>> /\ Append(t, x) = t \o <<x>>
    BY <1>1, AppendIsConcat
  <1>3. (s \o t) \o <<x>> = s \o (t \o <<x>>)
    BY <1>1, ConcatAssociative
  <1> QED
    BY <1>2, <1>3

-----------------------------------------------------------------------------
(* The invariant of an import *)

\* What the file of the table holds for the next load.
Held == Content(files[target][Table])

\* While the directory is open the file is as the import found it, and the
\* table, once it is loaded, holds the file's documents and then the rows.
Growing ==
  LET m == coll[Table] IN
  /\ Held = found
  /\ IF m.loaded THEN m.docs = found \o imported ELSE imported = <<>>
  /\ imported # <<>> => m.dirty

JInv ==
  /\ SInv
  /\ target \in Dirs /\ found \in Seq(Doc) /\ imported \in Seq(Doc)
  /\ Registered \subseteq {Table}
  /\ dir = IF step \in {"idle", "exit"} THEN NoDir ELSE target
  /\ dir # NoDir => Growing
  /\ step = "open" => imported = <<>>
  /\ Held \in {found, found \o imported}
  /\ "noData" \notin Faults => ReportedRowsAreSaved

LEMMA InitJInv == ImportInit => JInv
  <1> SUFFICES ASSUME ImportInit PROVE JInv
    OBVIOUS
  <1>1. SInv
    BY InitSInv DEF ImportInit
  <1>2. Registered = {} /\ dir = NoDir
    BY DEF ImportInit, Init, LifecycleInit, Registered
  <1>3. Held = <<>>
    BY TableAssumption DEF ImportInit, Init, Held, Content
  <1> QED
    BY <1>1, <1>2, <1>3 DEF ImportInit, JInv, ReportedRowsAreSaved

\* Every step of the importer is a call of the engine, or the process ends.
LEMMA ImportIsClient == ImportNext => Next
  <1> SUFFICES ASSUME ImportNext PROVE Next
    OBVIOUS
  <1>1. CASE heap = "sound" /\ \E d \in Dirs : ImportOpens(d)
    BY <1>1 DEF ImportOpens, Next, DatabaseStep
  <1>2. CASE heap = "sound" /\ CannotOpen
    BY <1>2 DEF CannotOpen, Next, DatabaseStep
  <1>3. CASE heap = "sound" /\ \E s \in Schemas : Registers(s)
    BY <1>3, TableAssumption DEF Registers, Next, CollectionStep
  <1>4. CASE heap = "sound" /\ (Begins \/ RollsBack \/ Commits)
    BY <1>4 DEF Begins, RollsBack, Commits, Next, DatabaseStep
  <1>5. CASE heap = "sound" /\ \E keys \in Keys : Inserts(keys)
    BY <1>5, TableAssumption DEF Inserts, Next, CollectionStep
  <1>6. CASE heap = "sound" /\ RowFails
    BY <1>6, TableAssumption DEF RowFails, Next, CollectionStep
  <1>7. CASE heap = "sound" /\ \E how \in CloseEnds : GivesUp(how) \/ Closes(how)
    BY <1>7 DEF GivesUp, Closes, Next, DatabaseStep
  <1>8. CASE \E how \in CrashEnds : Dies(how)
    BY <1>8 DEF Dies, Next
  <1> QED
    BY <1>1, <1>2, <1>3, <1>4, <1>5, <1>6, <1>7, <1>8 DEF ImportNext

-----------------------------------------------------------------------------
(* The steps *)

LEMMA OpensJInv ==
  ASSUME Durable, JInv, SInv', NEW d \in Dirs, ImportOpens(d)
  PROVE  JInv'
  <1>1. /\ dir = NoDir /\ dir' = d /\ d # NoDir /\ target' = d /\ step' = "open"
        /\ found' = Content(files[d][Table]) /\ imported' = <<>>
        /\ UNCHANGED <<g_collections, coll, files, verdict>>
    BY NoDirAssumption
       DEF ImportOpens, Open, OpenSucceeds, JInv, memoryVars, diskVars
  <1>2. ~coll[Table].loaded
    BY <1>1, TableAssumption DEF JInv, SInv, Kept, Fit, Durable, Careful
  <1>3. found' \in Seq(Doc) /\ Held' = found' /\ Registered' = Registered
    <2>1. files[d][Table] \in File
      BY TableAssumption DEF JInv, SInv, IInv, TypeOK
    <2> QED
      BY <1>1, <2>1, ContentType DEF Held, Registered
  <1> QED
    BY <1>1, <1>2, <1>3 DEF JInv, Growing, ReportedRowsAreSaved

\* A step in an open session that puts no row and writes no file.
LEMMA QuietJInv ==
  ASSUME JInv, SInv', dir # NoDir, UNCHANGED <<dir, files, target, found, imported>>,
         Registered' \subseteq {Table}, step' \notin {"idle", "open", "exit"}, Growing'
  PROVE  JInv'
  <1>1. Held' = Held /\ step \notin {"idle", "exit"} /\ dir = target
    BY DEF Held, JInv
  <1> QED
    BY <1>1 DEF JInv, ReportedRowsAreSaved

LEMMA RegistersJInv ==
  ASSUME Durable, JInv, SInv', NEW s \in Schemas, Registers(s)
  PROVE  JInv'
  <1>1. /\ step = "open" /\ step' = "registered" /\ imported = <<>>
        /\ coll' = [coll EXCEPT ![Table] = Blank(s)] /\ g_collections' = Append(g_collections, Table)
        /\ UNCHANGED <<dir, files, target, found, imported>> /\ dir # NoDir
    BY NoDirAssumption DEF Registers, Register, JInv, diskVars
  <1>2. Growing'
    <2>1. coll'[Table].loaded = FALSE
      BY <1>1, TableAssumption DEF JInv, SInv, IInv, TypeOK, Blank
    <2> QED
      BY <1>1, <2>1 DEF Growing, Held, JInv
  <1>3. Registered' \subseteq {Table}
    <2>1. g_collections \in Seq(Collections)
      BY DEF JInv, SInv, IInv, TypeOK
    <2>2. /\ DOMAIN g_collections' = 1..(Len(g_collections) + 1) /\ Len(g_collections) \in Nat
          /\ DOMAIN g_collections = 1..Len(g_collections)
          /\ \A i \in 1..Len(g_collections) : g_collections'[i] = g_collections[i]
          /\ g_collections'[Len(g_collections) + 1] = Table
      BY <1>1, <2>1, TableAssumption, AppendProperties, LenProperties
    <2>3. ASSUME NEW i \in DOMAIN g_collections'
          PROVE  g_collections'[i] \in {Table}
      <3>1. i \in 1..Len(g_collections) \/ i = Len(g_collections) + 1
        BY <2>2
      <3> QED
        BY <2>2, <3>1 DEF JInv, Registered
    <2> QED
      BY <2>3 DEF Registered
  <1> QED
    BY <1>1, <1>2, <1>3, QuietJInv

LEMMA TransactionJInv ==
  ASSUME JInv, SInv', Begins \/ RollsBack \/ Commits
  PROVE  JInv'
  <1>1. /\ step \notin {"idle", "open", "exit"} /\ step' \notin {"idle", "open", "exit"}
        /\ UNCHANGED <<dir, g_collections, coll, files, target, found, imported>>
    BY DEF Begins, RollsBack, Commits, BeginWriteTxn, EndWriteTxn, diskVars
  <1>2. dir # NoDir
    BY <1>1, NoDirAssumption DEF JInv
  <1>3. Growing' /\ Registered' = Registered
    BY <1>1, <1>2 DEF JInv, Growing, Held, Registered
  <1> QED
    BY <1>1, <1>2, <1>3, QuietJInv DEF JInv

\* A call that makes sure the table is loaded, seen from the rows.
LEMMA EnsuredRows ==
  ASSUME Durable, JInv, dir # NoDir, Usable(Table), NEW o \in EnsureOutcomes(coll[Table], dir, Table)
  PROVE  /\ o.m \in Memory /\ (o.ok => o.m.loaded)
         /\ IF o.m.loaded THEN o.m.docs = found \o imported ELSE imported = <<>>
         /\ imported # <<>> => o.m.dirty
  <1>1. dir = target /\ FileOf(Table) = files[target][Table] /\ Growing
    BY DEF JInv, FileOf
  <1>2. o.m \in Memory /\ Ensures(coll[Table], FileOf(Table), o.m) /\ (o.ok => o.m.loaded)
    BY TableAssumption, CallFit DEF JInv, SInv
  <1>3. CASE coll[Table].loaded
    BY <1>1, <1>2, <1>3 DEF Ensures, Growing
  <1>4. CASE ~coll[Table].loaded
    <2>1. imported = <<>> /\ Content(FileOf(Table)) = found
      BY <1>1, <1>4 DEF Growing, Held
    <2>2. found \o <<>> = found
      BY ConcatEmptySeq DEF JInv
    <2>3. o.m.loaded => o.m.docs = found
      BY <1>2, <1>4, <2>1 DEF Ensures
    <2> QED
      BY <1>2, <2>1, <2>2, <2>3
  <1> QED
    BY <1>3, <1>4

LEMMA RowFailsJInv ==
  ASSUME Durable, JInv, SInv', RowFails
  PROVE  JInv'
  <1>1. /\ step = "writing" /\ step' = "row failed" /\ Usable(Table)
        /\ UNCHANGED <<dir, g_collections, files, target, found, imported>>
    BY DEF RowFails, Access, PutAborts
  <1>2. dir # NoDir
    BY <1>1, NoDirAssumption DEF JInv
  <1>3. PICK o \in EnsureOutcomes(coll[Table], dir, Table) : coll' = [coll EXCEPT ![Table] = o.m]
    BY DEF RowFails, Access, PutAborts
  <1>4. coll'[Table] = o.m
    BY <1>3, TableAssumption DEF JInv, SInv, IInv, TypeOK
  <1>5. Growing' /\ Registered' = Registered
    BY <1>1, <1>2, <1>4, EnsuredRows DEF JInv, Growing, Held, Registered
  <1> QED
    BY <1>1, <1>2, <1>5, QuietJInv DEF JInv

LEMMA InsertsJInv ==
  ASSUME Durable, JInv, SInv', NEW keys \in Keys, Inserts(keys)
  PROVE  JInv'
  <1>1. /\ step = "writing" /\ step' = "writing" /\ Usable(Table)
        /\ imported' = Append(imported, Last(coll'[Table].docs))
        /\ UNCHANGED <<dir, g_collections, files, target, found>>
    BY DEF Inserts, Put
  <1>2. dir # NoDir /\ dir = target
    BY <1>1, NoDirAssumption DEF JInv
  <1>3. PICK o \in EnsureOutcomes(coll[Table], dir, Table), n \in 0..MaxId - 1 :
          LET doc == [id |-> n + 1, keys |-> keys] IN
          /\ o.ok
          /\ coll' = [coll EXCEPT ![Table] =
               [o.m EXCEPT !.docs = Append(@, doc), !.dirty = TRUE,
                           !.idx = IndexDocs(@, o.m.fields, <<doc>>)]]
    BY DEF Inserts, Put
  <1> DEFINE doc == [id |-> n + 1, keys |-> keys]
  <1>4. doc \in Doc
    BY StoreAssumption DEF Doc
  <1>5. o.m \in Memory /\ o.m.loaded /\ o.m.docs = found \o imported
    BY <1>1, <1>2, <1>3, EnsuredRows
  <1>6. coll'[Table] = [o.m EXCEPT !.docs = Append(@, doc), !.dirty = TRUE,
                                   !.idx = IndexDocs(@, o.m.fields, <<doc>>)]
    BY <1>3, TableAssumption DEF JInv, SInv, IInv, TypeOK
  <1>7. /\ coll'[Table].docs = Append(found \o imported, doc)
        /\ coll'[Table].loaded /\ coll'[Table].dirty
    BY <1>5, <1>6 DEF Memory
  <1> HIDE DEF doc
  <1>8. /\ found \in Seq(Doc) /\ imported \in Seq(Doc) /\ found \o imported \in Seq(Doc)
    BY ConcatProperties DEF JInv
  <1>9. imported' = Append(imported, doc)
    <2>1. Last(Append(found \o imported, doc)) = doc
      BY <1>4, <1>8, AppendProperties DEF Last
    <2> QED
      BY <1>1, <1>7, <2>1
  <1>10. Append(found \o imported, doc) = found \o imported'
    BY <1>4, <1>8, <1>9, AppendLater
  <1>11. Growing' /\ Held' = Held /\ Held = found /\ Registered' = Registered
    BY <1>1, <1>2, <1>7, <1>10 DEF JInv, Growing, Held, Registered
  <1>12. imported' \in Seq(Doc)
    BY <1>4, <1>8, <1>9, AppendProperties
  <1> QED
    BY <1>1, <1>2, <1>11, <1>12 DEF JInv, ReportedRowsAreSaved

\* What the saves of a close leave in the file of the table: the documents that
\* were there, or those and the rows.
LEMMA TableSaved ==
  ASSUME Durable, JInv, dir # NoDir, NEW how \in CloseEnds \cup CrashEnds, SaveAllFiles(dir, how)
  PROVE  /\ Content(files'[target][Table]) =
              IF how[Table].end = "noData" THEN found ELSE found \o imported
         /\ \A d \in Dirs : d # target => files'[d] = files[d]
  <1>1. /\ dir = target /\ target \in Dirs /\ Growing /\ Registered \subseteq {Table}
        /\ coll[Table] \in Memory /\ files \in [Dirs -> [Collections -> File]]
        /\ how[Table] \in Ends /\ g_collections \in Seq(Collections)
    BY TableAssumption, EndsOfSteps DEF JInv, SInv, IInv, TypeOK
  <1>2. \A d \in Dirs : d # target => files'[d] = files[d]
    BY <1>1 DEF SaveAllFiles
  <1>3. coll[Table].dirty => coll[Table].loaded /\ Table \in Registered
    BY TableAssumption DEF JInv, SInv, IInv, Good, Kept
  <1>4. CASE Table \in Reached(how)
    <2>1. files'[target][Table] = DataSaved(coll[Table], how[Table], files[target][Table])
      BY <1>1, <1>4, TableAssumption DEF SaveAllFiles
    <2>2. coll[Table].loaded
      BY <1>3, <1>4 DEF Reached
    <2>3. coll[Table].docs = found \o imported /\ Content(files[target][Table]) = found
      BY <1>1, <2>2 DEF Growing, Held
    <2>4. Content(files'[target][Table]) =
            IF how[Table].end = "noData" THEN Content(files[target][Table]) ELSE coll[Table].docs
      BY <1>1, <2>1, SavedContent
    <2> QED
      BY <1>2, <2>3, <2>4
  <1>5. CASE Table \notin Reached(how)
    <2>1. ~coll[Table].dirty
      <3> SUFFICES ASSUME coll[Table].dirty PROVE FALSE
        OBVIOUS
      <3>1. /\ DOMAIN g_collections = 1..Len(g_collections) /\ Len(g_collections) \in Nat
        BY <1>1, LenProperties
      <3>2. 1 \in DOMAIN g_collections
        BY <1>3, <3>1 DEF Registered
      <3>3. g_collections[1] = Table
        BY <1>1, <3>2 DEF Registered
      <3>4. 1..(1 - 1) = {}
        OBVIOUS
      <3> QED
        BY <1>5, <3>2, <3>3, <3>4 DEF Reached
    <2>2. files'[target][Table] = files[target][Table]
      BY <1>1, <1>5, TableAssumption DEF SaveAllFiles
    <2>3. imported = <<>> /\ found \o <<>> = found
      BY <1>1, <2>1, ConcatEmptySeq DEF Growing, JInv
    <2> QED
      BY <1>1, <1>2, <2>2, <2>3 DEF Growing, Held
  <1> QED
    BY <1>4, <1>5

\* The steps that end a session.
LEMMA EndsJInv ==
  ASSUME Durable, JInv, SInv',
         \/ CannotOpen
         \/ \E how \in CloseEnds : GivesUp(how) \/ Closes(how)
         \/ \E how \in CrashEnds : Dies(how)
  PROVE  JInv'
  <1>1. /\ UNCHANGED <<target, found, imported>> /\ step' \in {"idle", "exit"} /\ dir' = NoDir
        /\ Registered' \subseteq {Table}
    <2>1. CASE CannotOpen
      <3>1. dir = NoDir
        BY <2>1 DEF CannotOpen, JInv
      <3> QED
        BY <2>1, <3>1 DEF CannotOpen, OpenNoDirectory, OpenFailsIO, OpenNoMemory, OpenFailsAlloc,
           UnregisterEverything, memoryVars, JInv, Registered
    <2>2. CASE \E how \in CloseEnds : GivesUp(how) \/ Closes(how)
      BY <2>2 DEF GivesUp, Closes, Close, TransitionToClosed, UnregisterEverything, Registered
    <2>3. CASE \E how \in CrashEnds : Dies(how)
      BY <2>3 DEF Dies, Crash, ProcessRestart, UnregisterEverything, Registered
    <2> QED
      BY <2>1, <2>2, <2>3
  <1>2. /\ Held' \in {found, found \o imported}
        /\ "noData" \notin Faults /\ step' = "exit" /\ verdict' = "true" => Held' = found \o imported
    <2>1. CASE CannotOpen
      <3>1. Held' = Held /\ verdict' # "true"
        BY <1>1, <2>1 DEF CannotOpen, OpenNoDirectory, OpenNoMemory, diskVars, Held
      <3> QED
        BY <3>1 DEF JInv
    <2>2. ASSUME NEW how \in CloseEnds, GivesUp(how) \/ Closes(how)
          PROVE  /\ Held' \in {found, found \o imported}
                 /\ "noData" \notin Faults => Held' = found \o imported
      <3>1. dir # NoDir
        BY <2>2, NoDirAssumption DEF GivesUp, Closes, JInv
      <3>2. SaveAllFiles(dir, how)
        BY <2>2, <3>1 DEF GivesUp, Closes, Close
      <3>3. Held' = IF how[Table].end = "noData" THEN found ELSE found \o imported
        BY <1>1, <3>1, <3>2, TableSaved DEF Held
      <3>4. "noData" \notin Faults => how[Table].end # "noData"
        BY TableAssumption DEF CloseEnds, SaveEnds
      <3> QED
        BY <3>3, <3>4
    <2>3. ASSUME NEW how \in CrashEnds, Dies(how)
          PROVE  Held' \in {found, found \o imported} /\ step' = "idle"
      <3>1. CASE dir = NoDir
        BY <1>1, <2>3, <3>1 DEF Dies, Crash, diskVars, Held, JInv
      <3>2. CASE dir # NoDir
        <4>1. SaveAllFiles(dir, how)
          BY <2>3, <3>2 DEF Dies, Crash
        <4>2. Held' = IF how[Table].end = "noData" THEN found ELSE found \o imported
          BY <1>1, <3>2, <4>1, TableSaved DEF Held
        <4> QED
          BY <2>3, <4>2 DEF Dies
      <3> QED
        BY <2>3, <3>1, <3>2 DEF Dies
    <2> QED
      BY <2>1, <2>2, <2>3
  <1> QED
    BY <1>1, <1>2 DEF JInv, ReportedRowsAreSaved, Held

LEMMA NextJInv ==
  ASSUME Durable
  PROVE  JInv /\ [ImportNext]_allVars => JInv'
  <1> SUFFICES ASSUME JInv, [ImportNext]_allVars PROVE JInv'
    OBVIOUS
  <1>1. SInv'
    <2>1. [Next]_vars
      BY ImportIsClient DEF allVars
    <2> QED
      BY <2>1, NextSInv DEF JInv, Durable, Careful
  <1>2. CASE \E d \in Dirs : ImportOpens(d)
    BY <1>1, <1>2, OpensJInv
  <1>3. CASE \E s \in Schemas : Registers(s)
    BY <1>1, <1>3, RegistersJInv
  <1>4. CASE Begins \/ RollsBack \/ Commits
    BY <1>1, <1>4, TransactionJInv
  <1>5. CASE \E keys \in Keys : Inserts(keys)
    BY <1>1, <1>5, InsertsJInv
  <1>6. CASE RowFails
    BY <1>1, <1>6, RowFailsJInv
  <1>7. CASE \/ CannotOpen
             \/ \E how \in CloseEnds : GivesUp(how) \/ Closes(how)
             \/ \E how \in CrashEnds : Dies(how)
    BY <1>1, <1>7, EndsJInv
  <1>8. CASE UNCHANGED allVars
    BY <1>1, <1>8 DEF allVars, vars, importVars, JInv, Growing, Held, Registered, ReportedRowsAreSaved
  <1> QED
    BY <1>2, <1>3, <1>4, <1>5, <1>6, <1>7, <1>8 DEF ImportNext

\* The files only grow in one step.
LEMMA StepAppends ==
  ASSUME Durable, JInv, [ImportNext]_allVars, NEW d \in Dirs
  PROVE  IsPrefix(Content(files[d][Table]), Content(files'[d][Table]))
  <1>1. Content(files[d][Table]) \in Seq(Doc) /\ found \in Seq(Doc) /\ imported \in Seq(Doc)
    <2>1. files[d][Table] \in File
      BY TableAssumption DEF JInv, SInv, IInv, TypeOK
    <2> QED
      BY <2>1, ContentType DEF JInv
  <1>2. CASE files' = files
    BY <1>1, <1>2, BeginsWith
  <1>3. CASE dir # NoDir /\ \E how \in CloseEnds \cup CrashEnds : SaveAllFiles(dir, how)
    <2>1. PICK how \in CloseEnds \cup CrashEnds : SaveAllFiles(dir, how)
      BY <1>3
    <2>2. CASE d = target
      <3>1. Content(files[d][Table]) = found
        BY <1>3, <2>2 DEF JInv, Growing, Held
      <3>2. Content(files'[d][Table]) \in {found, found \o imported}
        BY <1>3, <2>1, <2>2, TableSaved
      <3> QED
        BY <1>1, <3>1, <3>2, BeginsWith
    <2>3. CASE d # target
      <3>1. files'[d] = files[d]
        BY <1>3, <2>1, <2>3, TableSaved
      <3> QED
        BY <1>1, <3>1, BeginsWith
    <2> QED
      BY <2>2, <2>3
  <1>4. files' = files \/ (dir # NoDir /\ \E how \in CloseEnds \cup CrashEnds : SaveAllFiles(dir, how))
    <2>1. CASE \/ \E e \in Dirs : ImportOpens(e)
               \/ CannotOpen
               \/ \E s \in Schemas : Registers(s)
               \/ Begins \/ RollsBack \/ Commits
               \/ \E keys \in Keys : Inserts(keys)
               \/ RowFails
      BY <2>1 DEF ImportOpens, Open, CannotOpen, OpenNoDirectory, OpenNoMemory, Registers, Register,
         Begins, BeginWriteTxn, RollsBack, Commits, EndWriteTxn, Inserts, Put, RowFails, Access,
         PutAborts, diskVars
    <2>2. CASE \E how \in CloseEnds : GivesUp(how) \/ Closes(how)
      BY <2>2 DEF GivesUp, Closes, Close, diskVars
    <2>3. CASE \E how \in CrashEnds : Dies(how)
      BY <2>3 DEF Dies, Crash, diskVars
    <2>4. CASE UNCHANGED allVars
      BY <2>4 DEF allVars, vars
    <2> QED
      BY <2>1, <2>2, <2>3, <2>4 DEF ImportNext
  <1> QED
    BY <1>2, <1>3, <1>4

-----------------------------------------------------------------------------
(* The properties *)

LEMMA ImportInductive == Durable => (ImportSpec => []JInv)
  <1> SUFFICES ASSUME Durable PROVE ImportSpec => []JInv
    OBVIOUS
  <1>1. ImportInit => JInv
    BY InitJInv
  <1>2. JInv /\ [ImportNext]_allVars => JInv'
    BY NextJInv
  <1> QED
    BY <1>1, <1>2, PTL DEF ImportSpec

\* Imports only append, for any number of directories, schemas, rows and
\* imports, whatever fails and wherever the process dies.
THEOREM ImportsAppend == Durable => (ImportSpec => ImportAppends)
  <1> SUFFICES ASSUME Durable PROVE ImportSpec => ImportAppends
    OBVIOUS
  <1>1. ImportSpec => []JInv
    BY ImportInductive
  <1>2. JInv /\ [ImportNext]_allVars =>
          [\A d \in Dirs : IsPrefix(Content(files[d][Table]), Content(files'[d][Table]))]_allVars
    BY StepAppends
  <1> QED
    BY <1>1, <1>2, PTL DEF ImportSpec, ImportAppends

\* An import that fails leaves the file as it was, or with the rows that were put
\* before the failing one, in their order, behind what it found.
THEOREM FailedImportsKeepRows == Durable => (ImportSpec => []FailedImportKeepsRows)
  <1> SUFFICES ASSUME Durable PROVE ImportSpec => []FailedImportKeepsRows
    OBVIOUS
  <1>1. ImportSpec => []JInv
    BY ImportInductive
  <1>2. JInv => FailedImportKeepsRows
    BY DEF JInv, Held, FailedImportKeepsRows
  <1> QED
    BY <1>1, <1>2, PTL

\* What an import reports is in the file, as long as no save fails before it
\* replaces the file: that one failure is dropped by close.
THEOREM ReportsAreTrue ==
  Durable /\ "noData" \notin Faults => (ImportSpec => []ReportedRowsAreSaved)
  <1> SUFFICES ASSUME Durable, "noData" \notin Faults PROVE ImportSpec => []ReportedRowsAreSaved
    OBVIOUS
  <1>1. ImportSpec => []JInv
    BY ImportInductive
  <1>2. JInv => ReportedRowsAreSaved
    BY DEF JInv
  <1> QED
    BY <1>1, <1>2, PTL
=========================================================================
