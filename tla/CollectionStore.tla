--------------------------- MODULE CollectionStore ---------------------------
(***************************************************************************)
(* The collection engine of ApxDB (src/src/native/apxdb_collection.c) on   *)
(* one thread: the registry of collections, the documents and indexes each *)
(* keeps in memory, the document counter, the write transaction, the lazy  *)
(* load of a collection from its file, saves, and what open, close and the *)
(* end of the process do to all of these.  One action is one call of the   *)
(* C API with every call it makes.                                         *)
(*                                                                         *)
(* Data is abstract: a document is its number (the N of its id "doc_N")    *)
(* and, per indexable field, the keys an index has for it there: none for  *)
(* a null, one for a plain value, several for a list under an element      *)
(* index.  A file is the sequence of its documents.                        *)
(***************************************************************************)
EXTENDS NativeLifecycle, Integers, Sequences

CONSTANTS
  Collections,  \* collection names
  Fields,       \* fields an index can be declared on
  Values,       \* index keys
  Schemas,      \* schema signatures (compute_schema_signature)
  NoSchema,     \* the collection is not registered
  NoFile,       \* the path does not exist
  Faults,       \* which of the failures of FaultKinds happen
  EarlyUse,     \* TRUE: the client uses a collection while no directory is set
  Transfers,    \* TRUE: the client also saves to, and loads from, files other
                \* than those of the open directory
  MaxId         \* bound: the document counter stops here

(***************************************************************************)
(* noData: the save fails before the data file is replaced.  noIndex: the  *)
(* data file is replaced and the index file is not.  torn: the last flush  *)
(* fails in fclose, whose result is dropped, and the short file is renamed *)
(* over the good one.  read: a read or an allocation fails during a load.  *)
(* key: an index key cannot be built (no memory, or a value with no key).  *)
(***************************************************************************)
FaultKinds == {"noData", "noIndex", "torn", "read", "key"}

ASSUME StoreAssumption ==
  /\ NoSchema \notin Schemas
  /\ Faults \subseteq FaultKinds
  /\ EarlyUse \in BOOLEAN
  /\ Transfers \in BOOLEAN
  /\ MaxId \in Nat

VARIABLES
  g_collections,  \* the registered collections, in order of registration
  coll,           \* the apxdb_collection_t of each name
  counter,        \* g_collection_counter
  txn,            \* has_active_write_txn()
  heap,           \* "damaged" once a block was freed twice
  files,          \* files[d][c]: d/c.apxdb
  idxFiles        \* idxFiles[d][c]: d/c.idx

memoryVars == <<g_collections, coll, counter, txn, heap>>
diskVars == <<files, idxFiles>>
vars == <<state, dir, g_collections, coll, counter, txn, heap, files, idxFiles>>

Keys == [Fields -> SUBSET Values]
Doc == [id: Nat, keys: Keys]
Index == [Fields -> [Values -> SUBSET Nat]]
Signature == Schemas \cup {NoSchema}
Memory == [schema: Signature, docs: Seq(Doc), fields: SUBSET Fields,
           idx: Index, dirty: BOOLEAN, loaded: BOOLEAN]
Contents == [schema: Signature, docs: Seq(Doc), whole: BOOLEAN]
File == Contents \cup {NoFile}
IndexFile == [schema: Signature, fields: SUBSET Fields, idx: Index] \cup {NoFile}

\* A missing file is not mistaken for one that can be read.
ASSUME NoFileAssumption == NoFile \notin Contents

Registered == {g_collections[i] : i \in DOMAIN g_collections}
Ids(docs) == {docs[i].id : i \in DOMAIN docs}
EmptyIndex == [f \in Fields |-> [v \in Values |-> {}]]
Blank(s) == [schema |-> s, docs |-> <<>>, fields |-> {}, idx |-> EmptyIndex,
             dirty |-> FALSE, loaded |-> FALSE]

Init ==
  /\ LifecycleInit
  /\ g_collections = <<>>
  /\ coll = [c \in Collections |-> Blank(NoSchema)]
  /\ counter = 0
  /\ txn = FALSE
  /\ heap = "sound"
  /\ files = [d \in Dirs |-> [c \in Collections |-> NoFile]]
  /\ idxFiles = [d \in Dirs |-> [c \in Collections |-> NoFile]]

-----------------------------------------------------------------------------
(***************************************************************************)
(* Indexes.  An index maps a key to the ids of the documents that have it. *)
(***************************************************************************)

\* index_document for the documents of docs, on the declared fields.
IndexDocs(idx, fields, docs) ==
  [f \in Fields |-> [v \in Values |->
    IF f \in fields
    THEN idx[f][v] \cup {docs[i].id : i \in {j \in DOMAIN docs : v \in docs[j].keys[f]}}
    ELSE idx[f][v]]]

\* Slip in Unindex: the entries keep the id.
UnindexForgotten(idx, id) == idx

\* remove_doc_from_indexes: the id leaves every entry of every index.
Unindex(idx, id) == [f \in Fields |-> [v \in Values |-> idx[f][v] \ {id}]]

\* Slip in IndexHeaderRead: the order of the writer.
HeaderReadAsWritten == <<"magic", "version", "signature", "name", "count">>

\* The header of a .idx file, field by field: what save_collection_index_file
\* writes, and what load_collection_index_file reads for a file of version 3.
IndexHeaderWritten == <<"magic", "version", "signature", "name", "count">>
IndexHeaderRead == <<"magic", "version", "name", "signature", "count">>

\* Whether load_collection_index_file takes the entries of file x for m: the
\* header must read back, the declarations must match those of the collection
\* and every id must be that of a document (validate_loaded_index_data).
IndexFileAccepted(x, m) ==
  /\ x # NoFile
  /\ IndexHeaderRead = IndexHeaderWritten
  /\ x.schema = m.schema
  /\ x.fields = m.fields
  /\ \A f \in Fields, v \in Values : x.idx[f][v] \subseteq Ids(m.docs)

-----------------------------------------------------------------------------
(***************************************************************************)
(* Loading.  What a load can lead to, as a set of outcomes:                *)
(*   ok    the load succeeded                                              *)
(*   m     the collection afterwards                                       *)
(*   seen  the ids passed to update_document_counter_from_id               *)
(*   hurt  a blob was freed twice                                          *)
(*   xf    the index file afterwards                                       *)
(***************************************************************************)

\* Slip in NoClash: append_document without its look for the id.
ClashUnseen(m, f, n) == TRUE

\* The first n documents of f can be appended to m: append_document refuses an
\* id the collection already holds.
NoClash(m, f, n) ==
  \A i \in 1..n : /\ f.docs[i].id \notin Ids(m.docs)
                  /\ \A j \in 1..(i - 1) : f.docs[j].id # f.docs[i].id

\* The loop over the documents ends after appending n of them and fails: inside
\* append_document, on an id that is already there or for want of memory (it
\* frees the blob, and so does the loop), or on a short file or a failed read.
StopsAt(m, f, n, hurt) ==
  /\ NoClash(m, f, n)
  /\ IF hurt
     THEN n < Len(f.docs) /\ ("read" \in Faults \/ ~NoClash(m, f, n + 1))
     ELSE \/ "read" \in Faults /\ (n = 0 \/ n < Len(f.docs))
          \/ ~f.whole /\ n = Len(f.docs)

WithDocs(m, f, n) == [m EXCEPT !.docs = @ \o SubSeq(f.docs, 1, n)]

\* The documents do not all load: those appended stay, not indexed.
LoadStops(m, f, x) ==
  {[ok |-> FALSE, m |-> WithDocs(m, f, p[1]), seen |-> Ids(SubSeq(f.docs, 1, p[1])),
    hurt |-> p[2], xf |-> x]
   : p \in {q \in (0..Len(f.docs)) \X BOOLEAN : StopsAt(m, f, q[1], q[2])}}

\* Slips in Loaded, which forgets the flag, and in IndexFileOf, which leaves the
\* declarations out.
LoadedUnmarked(m) == [m EXCEPT !.dirty = FALSE]
IndexFileBare(m) == [schema |-> m.schema, idx |-> m.idx]

\* All documents are in m.  The index file is taken, or the index is rebuilt
\* from the documents and written back (a failure to write it is ignored).
IndexRebuilt(m) == [m EXCEPT !.idx = IndexDocs(@, m.fields, m.docs)]
Loaded(m) == [m EXCEPT !.dirty = FALSE, !.loaded = TRUE]
IndexFileOf(m) == [schema |-> m.schema, fields |-> m.fields, idx |-> m.idx]

LoadCompletes(m, seen, x) ==
  IF m.fields = {}
  THEN {[ok |-> TRUE, m |-> Loaded(m), seen |-> seen, hurt |-> FALSE, xf |-> x]}
  ELSE IF IndexFileAccepted(x, m)
  THEN {[ok |-> TRUE, m |-> Loaded([m EXCEPT !.idx = x.idx]), seen |-> seen,
         hurt |-> FALSE, xf |-> x]}
  ELSE {[ok |-> TRUE, m |-> Loaded(IndexRebuilt(m)), seen |-> seen, hurt |-> FALSE, xf |-> y]
        : y \in {IndexFileOf(IndexRebuilt(m))} \cup (IF "noIndex" \in Faults THEN {x} ELSE {})}

\* index_document gives up on a document after some of its keys.
Partial(keys) == {part \in Keys : \A f \in Fields : part[f] \subseteq keys[f]}

\* The rebuild gives up on document k.
RebuildStops(m, seen, x) ==
  IF "key" \notin Faults \/ m.fields = {} \/ IndexFileAccepted(x, m) THEN {}
  ELSE UNION {
    {[ok |-> FALSE, seen |-> seen, hurt |-> FALSE, xf |-> x,
      m |-> [m EXCEPT !.idx = IndexDocs(@, m.fields,
               Append(SubSeq(m.docs, 1, k - 1), [m.docs[k] EXCEPT !.keys = part]))]]
     : part \in Partial(m.docs[k].keys)} : k \in DOMAIN m.docs}

\* Slip in LoadOutcomes: the signature in the file is read and not compared.
LoadAnySchema(m, f, x) ==
  IF f = NoFile
  THEN {[ok |-> FALSE, m |-> m, seen |-> {}, hurt |-> FALSE, xf |-> x]}
  ELSE LoadStops(m, f, x)
       \cup (IF NoClash(m, f, Len(f.docs)) /\ f.whole
             THEN LoadCompletes(WithDocs(m, f, Len(f.docs)), Ids(f.docs), x) ELSE {})

\* Slip in LoadOutcomes: a file of another schema counts as no file.
LoadOrNew(m, f, x) ==
  IF f = NoFile \/ f.schema # m.schema
  THEN {[ok |-> TRUE, m |-> Loaded(m), seen |-> {}, hurt |-> FALSE, xf |-> x]}
  ELSE LoadStops(m, f, x)
       \cup (IF NoClash(m, f, Len(f.docs)) /\ f.whole
             THEN LoadCompletes(WithDocs(m, f, Len(f.docs)), Ids(f.docs), x) ELSE {})

\* load_collection_from_file, with the flag its callers set when it succeeds.
LoadOutcomes(m, f, x) ==
  IF f = NoFile \/ f.schema # m.schema
  THEN {[ok |-> FALSE, m |-> m, seen |-> {}, hurt |-> FALSE, xf |-> x]}
  ELSE LoadStops(m, f, x)
       \cup (IF NoClash(m, f, Len(f.docs)) /\ f.whole
             THEN LET all == WithDocs(m, f, Len(f.docs))
                  IN LoadCompletes(all, Ids(f.docs), x) \cup RebuildStops(all, Ids(f.docs), x)
             ELSE {})

\* ensure_collection_loaded against directory d.
EnsureOutcomes(m, d, c) ==
  LET same == [ok |-> TRUE, m |-> m, seen |-> {}, hurt |-> FALSE, xf |-> NoFile] IN
  IF d = NoDir
  THEN {[same EXCEPT !.m.loaded = TRUE]}
  ELSE IF m.loaded
  THEN {[same EXCEPT !.xf = idxFiles[d][c]]}
  ELSE IF files[d][c] = NoFile
  THEN {[same EXCEPT !.m.loaded = TRUE, !.xf = idxFiles[d][c]]}
  ELSE LoadOutcomes(m, files[d][c], idxFiles[d][c])

\* Slip in Raised: loads leave the counter alone.
NotRaised(n, seen) == {n}

\* update_document_counter_from_id for every id in seen.
Raised(n, seen) == {t \in {n} \cup seen : \A i \in {n} \cup seen : i <= t}

-----------------------------------------------------------------------------
(***************************************************************************)
(* Saving.  A save ends "ok", or at one of the faults; kept is how many    *)
(* documents of a torn file reached the disk.                              *)
(***************************************************************************)
SaveEnds(kinds) ==
  {[end |-> e, kept |-> 0] : e \in {"ok"} \cup ({"noData", "noIndex"} \cap kinds)}
  \cup {[end |-> "torn", kept |-> k] : k \in IF "torn" \in kinds THEN 0..MaxId ELSE {}}

\* Slip in SaveFails: the result of the write is not looked at.
FailureUnseen(m, how) == FALSE

\* save_collection_to_file returned false.
SaveFails(m, how) == how.end = "noData" \/ (how.end = "noIndex" /\ m.fields # {})

\* The data file and the index file that save_collection_to_file leaves.
DataSaved(m, how, old) ==
  IF how.end = "noData" THEN old
  ELSE IF how.end = "torn"
  THEN [schema |-> m.schema, whole |-> FALSE,
        docs |-> SubSeq(m.docs, 1, IF how.kept < Len(m.docs) THEN how.kept ELSE Len(m.docs) - 1)]
  ELSE [schema |-> m.schema, whole |-> TRUE, docs |-> m.docs]

IndexSaved(m, how, old) ==
  IF how.end \in {"noData", "noIndex"} \/ m.fields = {} THEN old ELSE IndexFileOf(m)

\* Slip in Reached: the loop ends at the first clean collection.
ReachedToFirstClean(how) ==
  {g_collections[i] : i \in {j \in DOMAIN g_collections :
      \A k \in 1..j : coll[g_collections[k]].dirty}}

\* apxdb_save_all_collections goes through the registry in order, passes over
\* clean collections and stops at the first save that fails.
Reached(how) ==
  {g_collections[i] : i \in {j \in DOMAIN g_collections :
      /\ coll[g_collections[j]].dirty
      /\ \A k \in 1..(j - 1) : LET m == coll[g_collections[k]]
                              IN ~(m.dirty /\ SaveFails(m, how[g_collections[k]]))}}

SaveAllFiles(d, how) ==
  /\ files' = [files EXCEPT ![d] = [c \in Collections |->
       IF c \in Reached(how) THEN DataSaved(coll[c], how[c], @[c]) ELSE @[c]]]
  /\ idxFiles' = [idxFiles EXCEPT ![d] = [c \in Collections |->
       IF c \in Reached(how) THEN IndexSaved(coll[c], how[c], @[c]) ELSE @[c]]]

\* apxdb_collection_unregister_all: collections, transaction and counter go.
UnregisterEverything ==
  /\ g_collections' = <<>>
  /\ coll' = [c \in Collections |-> Blank(NoSchema)]
  /\ counter' = 0
  /\ txn' = FALSE

-----------------------------------------------------------------------------
(***************************************************************************)
(* Lifecycle calls and the end of the process.                             *)
(***************************************************************************)
Initialize ==
  /\ InitializeSucceeds
  /\ UNCHANGED <<memoryVars, diskVars>>

Open(d) ==
  /\ OpenSucceeds(d)
  /\ UNCHANGED <<memoryVars, diskVars>>

OpenNoDirectory ==
  /\ OpenFailsIO
  /\ UNCHANGED <<memoryVars, diskVars>>

OpenNoMemory ==
  /\ OpenFailsAlloc
  /\ UnregisterEverything
  /\ UNCHANGED <<heap, diskVars>>

\* transition_to_closed: what apxdb_save_all_collections returns is dropped.
Close(how) ==
  /\ TransitionToClosed
  /\ IF dir = NoDir THEN UNCHANGED diskVars ELSE SaveAllFiles(dir, how)
  /\ UnregisterEverything
  /\ UNCHANGED heap

\* apxdb_collection_unregister_all called by the client.
UnregisterAll ==
  /\ UnregisterEverything
  /\ UNCHANGED <<state, dir, heap, diskVars>>

\* The process dies, between two calls or inside the saves of a close: then
\* the files written so far are there, the last perhaps without its index.
Crash(how) ==
  /\ ProcessRestart
  /\ IF dir = NoDir THEN UNCHANGED diskVars ELSE SaveAllFiles(dir, how)
  /\ UnregisterEverything
  /\ heap' = "sound"

-----------------------------------------------------------------------------
(***************************************************************************)
(* Registry and transaction calls.                                         *)
(***************************************************************************)
Register(c, s) ==
  /\ c \notin Registered
  /\ g_collections' = Append(g_collections, c)
  /\ coll' = [coll EXCEPT ![c] = Blank(s)]
  /\ UNCHANGED <<state, dir, counter, txn, heap, diskVars>>

\* apxdb_add_index: the new index is empty, whatever documents are there.  A
\* second index on a field is never looked up (find_index_data).
AddIndex(c, f) ==
  /\ c \in Registered
  /\ coll' = [coll EXCEPT ![c].fields = @ \cup {f}]
  /\ UNCHANGED <<state, dir, g_collections, counter, txn, heap, diskVars>>

BeginWriteTxn ==
  /\ ~txn
  /\ txn' = TRUE
  /\ UNCHANGED <<state, dir, g_collections, coll, counter, heap, diskVars>>

\* Commit, rollback and free of the active transaction do the same: the
\* handle is forgotten and no document changes.
EndWriteTxn ==
  /\ txn
  /\ txn' = FALSE
  /\ UNCHANGED <<state, dir, g_collections, coll, counter, heap, diskVars>>

-----------------------------------------------------------------------------
(***************************************************************************)
(* Document calls.  Each begins with ensure_collection_loaded; After says  *)
(* what that did to everything but the collection and the counter.         *)
(***************************************************************************)
Usable(c) == c \in Registered /\ (dir # NoDir \/ EarlyUse)

After(o, d, c) ==
  /\ heap' = IF o.hurt THEN "damaged" ELSE heap
  /\ idxFiles' = IF d = NoDir THEN idxFiles ELSE [idxFiles EXCEPT ![d][c] = o.xf]

\* Queries, counts, reads, and every other document call that returns early:
\* the collection does not load, the document is not valid or not there.
Access(c) ==
  /\ Usable(c)
  /\ \E o \in EnsureOutcomes(coll[c], dir, c) :
       /\ After(o, dir, c)
       /\ coll' = [coll EXCEPT ![c] = o.m]
       /\ counter' \in Raised(counter, o.seen)
  /\ UNCHANGED <<state, dir, g_collections, txn, files>>

\* apxdb_put_document returns an id.
Put(c, keys) ==
  /\ Usable(c)
  /\ txn
  /\ \E o \in EnsureOutcomes(coll[c], dir, c), n \in 0..MaxId - 1 :
       LET doc == [id |-> n + 1, keys |-> keys] IN
       /\ o.ok
       /\ n \in Raised(counter, o.seen)
       /\ n + 1 \notin Ids(o.m.docs)
       /\ After(o, dir, c)
       /\ coll' = [coll EXCEPT ![c] =
            [o.m EXCEPT !.docs = Append(@, doc), !.dirty = TRUE,
                        !.idx = IndexDocs(@, o.m.fields, <<doc>>)]]
       /\ counter' = n + 1
  /\ UNCHANGED <<state, dir, g_collections, txn, files>>

\* apxdb_put_document takes an id and then cannot build or append the document.
PutAborts(c) ==
  /\ Usable(c)
  /\ txn
  /\ \E o \in EnsureOutcomes(coll[c], dir, c), n \in 0..MaxId - 1 :
       /\ o.ok
       /\ n \in Raised(counter, o.seen)
       /\ "key" \in Faults \/ n + 1 \in Ids(o.m.docs)
       /\ After(o, dir, c)
       /\ coll' = [coll EXCEPT ![c] = o.m]
       /\ counter' = n + 1
  /\ UNCHANGED <<state, dir, g_collections, txn, files>>

\* apxdb_put_document appends the document, then index_document gives up after
\* the keys in part: the id leaves the indexes and the document is popped.  The
\* collection is dirty all the same.
PutNotIndexed(c, part) ==
  /\ Usable(c)
  /\ txn
  /\ "key" \in Faults
  /\ \E o \in EnsureOutcomes(coll[c], dir, c), n \in 0..MaxId - 1 :
       /\ o.ok
       /\ o.m.fields # {}
       /\ n \in Raised(counter, o.seen)
       /\ n + 1 \notin Ids(o.m.docs)
       /\ After(o, dir, c)
       /\ coll' = [coll EXCEPT ![c] =
            [o.m EXCEPT !.dirty = TRUE,
                        !.idx = Unindex(IndexDocs(@, o.m.fields, <<[id |-> n + 1, keys |-> part]>>),
                                        n + 1)]]
       /\ counter' = n + 1
  /\ UNCHANGED <<state, dir, g_collections, txn, files>>

\* Slip in WithoutAt: the last element fills the gap.
WithLastAt(docs, p) ==
  [i \in 1..(Len(docs) - 1) |-> IF i = p THEN docs[Len(docs)] ELSE docs[i]]

\* The array without its element p: the later ones move down one place.
WithoutAt(docs, p) == [i \in 1..(Len(docs) - 1) |-> IF i < p THEN docs[i] ELSE docs[i + 1]]

\* apxdb_delete_document of an id that is there.
Delete(c, id) ==
  /\ Usable(c)
  /\ txn
  /\ \E o \in EnsureOutcomes(coll[c], dir, c) : \E p \in DOMAIN o.m.docs :
       /\ o.ok
       /\ o.m.docs[p].id = id
       /\ \A q \in 1..(p - 1) : o.m.docs[q].id # id
       /\ After(o, dir, c)
       /\ coll' = [coll EXCEPT ![c] =
            [o.m EXCEPT !.docs = WithoutAt(@, p), !.dirty = TRUE, !.idx = Unindex(@, id)]]
       /\ counter' \in Raised(counter, o.seen)
  /\ UNCHANGED <<state, dir, g_collections, txn, files>>

-----------------------------------------------------------------------------
(***************************************************************************)
(* Persistence calls.  MayTransfer(d): the client names directory d.       *)
(***************************************************************************)
MayTransfer(d) == d = dir \/ Transfers

\* apxdb_save_collection to a file of directory d.
SaveCollection(c, d, how) ==
  /\ Usable(c)
  /\ MayTransfer(d)
  /\ \E o \in EnsureOutcomes(coll[c], dir, c) :
       /\ o.ok
       /\ heap' = heap
       /\ coll' = [coll EXCEPT ![c] =
            IF SaveFails(o.m, how) THEN o.m ELSE [o.m EXCEPT !.dirty = FALSE]]
       /\ counter' \in Raised(counter, o.seen)
       /\ files' = [files EXCEPT ![d][c] = DataSaved(o.m, how, @)]
       /\ LET x == IF dir = NoDir THEN idxFiles ELSE [idxFiles EXCEPT ![dir][c] = o.xf]
          IN idxFiles' = [x EXCEPT ![d][c] = IndexSaved(o.m, how, @)]
  /\ UNCHANGED <<state, dir, g_collections, txn>>

\* apxdb_load_collection from a file of directory d, whether or not the
\* collection holds documents already.
LoadCollection(c, d) ==
  /\ c \in Registered
  /\ Transfers
  /\ \E o \in LoadOutcomes(coll[c], files[d][c], idxFiles[d][c]) :
       /\ After(o, d, c)
       /\ coll' = [coll EXCEPT ![c] = o.m]
       /\ counter' \in Raised(counter, o.seen)
  /\ UNCHANGED <<state, dir, g_collections, txn, files>>

\* apxdb_save_all_collections called by the client.
SaveAll(d, how) ==
  /\ MayTransfer(d)
  /\ SaveAllFiles(d, how)
  /\ coll' = [c \in Collections |->
       IF c \in Reached(how) /\ ~SaveFails(coll[c], how[c])
       THEN [coll[c] EXCEPT !.dirty = FALSE] ELSE coll[c]]
  /\ UNCHANGED <<state, dir, g_collections, counter, txn, heap>>

\* apxdb_load_all_collections: ensure_collection_loaded against d for each
\* collection of the registry in order, up to the first that fails.
LoadAll(d) ==
  /\ MayTransfer(d)
  /\ \E stop \in 1..(Len(g_collections) + 1) :
       LET tried == {g_collections[i] : i \in DOMAIN g_collections \cap (1..stop)}
           outcomes == UNION {EnsureOutcomes(coll[c], d, c) : c \in tried}
       IN \E os \in [tried -> outcomes] :
            /\ \A c \in tried : os[c] \in EnsureOutcomes(coll[c], d, c)
            /\ \A i \in DOMAIN g_collections \cap (1..stop) :
                 os[g_collections[i]].ok <=> i < stop
            /\ coll' = [c \in Collections |-> IF c \in tried THEN os[c].m ELSE coll[c]]
            /\ counter' \in Raised(counter, UNION {os[c].seen : c \in tried})
            /\ heap' = IF \E c \in tried : os[c].hurt THEN "damaged" ELSE heap
            /\ idxFiles' = [idxFiles EXCEPT ![d] = [c \in Collections |->
                 IF c \in tried THEN os[c].xf ELSE @[c]]]
  /\ UNCHANGED <<state, dir, g_collections, txn, files>>

-----------------------------------------------------------------------------
CloseEnds == [Collections -> SaveEnds(Faults)]
CrashEnds == [Collections -> SaveEnds({"noData", "noIndex"})]
CollectionStep(c) ==
  \/ \E s \in Schemas : Register(c, s)
  \/ \E f \in Fields : AddIndex(c, f)
  \/ Access(c)
  \/ \E keys \in Keys : Put(c, keys)
  \/ PutAborts(c)
  \/ \E part \in Keys : PutNotIndexed(c, part)
  \/ \E id \in 1..MaxId : Delete(c, id)
  \/ \E d \in Dirs, how \in SaveEnds(Faults) : SaveCollection(c, d, how)
  \/ \E d \in Dirs : LoadCollection(c, d)

DatabaseStep ==
  \/ Initialize
  \/ \E d \in Dirs : Open(d)
  \/ OpenNoDirectory
  \/ OpenNoMemory
  \/ \E how \in CloseEnds : Close(how)
  \/ UnregisterAll
  \/ BeginWriteTxn
  \/ EndWriteTxn
  \/ \E d \in Dirs, how \in CloseEnds : SaveAll(d, how)
  \/ \E d \in Dirs : LoadAll(d)

(***************************************************************************)
(* What a program does after a double free is not defined: the model       *)
(* follows it no further than the end of the process.                      *)
(***************************************************************************)
Next ==
  \/ heap = "sound" /\ DatabaseStep
  \/ heap = "sound" /\ \E c \in Collections : CollectionStep(c)
  \/ \E how \in CrashEnds : Crash(how)

Spec == Init /\ [][Next]_vars

-----------------------------------------------------------------------------
(***************************************************************************)
(* Properties.                                                             *)
(***************************************************************************)

\* Every variable has its type.
TypeOK ==
  /\ LifecycleTypeOK
  /\ g_collections \in Seq(Collections)
  /\ coll \in [Collections -> Memory]
  /\ counter \in Nat
  /\ txn \in BOOLEAN
  /\ heap \in {"sound", "damaged"}
  /\ files \in [Dirs -> [Collections -> File]]
  /\ idxFiles \in [Dirs -> [Collections -> IndexFile]]

\* The documents of m are numbered up to n, and no two alike.
Numbered(m, n) == \A i \in DOMAIN m.docs : m.docs[i].id <= n
Distinct(m) ==
  \A i, j \in DOMAIN m.docs : m.docs[i].id = m.docs[j].id => i = j

\* The next id a put takes is new: no document in memory has a number above
\* the counter, and no two documents of a collection have the same number.
\* Loads, imports, failed puts and deletes all have to keep the counter up.
IdsFresh == \A c \in Collections : Numbered(coll[c], counter) /\ Distinct(coll[c])

\* Every id in an index is that of a document with the key.
Sound(m) ==
  \A f \in Fields : \A v \in Values : \A id \in m.idx[f][v] :
    \E i \in DOMAIN m.docs : m.docs[i].id = id /\ v \in m.docs[i].keys[f]

\* An index never sends a query to a document that is gone or that has another
\* key, whatever sequence of failed puts, deletes, partial loads, imports and
\* stale index files went before.
IndexSound == \A c \in Collections : Sound(coll[c])

\* Every document is in the index of f under each key it has there.
Complete(m, f) ==
  \A i \in DOMAIN m.docs : \A v \in m.docs[i].keys[f] : m.docs[i].id \in m.idx[f][v]

\* An index that answers for all documents goes on doing so: no put, delete,
\* save or failed call makes it lose one, and a collection that is loaded from
\* its file starts with complete indexes.  (An index added later is exempt:
\* apxdb_add_index does not look at the documents already there.)
IndexStaysComplete ==
  [][\A c \in Collections : \A f \in coll[c].fields \cap coll'[c].fields :
       coll'[c].loaded /\ (~coll[c].loaded \/ Complete(coll[c], f)) => Complete(coll'[c], f)]_vars

\* A collection whose file was not read is not dirty, so save-all and close
\* leave a file that could not be read, or was not, as it is.
DirtyOnlyIfLoaded == \A c \in Collections : coll[c].dirty => coll[c].loaded

\* What a file holds for the next load.
Content(f) == IF f = NoFile THEN <<>> ELSE f.docs

\* A loaded collection without unsaved changes is its file: what close passes
\* over (!dirty) needs no saving.
CleanAgreesWithFile ==
  dir # NoDir =>
    \A c \in Registered :
      coll[c].loaded /\ ~coll[c].dirty => Content(files[dir][c]) = coll[c].docs

\* When no write fails, close leaves every collection in use in its file, also
\* those it does not write.
CloseIsDurable ==
  [][dir # NoDir /\ Close([c \in Collections |-> [end |-> "ok", kept |-> 0]]) =>
       \A c \in Registered :
         coll[c].loaded => Content(files'[dir][c]) = coll[c].docs]_vars

\* A file is only ever replaced by one of the same schema: a program with
\* another schema cannot read it and never writes over it.
SchemaKept ==
  [][\A d \in Dirs, c \in Collections :
       files[d][c] # NoFile =>
         files'[d][c] # NoFile /\ files'[d][c].schema = files[d][c].schema]_vars

\* What a test of the index file format says (apxdb_index_test.c:123): name and
\* declarations follow the signature, so the loader takes the index file a save
\* left when declarations, schema and ids match those of the collection.
IndexFileUsed ==
  \A d \in Dirs, c \in Registered :
    LET f == files[d][c]
        x == idxFiles[d][c]
        m == coll[c]
    IN  /\ f # NoFile /\ x # NoFile /\ m.docs = <<>>
        /\ f.schema = m.schema /\ x.schema = m.schema /\ x.fields = m.fields
        /\ \A g \in Fields, v \in Values : x.idx[g][v] \subseteq Ids(f.docs)
        => IndexFileAccepted(x, WithDocs(m, f, Len(f.docs)))

\* No block is freed twice.
NoDoubleFree == heap = "sound"
=============================================================================
