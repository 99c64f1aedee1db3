------------------------ MODULE StoreDurability_proofs ------------------------
(***************************************************************************)
(* Proofs about what CollectionStore keeps for a client that stays with    *)
(* the files of the open directory (~Transfers) and works only after open  *)
(* (~EarlyUse): indexes stay complete, files keep their schema, what close *)
(* passes over needs no saving, close is durable, nothing is freed twice.  *)
(* When moreover no file is torn, the store, seen through LiveOf and       *)
(* Content, implements SessionStore.                                       *)
(***************************************************************************)
EXTENDS StoreRefinement, CollectionStore_proofs

-----------------------------------------------------------------------------
(* A collection m and the file f it belongs to *)

FileOf(c) == IF dir = NoDir THEN NoFile ELSE files[dir][c]

\* What is in a collection that is not loaded: the beginning of its file, left
\* by a load that stopped.
Waiting(m, f) ==
  ~m.loaded => \E n \in 0..Len(Content(f)) : m.docs = SubSeq(Content(f), 1, n)
SameSchema(m, f) == m.loaded /\ f # NoFile => f.schema = m.schema
Agrees(m, f) == m.loaded /\ ~m.dirty => m.docs = Content(f)

\* What holds between a collection and its file, for each kind of client.
Fit(m, f, open) ==
  /\ Waiting(m, f)
  /\ ~EarlyUse => /\ ~open => ~m.loaded
                  /\ SameSchema(m, f)
                  /\ "torn" \notin Faults => Agrees(m, f)

Careful == ~Transfers /\ ~EarlyUse
Durable == Careful /\ "torn" \notin Faults

-----------------------------------------------------------------------------
(* Loading, once more *)

LEMMA ContentType ==
  ASSUME NEW f \in File
  PROVE  /\ Content(f) \in Seq(Doc) /\ Len(Content(f)) \in Nat
         /\ DOMAIN Content(f) = 1..Len(Content(f))
  <1>1. Content(f) \in Seq(Doc)
    BY DEF Content, File, Contents
  <1> QED
    BY <1>1, LenProperties

\* A sequence is its own beginning.
LEMMA WholeSubSeq ==
  ASSUME NEW s \in Seq(Doc)
  PROVE  SubSeq(s, 1, Len(s)) = s /\ SubSeq(s, 1, 0) = <<>> /\ <<>> \o s = s
  <1>1. Len(s) \in Nat /\ \A i \in 1..Len(s) : s[i] \in Doc
    BY ElementOfSeq, LenProperties
  <1>2. /\ SubSeq(s, 1, Len(s)) \in Seq(Doc) /\ Len(SubSeq(s, 1, Len(s))) = Len(s)
        /\ \A i \in 1..Len(s) : SubSeq(s, 1, Len(s))[i] = s[i]
    BY <1>1, SubSeqProperties
  <1>3. SubSeq(s, 1, Len(s)) = s
    BY <1>2, SeqEqual
  <1>4. SubSeq(s, 1, 0) = <<>>
    BY SubSeqEmpty
  <1> QED
    BY <1>3, <1>4, ConcatEmptySeq

\* The beginning of a file cannot be loaded again on top of itself, except when
\* it is empty.
LEMMA AgainOnlyEmpty ==
  ASSUME NEW m \in Memory, NEW f \in File, f # NoFile, NEW k \in 0..Len(f.docs),
         m.docs = SubSeq(f.docs, 1, k), NEW n \in 0..Len(f.docs), NoClash(m, f, n)
  PROVE  n = 0 \/ (k = 0 /\ m.docs = <<>>)
  <1> SUFFICES ASSUME n # 0 PROVE k = 0 /\ m.docs = <<>>
    OBVIOUS
  <1>1. f.docs \in Seq(Doc) /\ Len(f.docs) \in Nat /\ \A i \in 1..Len(f.docs) : f.docs[i] \in Doc
    BY ElementOfSeq, LenProperties DEF File, Contents
  <1>2. /\ Len(SubSeq(f.docs, 1, k)) = k
        /\ \A i \in 1..k : SubSeq(f.docs, 1, k)[i] = f.docs[i]
        /\ SubSeq(f.docs, 1, k) \in Seq(Doc)
    BY <1>1, SubSeqProperties
  <1>3. CASE k # 0
    <2>1. 1 \in DOMAIN m.docs /\ m.docs[1].id = f.docs[1].id
      BY <1>2, <1>3, LenProperties
    <2>2. f.docs[1].id \notin Ids(m.docs)
      BY DEF NoClash
    <2> QED
      BY <2>1, <2>2 DEF Ids
  <1>4. CASE k = 0
    BY <1>1, <1>4, WholeSubSeq
  <1> QED
    BY <1>3, <1>4

\* Appending to the beginning of a file what can be appended gives a beginning
\* of the file; appending all of it gives the file.
LEMMA AppendedWaits ==
  ASSUME NEW m \in Memory, NEW f \in File, f # NoFile, Waiting(m, f), ~m.loaded,
         NEW n \in 0..Len(f.docs), NoClash(m, f, n)
  PROVE  LET w == WithDocs(m, f, n)
         IN  /\ w \in Memory /\ w.schema = m.schema /\ w.fields = m.fields
             /\ w.dirty = m.dirty /\ w.loaded = m.loaded /\ w.idx = m.idx
             /\ \E k \in 0..Len(f.docs) : w.docs = SubSeq(f.docs, 1, k)
             /\ n = Len(f.docs) => w.docs = f.docs
  <1> DEFINE w == WithDocs(m, f, n)
             b == SubSeq(f.docs, 1, n)
  <1>1. f.docs \in Seq(Doc) /\ Len(f.docs) \in Nat /\ Content(f) = f.docs /\ m.docs \in Seq(Doc)
    BY LenProperties DEF File, Contents, Content, Memory
  <1>2. PICK k \in 0..Len(f.docs) : m.docs = SubSeq(f.docs, 1, k)
    BY <1>1 DEF Waiting
  <1>3. n = 0 \/ (k = 0 /\ m.docs = <<>>)
    BY <1>2, AgainOnlyEmpty
  <1>4. w \in Memory /\ b \in Seq(Doc) /\ w = [m EXCEPT !.docs = m.docs \o b]
    BY WithDocsType
  <1>5. /\ w.schema = m.schema /\ w.fields = m.fields /\ w.dirty = m.dirty
        /\ w.loaded = m.loaded /\ w.idx = m.idx /\ w.docs = m.docs \o b
    BY <1>4 DEF Memory
  <1>6. w.docs = IF n = 0 THEN m.docs ELSE b
    <2>1. CASE n = 0
      <3>1. b = <<>>
        BY <1>1, <2>1, WholeSubSeq
      <3> QED
        BY <1>1, <1>5, <2>1, <3>1, ConcatEmptySeq
    <2>2. CASE n # 0
      BY <1>3, <1>4, <1>5, <2>2, ConcatEmptySeq
    <2> QED
      BY <2>1, <2>2
  <1>7. \E j \in 0..Len(f.docs) : w.docs = SubSeq(f.docs, 1, j)
    BY <1>2, <1>6
  <1>8. ASSUME n = Len(f.docs)
        PROVE  w.docs = f.docs
    <2>1. CASE n = 0
      <3>1. k = n
        BY <1>8, <2>1
      <3> QED
        BY <1>1, <1>2, <1>6, <1>8, <2>1, <3>1, WholeSubSeq
    <2>2. CASE n # 0
      BY <1>1, <1>6, <1>8, <2>2, WholeSubSeq
    <2> QED
      BY <2>1, <2>2
  <1> HIDE DEF w
  <1> QED
    BY <1>4, <1>5, <1>7, <1>8 DEF w

\* What a call may have made of m, whose file is f, by making sure that it is
\* loaded: nothing, if it was; otherwise the collection holds the file once it
\* counts as loaded, and its indexes are complete then.
Ensures(m, f, w) ==
  /\ w.schema = m.schema /\ w.fields = m.fields
  /\ m.loaded => w = m
  /\ w.dirty => m.dirty
  /\ ~m.loaded /\ w.loaded => /\ w.docs = Content(f)
                              /\ f # NoFile => f.schema = m.schema
                              /\ \A g \in w.fields : Complete(w, g)
  /\ Waiting(w, f)

LEMMA LoadEnsures ==
  ASSUME NEW m \in Memory, NEW f \in File, f # NoFile, NEW x, Waiting(m, f), ~m.loaded,
         NEW o \in LoadOutcomes(m, f, x)
  PROVE  Ensures(m, f, o.m)
  <1>1. f.docs \in Seq(Doc) /\ Len(f.docs) \in Nat /\ Content(f) = f.docs
    BY LenProperties DEF File, Contents, Content
  <1>2. CASE f.schema # m.schema
    <2>1. o.m = m
      BY <1>2 DEF LoadOutcomes
    <2> QED
      BY <2>1 DEF Ensures
  <1>3. CASE f.schema = m.schema /\ o \in LoadStops(m, f, x)
    <2>1. PICK n \in 0..Len(f.docs), h \in BOOLEAN :
            /\ StopsAt(m, f, n, h)
            /\ o = [ok |-> FALSE, m |-> WithDocs(m, f, n), seen |-> Ids(SubSeq(f.docs, 1, n)),
                    hurt |-> h, xf |-> x]
      BY <1>3 DEF LoadStops
    <2>2. o.m = WithDocs(m, f, n) /\ NoClash(m, f, n)
      BY <2>1 DEF StopsAt
    <2>3. /\ o.m.schema = m.schema /\ o.m.fields = m.fields /\ o.m.dirty = m.dirty
          /\ o.m.loaded = m.loaded
          /\ \E k \in 0..Len(f.docs) : o.m.docs = SubSeq(f.docs, 1, k)
      BY <2>2, AppendedWaits
    <2> QED
      BY <1>1, <2>3 DEF Ensures, Waiting
  <1>4. CASE f.schema = m.schema /\ o \notin LoadStops(m, f, x)
    <2> DEFINE all == WithDocs(m, f, Len(f.docs))
               seen == Ids(f.docs)
    <2>1. /\ NoClash(m, f, Len(f.docs))
          /\ o \in LoadCompletes(all, seen, x) \cup RebuildStops(all, seen, x)
      BY <1>4 DEF LoadOutcomes
    <2>2. /\ all \in Memory /\ all.schema = m.schema /\ all.fields = m.fields
          /\ all.dirty = m.dirty /\ all.loaded = m.loaded /\ all.docs = f.docs
      BY <1>1, <2>1, AppendedWaits
    <2> HIDE DEF all, seen
    <2>3. ~IndexFileAccepted(x, all)
      BY HeaderRejected
    <2>4. CASE o \in LoadCompletes(all, seen, x)
      <3>1. CASE all.fields = {}
        <4>1. o.m = Loaded(all)
          BY <2>4, <3>1 DEF LoadCompletes
        <4> QED
          BY <1>1, <1>4, <2>2, <3>1, <4>1 DEF Loaded, Ensures, Waiting, Memory
      <3>2. CASE all.fields # {}
        <4> DEFINE y == IndexDocs(all.idx, all.fields, all.docs)
        <4>1. o.m = Loaded(IndexRebuilt(all))
          BY <2>3, <2>4, <3>2 DEF LoadCompletes
        <4>2. /\ o.m.schema = m.schema /\ o.m.fields = m.fields /\ o.m.dirty = FALSE
              /\ o.m.loaded = TRUE /\ o.m.docs = f.docs /\ o.m.idx = y
          BY <2>2, <4>1 DEF Loaded, IndexRebuilt, Memory
        <4>3. ASSUME NEW g \in o.m.fields
              PROVE  Complete(o.m, g)
          <5>1. g \in all.fields /\ g \in Fields
            BY <2>2, <4>2, <4>3 DEF Memory
          <5>2. ASSUME NEW i \in DOMAIN f.docs, NEW v \in f.docs[i].keys[g]
                PROVE  f.docs[i].id \in y[g][v]
            <6>1. f.docs[i].keys \in Keys
              BY <1>1, DocsElements
            <6>2. v \in Values
              BY <5>1, <5>2, <6>1 DEF Keys
            <6> QED
              BY <2>2, <5>1, <5>2, <6>2 DEF IndexDocs
          <5> HIDE DEF y
          <5> QED
            BY <4>2, <5>2 DEF Complete
        <4> HIDE DEF y
        <4> QED
          BY <1>1, <1>4, <4>2, <4>3 DEF Ensures, Waiting
      <3> QED
        BY <3>1, <3>2
    <2>5. CASE o \in RebuildStops(all, seen, x)
      <3>1. PICK k \in DOMAIN all.docs : \E part \in Partial(all.docs[k].keys) :
              o = [ok |-> FALSE, seen |-> seen, hurt |-> FALSE, xf |-> x,
                   m |-> [all EXCEPT !.idx = IndexDocs(@, all.fields, UpTo(all, k, part))]]
        BY <2>5 DEF RebuildStops, UpTo
      <3>2. PICK part \in Partial(all.docs[k].keys) :
              o.m = [all EXCEPT !.idx = IndexDocs(@, all.fields, UpTo(all, k, part))]
        BY <3>1
      <3>3. /\ o.m.schema = m.schema /\ o.m.fields = m.fields /\ o.m.dirty = m.dirty
            /\ o.m.loaded = m.loaded /\ o.m.docs = f.docs
        BY <2>2, <3>2 DEF Memory
      <3>4. o.m.docs = SubSeq(f.docs, 1, Len(f.docs)) /\ Len(f.docs) \in 0..Len(f.docs)
        BY <1>1, <3>3, WholeSubSeq
      <3> QED
        BY <1>1, <3>3, <3>4 DEF Ensures, Waiting
    <2> QED
      BY <2>1, <2>4, <2>5
  <1> QED
    BY <1>2, <1>3, <1>4

\* The same for ensure_collection_loaded, against the open directory.
LEMMA CallEnsures ==
  ASSUME IInv, NEW c \in Collections, Waiting(coll[c], FileOf(c)),
         NEW o \in EnsureOutcomes(coll[c], dir, c)
  PROVE  /\ Ensures(coll[c], FileOf(c), o.m) /\ o.m \in Memory
         /\ FileOf(c) \in File
         /\ o.ok => o.m.loaded
  <1> DEFINE m == coll[c]
             f == FileOf(c)
  <1>1. m \in Memory /\ dir \in Dirs \cup {NoDir}
    BY DEF IInv, TypeOK, LifecycleTypeOK
  <1>2. f \in File
    BY <1>1 DEF IInv, TypeOK, FileOf, File
  <1>3. o.m \in Memory /\ (o.ok => o.m.loaded)
    BY <1>1, Ensured
  <1>4. Waiting(m, f)
    OBVIOUS
  <1>5. \/ o.m = [m EXCEPT !.loaded = TRUE] /\ (m.loaded \/ f = NoFile)
        \/ o.m = m /\ m.loaded
        \/ ~m.loaded /\ f # NoFile /\ o \in LoadOutcomes(m, f, idxFiles[dir][c])
    BY DEF EnsureOutcomes, FileOf
  <1>6. Ensures(m, f, o.m)
    <2> HIDE DEF m, f
    <2>1. CASE m.loaded
      <3>1. o.m = m
        BY <1>1, <1>5, <2>1 DEF Memory
      <3> QED
        BY <2>1, <3>1 DEF Ensures, Waiting
    <2>2. CASE ~m.loaded /\ f = NoFile
      <3>1. o.m = [m EXCEPT !.loaded = TRUE]
        BY <1>5, <2>2
      <3>2. Content(f) = <<>> /\ <<>> \in Seq(Doc)
        BY <2>2 DEF Content
      <3>3. PICK n \in 0..Len(<<>>) : m.docs = SubSeq(<<>>, 1, n)
        BY <1>4, <2>2, <3>2 DEF Waiting
      <3>4. m.docs = <<>>
        BY <3>2, <3>3, WholeSubSeq
      <3>5. /\ o.m.schema = m.schema /\ o.m.fields = m.fields /\ o.m.dirty = m.dirty
            /\ o.m.loaded = TRUE /\ o.m.docs = <<>>
        BY <1>1, <3>1, <3>4 DEF Memory
      <3> QED
        BY <2>2, <3>2, <3>5 DEF Ensures, Complete, Waiting
    <2>3. CASE ~m.loaded /\ f # NoFile
      BY <1>1, <1>2, <1>4, <1>5, <2>3, LoadEnsures
    <2> QED
      BY <2>1, <2>2, <2>3
  <1> QED
    BY <1>2, <1>3, <1>6

-----------------------------------------------------------------------------
(* Fit: what keeps a collection and its file together *)

LEMMA EnsuredFit ==
  ASSUME NEW m \in Memory, NEW w \in Memory, NEW f, NEW open \in BOOLEAN,
         Fit(m, f, open), m.dirty => m.loaded, Ensures(m, f, w), open \/ EarlyUse
  PROVE  Fit(w, f, open)
  <1>1. CASE m.loaded
    BY <1>1 DEF Ensures
  <1>2. CASE ~m.loaded
    <2>1. ~w.dirty /\ Waiting(w, f) /\ w.schema = m.schema
      BY <1>2 DEF Ensures
    <2>2. w.loaded => w.docs = Content(f) /\ (f # NoFile => f.schema = m.schema)
      BY <1>2 DEF Ensures
    <2> QED
      BY <2>1, <2>2 DEF Fit, SameSchema, Agrees
  <1> QED
    BY <1>1, <1>2

\* A loaded collection that changes and is dirty afterwards.
LEMMA ChangedFit ==
  ASSUME NEW u, NEW w, NEW f, NEW open,
         Fit(u, f, open), u.loaded, w.loaded, w.dirty, w.schema = u.schema
  PROVE  Fit(w, f, open)
  BY DEF Fit, Waiting, SameSchema, Agrees

\* A new collection.
LEMMA BlankFit ==
  ASSUME NEW s, NEW f \in File, NEW open
  PROVE  Fit(Blank(s), f, open)
  <1>1. /\ Blank(s).docs = <<>> /\ Blank(s).loaded = FALSE
    BY DEF Blank
  <1>2. SubSeq(Content(f), 1, 0) = <<>> /\ 0 \in 0..Len(Content(f))
    BY ContentType, WholeSubSeq
  <1> QED
    BY <1>1, <1>2 DEF Fit, Waiting, SameSchema, Agrees

\* What a save that ends in one of the ways of K leaves.
LEMMA SavedFit ==
  ASSUME NEW u \in Memory, NEW f \in File, NEW open, NEW K, NEW how \in SaveEnds(K),
         "torn" \in K => "torn" \in Faults, Fit(u, f, open), u.loaded,
         NEW w, w = IF SaveFails(u, how) THEN u ELSE [u EXCEPT !.dirty = FALSE]
  PROVE  Fit(w, DataSaved(u, how, f), open)
  <1> DEFINE g == DataSaved(u, how, f)
  <1>1. /\ w.loaded = u.loaded /\ w.schema = u.schema /\ w.docs = u.docs
    BY DEF Memory
  <1>2. Waiting(w, g)
    BY <1>1 DEF Waiting
  <1>3. ASSUME ~EarlyUse
        PROVE  SameSchema(w, g)
    <2>1. g = f \/ g.schema = u.schema
      BY DEF DataSaved
    <2> HIDE DEF g
    <2> QED
      BY <1>1, <1>3, <2>1 DEF SameSchema, Fit
  <1>4. ASSUME ~EarlyUse, "torn" \notin Faults
        PROVE  Agrees(w, g)
    <2>1. how.end \in {"ok", "noData", "noIndex"}
      BY <1>4 DEF SaveEnds
    <2>2. CASE how.end = "noData"
      <3>1. g = f /\ w = u
        BY <2>2 DEF DataSaved, SaveFails
      <3> QED
        BY <1>4, <3>1 DEF Fit
    <2>3. CASE how.end # "noData"
      <3>1. g = [schema |-> u.schema, whole |-> TRUE, docs |-> u.docs]
        BY <2>1, <2>3 DEF DataSaved
      <3>2. g # NoFile => Content(g) = u.docs
        BY <3>1 DEF Content
      <3>3. g = NoFile => FALSE
        <4>1. u.schema \in Signature /\ u.docs \in Seq(Doc)
          BY DEF Memory
        <4>2. g \in Contents
          BY <3>1, <4>1 DEF Contents
        <4> QED
          BY <4>2, NoFileAssumption
      <3> QED
        BY <1>1, <3>2, <3>3 DEF Agrees
    <2> QED
      BY <2>2, <2>3
  <1>5. ~EarlyUse /\ ~open => ~w.loaded
    BY <1>1 DEF Fit
  <1> QED
    BY <1>2, <1>3, <1>4, <1>5 DEF Fit

-----------------------------------------------------------------------------
(* The invariant of a client that stays with its files *)

Kept ==
  \A c \in Collections : /\ Fit(coll[c], FileOf(c), dir # NoDir)
                         /\ coll[c].loaded => c \in Registered

\* A call begins by making sure that the collection is loaded.
LEMMA CallFit ==
  ASSUME IInv, Kept, NEW c \in Collections, Usable(c),
         NEW o \in EnsureOutcomes(coll[c], dir, c)
  PROVE  /\ coll[c] \in Memory /\ o.m \in Memory /\ FileOf(c) \in File
         /\ Fit(coll[c], FileOf(c), dir # NoDir)
         /\ Ensures(coll[c], FileOf(c), o.m)
         /\ Fit(o.m, FileOf(c), dir # NoDir)
         /\ o.ok => o.m.loaded
         /\ c \in Registered
  <1>1. Fit(coll[c], FileOf(c), dir # NoDir) /\ (dir # NoDir \/ EarlyUse) /\ c \in Registered
    BY DEF Kept, Usable
  <1>2. Waiting(coll[c], FileOf(c))
    BY <1>1 DEF Fit
  <1>3. /\ Ensures(coll[c], FileOf(c), o.m) /\ o.m \in Memory /\ FileOf(c) \in File
        /\ o.ok => o.m.loaded
    BY <1>2, CallEnsures
  <1>4. coll[c] \in Memory /\ (coll[c].dirty => coll[c].loaded) /\ (dir # NoDir) \in BOOLEAN
    BY DEF IInv, TypeOK, Good
  <1>5. Fit(o.m, FileOf(c), dir # NoDir)
    BY <1>1, <1>3, <1>4, EnsuredFit
  <1> QED
    BY <1>1, <1>3, <1>4, <1>5

\* A step that changes collection c and no file.
LEMMA OneKept ==
  ASSUME IInv, Kept, NEW c \in Collections, NEW w, coll' = [coll EXCEPT ![c] = w],
         UNCHANGED <<dir, files>>, Fit(w, FileOf(c), dir # NoDir),
         Registered \subseteq Registered', w.loaded => c \in Registered'
  PROVE  Kept'
  <1>1. ASSUME NEW b \in Collections
        PROVE  (Fit(coll[b], FileOf(b), dir # NoDir))' /\ (coll'[b].loaded => b \in Registered')
    <2>1. (FileOf(b))' = FileOf(b) /\ dir' = dir
      BY DEF FileOf
    <2>2. CASE b = c
      <3>1. coll'[b] = w
        BY <2>2 DEF IInv, TypeOK
      <3> QED
        BY <2>1, <2>2, <3>1
    <2>3. CASE b # c
      <3>1. coll'[b] = coll[b]
        BY <2>3 DEF IInv, TypeOK
      <3> QED
        BY <2>1, <3>1 DEF Kept
    <2> QED
      BY <2>2, <2>3
  <1> QED
    BY <1>1 DEF Kept

\* The document calls.
LEMMA CallsKept ==
  ASSUME IInv, Kept, NEW c \in Collections,
         \/ Access(c)
         \/ \E keys \in Keys : Put(c, keys)
         \/ PutAborts(c)
         \/ \E part \in Keys : PutNotIndexed(c, part)
         \/ \E id \in 1..MaxId : Delete(c, id)
  PROVE  Kept'
  <1>1. Usable(c) /\ UNCHANGED <<dir, files, g_collections>>
    BY DEF Access, Put, PutAborts, PutNotIndexed, Delete
  <1>2. PICK o \in EnsureOutcomes(coll[c], dir, c) :
          \/ coll' = [coll EXCEPT ![c] = o.m]
          \/ /\ o.ok
             /\ \E docs, idx :
                  coll' = [coll EXCEPT ![c] = [o.m EXCEPT !.docs = docs, !.dirty = TRUE, !.idx = idx]]
    <2>1. CASE Access(c) \/ PutAborts(c)
      BY <2>1 DEF Access, PutAborts
    <2>2. CASE \E keys \in Keys : Put(c, keys)
      BY <2>2 DEF Put
    <2>3. CASE \E part \in Keys : PutNotIndexed(c, part)
      <3>1. PICK o \in EnsureOutcomes(coll[c], dir, c) :
              /\ o.ok
              /\ \E idx : coll' = [coll EXCEPT ![c] = [o.m EXCEPT !.dirty = TRUE, !.idx = idx]]
        BY <2>3 DEF PutNotIndexed
      <3>2. PICK idx : coll' = [coll EXCEPT ![c] = [o.m EXCEPT !.dirty = TRUE, !.idx = idx]]
        BY <3>1
      <3>3. [o.m EXCEPT !.dirty = TRUE, !.idx = idx]
              = [o.m EXCEPT !.docs = o.m.docs, !.dirty = TRUE, !.idx = idx]
        BY <1>1, CallFit DEF Memory
      <3> QED
        BY <3>1, <3>2, <3>3
    <2>4. CASE \E id \in 1..MaxId : Delete(c, id)
      <3>1. PICK id \in 1..MaxId : Delete(c, id)
        BY <2>4
      <3>2. PICK o \in EnsureOutcomes(coll[c], dir, c) : \E p \in DOMAIN o.m.docs :
              /\ o.ok
              /\ coll' = [coll EXCEPT ![c] =
                   [o.m EXCEPT !.docs = WithoutAt(@, p), !.dirty = TRUE, !.idx = Unindex(@, id)]]
        BY <3>1 DEF Delete
      <3>3. \E docs, idx :
              coll' = [coll EXCEPT ![c] = [o.m EXCEPT !.docs = docs, !.dirty = TRUE, !.idx = idx]]
        BY <3>2
      <3> QED
        BY <3>2, <3>3
    <2> QED
      BY <2>1, <2>2, <2>3, <2>4
  <1>3. /\ o.m \in Memory /\ Fit(o.m, FileOf(c), dir # NoDir) /\ (o.ok => o.m.loaded)
        /\ c \in Registered /\ Registered' = Registered
    BY <1>1, CallFit DEF Registered
  <1>4. CASE coll' = [coll EXCEPT ![c] = o.m]
    BY <1>1, <1>3, <1>4, OneKept
  <1>5. ASSUME o.ok, NEW docs, NEW idx,
               coll' = [coll EXCEPT ![c] = [o.m EXCEPT !.docs = docs, !.dirty = TRUE, !.idx = idx]]
        PROVE  Kept'
    <2> DEFINE w == [o.m EXCEPT !.docs = docs, !.dirty = TRUE, !.idx = idx]
    <2>1. w.loaded /\ w.dirty /\ w.schema = o.m.schema
      BY <1>3, <1>5 DEF Memory
    <2>2. coll' = [coll EXCEPT ![c] = w]
      BY <1>5
    <2> HIDE DEF w
    <2>3. Fit(w, FileOf(c), dir # NoDir)
      BY <1>3, <1>5, <2>1, ChangedFit
    <2> QED
      BY <1>1, <1>3, <2>2, <2>3, OneKept
  <1> QED
    BY <1>2, <1>4, <1>5

\* Registering, declaring an index, and the calls that change no collection.
LEMMA DeclaresKept ==
  ASSUME IInv, Kept, NEW c \in Collections,
         (\E s \in Schemas : Register(c, s)) \/ (\E f \in Fields : AddIndex(c, f))
  PROVE  Kept'
  <1>1. coll[c] \in Memory /\ FileOf(c) \in File
    BY DEF IInv, TypeOK, LifecycleTypeOK, FileOf, File
  <1>2. ASSUME NEW s \in Schemas, Register(c, s)
        PROVE  Kept'
    <2>1. /\ coll' = [coll EXCEPT ![c] = Blank(s)] /\ UNCHANGED <<dir, files>>
          /\ g_collections' = Append(g_collections, c) /\ g_collections \in Seq(Collections)
      BY <1>2 DEF Register, diskVars, IInv, TypeOK
    <2>2. Registered \subseteq Registered'
      <3>1. ASSUME NEW i \in DOMAIN g_collections
            PROVE  g_collections[i] \in Registered'
        <4>1. i \in DOMAIN g_collections' /\ g_collections'[i] = g_collections[i]
          BY <2>1, <3>1, AppendProperties, LenProperties
        <4> QED
          BY <4>1 DEF Registered
      <3> QED
        BY <3>1 DEF Registered
    <2>3. Fit(Blank(s), FileOf(c), dir # NoDir) /\ ~Blank(s).loaded
      BY <1>1, BlankFit DEF Blank
    <2> QED
      BY <2>1, <2>2, <2>3, OneKept
  <1>3. ASSUME NEW f \in Fields, AddIndex(c, f)
        PROVE  Kept'
    <2> DEFINE w == [coll[c] EXCEPT !.fields = @ \cup {f}]
    <2>1. /\ coll' = [coll EXCEPT ![c] = w] /\ UNCHANGED <<dir, files, g_collections>>
          /\ c \in Registered
      BY <1>3 DEF AddIndex, diskVars, IInv, TypeOK
    <2>2. /\ w.loaded = coll[c].loaded /\ w.docs = coll[c].docs /\ w.dirty = coll[c].dirty
          /\ w.schema = coll[c].schema
      BY <1>1 DEF Memory
    <2> HIDE DEF w
    <2>3. Fit(w, FileOf(c), dir # NoDir)
      BY <2>2 DEF Kept, Fit, Waiting, SameSchema, Agrees
    <2>4. Registered' = Registered
      BY <2>1 DEF Registered
    <2> QED
      BY <2>1, <2>3, <2>4, OneKept
  <1> QED
    BY <1>2, <1>3

LEMMA SaveCollectionKept ==
  ASSUME ~Transfers, IInv, Kept, NEW c \in Collections, NEW d \in Dirs,
         NEW how \in SaveEnds(Faults), SaveCollection(c, d, how)
  PROVE  Kept'
  <1>1. d = dir /\ dir # NoDir /\ dir' = dir /\ Usable(c) /\ Registered' = Registered
    BY NoDirAssumption DEF SaveCollection, MayTransfer, Registered
  <1>2. PICK o \in EnsureOutcomes(coll[c], dir, c) :
          /\ o.ok
          /\ coll' = [coll EXCEPT ![c] =
               IF SaveFails(o.m, how) THEN o.m ELSE [o.m EXCEPT !.dirty = FALSE]]
          /\ files' = [files EXCEPT ![d][c] = DataSaved(o.m, how, @)]
    BY DEF SaveCollection
  <1> DEFINE w == IF SaveFails(o.m, how) THEN o.m ELSE [o.m EXCEPT !.dirty = FALSE]
  <1>3. /\ o.m \in Memory /\ FileOf(c) \in File /\ Fit(o.m, FileOf(c), dir # NoDir) /\ o.m.loaded
        /\ c \in Registered
    BY <1>1, <1>2, CallFit
  <1>4. Fit(w, DataSaved(o.m, how, FileOf(c)), dir # NoDir)
    BY <1>3, SavedFit
  <1>5. coll' = [coll EXCEPT ![c] = w]
    BY <1>2
  <1> HIDE DEF w
  <1>6. ASSUME NEW b \in Collections
        PROVE  (Fit(coll[b], FileOf(b), dir # NoDir))' /\ (coll'[b].loaded => b \in Registered')
    <2>1. CASE b = c
      <3>1. coll'[b] = w /\ (FileOf(b))' = DataSaved(o.m, how, FileOf(c))
        BY <1>1, <1>2, <1>5, <2>1 DEF IInv, TypeOK, FileOf
      <3> QED
        BY <1>1, <1>3, <1>4, <2>1, <3>1
    <2>2. CASE b # c
      <3>1. coll'[b] = coll[b] /\ (FileOf(b))' = FileOf(b)
        BY <1>1, <1>2, <1>5, <2>2 DEF IInv, TypeOK, FileOf
      <3> QED
        BY <1>1, <3>1 DEF Kept
    <2> QED
      BY <2>1, <2>2
  <1> QED
    BY <1>6 DEF Kept

LEMMA SaveAllKept ==
  ASSUME ~Transfers, IInv, Kept, NEW d \in Dirs, NEW how \in CloseEnds, SaveAll(d, how)
  PROVE  Kept'
  <1>1. d = dir /\ dir # NoDir /\ dir' = dir /\ Registered' = Registered
    BY NoDirAssumption DEF SaveAll, MayTransfer, Registered
  <1>2. ASSUME NEW c \in Collections
        PROVE  (Fit(coll[c], FileOf(c), dir # NoDir))' /\ (coll'[c].loaded => c \in Registered')
    <2>1. /\ coll[c] \in Memory /\ FileOf(c) \in File /\ FileOf(c) = files[d][c]
          /\ how[c] \in SaveEnds(Faults) /\ (coll[c].dirty => coll[c].loaded)
          /\ Fit(coll[c], FileOf(c), dir # NoDir) /\ (coll[c].loaded => c \in Registered)
      BY <1>1 DEF IInv, TypeOK, FileOf, CloseEnds, Good, Kept
    <2>2. (FileOf(c))' = IF c \in Reached(how) THEN DataSaved(coll[c], how[c], FileOf(c)) ELSE FileOf(c)
      BY <1>1, <2>1 DEF SaveAll, SaveAllFiles, FileOf, IInv, TypeOK
    <2>3. CASE c \in Reached(how)
      <3> DEFINE w == IF SaveFails(coll[c], how[c]) THEN coll[c] ELSE [coll[c] EXCEPT !.dirty = FALSE]
      <3>1. coll'[c] = w
        BY <2>3 DEF SaveAll
      <3>2. coll[c].loaded
        BY <2>1, <2>3 DEF Reached
      <3>3. w.loaded = coll[c].loaded
        BY <2>1 DEF Memory
      <3>4. Fit(w, DataSaved(coll[c], how[c], FileOf(c)), dir # NoDir)
        BY <2>1, <3>2, SavedFit
      <3> HIDE DEF w
      <3> QED
        BY <1>1, <2>1, <2>2, <2>3, <3>1, <3>3, <3>4
    <2>4. CASE c \notin Reached(how)
      <3>1. coll'[c] = coll[c]
        BY <2>4 DEF SaveAll
      <3> QED
        BY <1>1, <2>1, <2>2, <2>4, <3>1
    <2> QED
      BY <2>3, <2>4
  <1> QED
    BY <1>2 DEF Kept

LEMMA LoadAllKept ==
  ASSUME ~Transfers, IInv, Kept, NEW d \in Dirs, LoadAll(d)
  PROVE  Kept'
  <1>1. d = dir /\ dir # NoDir /\ UNCHANGED <<dir, files>> /\ Registered' = Registered
    BY NoDirAssumption DEF LoadAll, MayTransfer, Registered
  <1>2. PICK stop \in 1..(Len(g_collections) + 1) :
          LET tried == {g_collections[i] : i \in DOMAIN g_collections \cap (1..stop)}
              outcomes == UNION {EnsureOutcomes(coll[c], d, c) : c \in tried}
          IN \E os \in [tried -> outcomes] :
               /\ \A c \in tried : os[c] \in EnsureOutcomes(coll[c], d, c)
               /\ coll' = [c \in Collections |-> IF c \in tried THEN os[c].m ELSE coll[c]]
    BY DEF LoadAll
  <1> DEFINE tried == {g_collections[i] : i \in DOMAIN g_collections \cap (1..stop)}
             outcomes == UNION {EnsureOutcomes(coll[c], d, c) : c \in tried}
  <1>3. PICK os \in [tried -> outcomes] :
          /\ \A c \in tried : os[c] \in EnsureOutcomes(coll[c], d, c)
          /\ coll' = [c \in Collections |-> IF c \in tried THEN os[c].m ELSE coll[c]]
    BY <1>2
  <1>4. tried \subseteq Registered
    BY DEF Registered
  <1> HIDE DEF tried, outcomes
  <1>5. ASSUME NEW c \in Collections
        PROVE  (Fit(coll[c], FileOf(c), dir # NoDir))' /\ (coll'[c].loaded => c \in Registered')
    <2>1. (FileOf(c))' = FileOf(c)
      BY <1>1 DEF FileOf
    <2>2. CASE c \in tried
      <3>1. Usable(c) /\ os[c] \in EnsureOutcomes(coll[c], dir, c)
        BY <1>1, <1>3, <1>4, <2>2 DEF Usable
      <3>2. Fit(os[c].m, FileOf(c), dir # NoDir) /\ c \in Registered
        BY <3>1, CallFit
      <3>3. coll'[c] = os[c].m
        BY <1>3, <2>2
      <3> QED
        BY <1>1, <2>1, <3>2, <3>3
    <2>3. CASE c \notin tried
      <3>1. coll'[c] = coll[c]
        BY <1>3, <2>3
      <3> QED
        BY <1>1, <2>1, <3>1 DEF Kept
    <2> QED
      BY <2>2, <2>3
  <1> QED
    BY <1>5 DEF Kept

\* No directory is set while the library is closed.
Shut == state = "CLOSED" => dir = NoDir

LEMMA LifecycleKept ==
  ASSUME IInv, IInv', Kept, Shut,
         \/ Initialize
         \/ \E d \in Dirs : Open(d)
         \/ OpenNoDirectory
         \/ OpenNoMemory
         \/ \E how \in CloseEnds : Close(how)
         \/ UnregisterAll
         \/ BeginWriteTxn
         \/ EndWriteTxn
         \/ \E how \in CrashEnds : Crash(how)
  PROVE  Kept' /\ Shut'
  <1>1. Shut'
    BY DEF Shut, Initialize, Open, OpenNoDirectory, OpenNoMemory, Close, UnregisterAll,
       BeginWriteTxn, EndWriteTxn, Crash, InitializeSucceeds, OpenSucceeds, OpenFailsIO,
       OpenFailsAlloc, TransitionToClosed, ProcessRestart
  <1>2. \A c \in Collections : (FileOf(c))' \in File
    BY DEF IInv, TypeOK, LifecycleTypeOK, FileOf, File
  <1>3. CASE Initialize \/ OpenNoDirectory \/ BeginWriteTxn \/ EndWriteTxn
    <2>1. UNCHANGED <<dir, coll, files, g_collections>>
      BY <1>3 DEF Initialize, OpenNoDirectory, BeginWriteTxn, EndWriteTxn, InitializeSucceeds,
         OpenFailsIO, memoryVars, diskVars
    <2> QED
      BY <1>1, <2>1 DEF Kept, FileOf, Registered
  <1>4. CASE UnregisterEverything
    <2>1. ASSUME NEW c \in Collections
          PROVE  (Fit(coll[c], FileOf(c), dir # NoDir))' /\ ~coll'[c].loaded
      <3>1. coll'[c] = Blank(NoSchema) /\ ~Blank(NoSchema).loaded
        BY <1>4 DEF UnregisterEverything, Blank
      <3> QED
        BY <1>2, <3>1, BlankFit
    <2> QED
      BY <1>1, <2>1 DEF Kept
  <1>5. ASSUME NEW d \in Dirs, Open(d)
        PROVE  Kept'
    <2>1. dir = NoDir /\ dir' = d /\ UNCHANGED <<coll, files, g_collections>>
      BY <1>5 DEF Open, OpenSucceeds, Shut, memoryVars, diskVars
    <2>2. ASSUME NEW c \in Collections
          PROVE  Fit(coll[c], (FileOf(c))', TRUE)
      <3>1. FileOf(c) = NoFile /\ Fit(coll[c], NoFile, FALSE) /\ coll[c] \in Memory
        BY <2>1 DEF Kept, FileOf, IInv, TypeOK
      <3>2. Waiting(coll[c], (FileOf(c))')
        <4> SUFFICES ASSUME ~coll[c].loaded
                     PROVE  \E n \in 0..Len(Content((FileOf(c))')) :
                              coll[c].docs = SubSeq(Content((FileOf(c))'), 1, n)
          BY DEF Waiting
        <4>1. PICK n \in 0..Len(<<>>) : coll[c].docs = SubSeq(<<>>, 1, n)
          BY <3>1 DEF Fit, Waiting, Content
        <4>2. <<>> \in Seq(Doc)
          OBVIOUS
        <4>3. coll[c].docs = <<>>
          BY <4>1, <4>2, WholeSubSeq
        <4>4. /\ 0 \in 0..Len(Content((FileOf(c))'))
              /\ SubSeq(Content((FileOf(c))'), 1, 0) = <<>>
          BY <1>2, ContentType, WholeSubSeq
        <4> QED
          BY <4>3, <4>4
      <3>3. ~EarlyUse => ~coll[c].loaded
        BY <3>1 DEF Fit
      <3> QED
        BY <3>2, <3>3 DEF Fit, SameSchema, Agrees
    <2>3. (dir # NoDir)' = TRUE /\ Registered' = Registered
      BY <2>1, NoDirAssumption DEF Registered
    <2> QED
      BY <2>1, <2>2, <2>3 DEF Kept
  <1>6. Kept'
    BY <1>3, <1>4, <1>5 DEF OpenNoMemory, Close, UnregisterAll, Crash
  <1> QED
    BY <1>1, <1>6

SInv == IInv /\ Kept /\ Shut

LEMMA InitSInv == Init => SInv
  <1> SUFFICES ASSUME Init PROVE SInv
    OBVIOUS
  <1>1. IInv
    BY InitIInv
  <1>2. ASSUME NEW c \in Collections
        PROVE  Fit(coll[c], FileOf(c), dir # NoDir) /\ ~coll[c].loaded
    <2>1. coll[c] = Blank(NoSchema) /\ FileOf(c) = NoFile /\ NoFile \in File
      BY DEF Init, LifecycleInit, FileOf, File
    <2>2. ~Blank(NoSchema).loaded
      BY DEF Blank
    <2> QED
      BY <2>1, <2>2, BlankFit
  <1>3. Shut
    BY DEF Init, LifecycleInit, Shut
  <1> QED
    BY <1>1, <1>2, <1>3 DEF SInv, Kept

LEMMA NextSInv ==
  ASSUME ~Transfers
  PROVE  SInv /\ [Next]_vars => SInv'
  <1> SUFFICES ASSUME SInv, [Next]_vars PROVE SInv'
    OBVIOUS
  <1>1. IInv /\ Kept /\ Shut
    BY DEF SInv
  <1>2. IInv'
    BY <1>1, NextIInv
  <1>3. ASSUME NEW c \in Collections, CollectionStep(c)
        PROVE  Kept' /\ Shut'
    <2>1. UNCHANGED <<state, dir>>
      BY <1>3 DEF CollectionStep, Register, AddIndex, Access, Put, PutAborts, PutNotIndexed, Delete,
         SaveCollection, LoadCollection
    <2>2. Shut'
      BY <1>1, <2>1 DEF Shut
    <2>3. Kept'
      <3>1. CASE \E d \in Dirs, how \in SaveEnds(Faults) : SaveCollection(c, d, how)
        BY <1>1, <3>1, SaveCollectionKept
      <3>2. CASE (\E s \in Schemas : Register(c, s)) \/ (\E f \in Fields : AddIndex(c, f))
        BY <1>1, <3>2, DeclaresKept
      <3>3. CASE \/ Access(c)
                 \/ \E keys \in Keys : Put(c, keys)
                 \/ PutAborts(c)
                 \/ \E part \in Keys : PutNotIndexed(c, part)
                 \/ \E id \in 1..MaxId : Delete(c, id)
        BY <1>1, <3>3, CallsKept
      <3>4. CASE \E d \in Dirs : LoadCollection(c, d)
        BY <3>4 DEF LoadCollection
      <3> QED
        BY <1>3, <3>1, <3>2, <3>3, <3>4 DEF CollectionStep
    <2> QED
      BY <2>2, <2>3
  <1>4. CASE DatabaseStep
    <2>1. CASE \E d \in Dirs, how \in CloseEnds : SaveAll(d, how)
      <3>1. Kept'
        BY <1>1, <2>1, SaveAllKept
      <3>2. Shut'
        BY <1>1, <2>1 DEF SaveAll, Shut
      <3> QED
        BY <1>2, <3>1, <3>2 DEF SInv
    <2>2. CASE \E d \in Dirs : LoadAll(d)
      <3>1. Kept'
        BY <1>1, <2>2, LoadAllKept
      <3>2. Shut'
        BY <1>1, <2>2 DEF LoadAll, Shut
      <3> QED
        BY <1>2, <3>1, <3>2 DEF SInv
    <2>3. CASE \/ Initialize
               \/ \E d \in Dirs : Open(d)
               \/ OpenNoDirectory
               \/ OpenNoMemory
               \/ \E how \in CloseEnds : Close(how)
               \/ UnregisterAll
               \/ BeginWriteTxn
               \/ EndWriteTxn
      BY <1>1, <1>2, <2>3, LifecycleKept DEF SInv
    <2> QED
      BY <1>4, <2>1, <2>2, <2>3 DEF DatabaseStep
  <1>5. CASE \E how \in CrashEnds : Crash(how)
    BY <1>1, <1>2, <1>5, LifecycleKept DEF SInv
  <1>6. CASE UNCHANGED vars
    BY <1>1, <1>2, <1>6 DEF vars, SInv, Kept, Shut, FileOf, Registered
  <1> QED
    BY <1>2, <1>3, <1>4, <1>5, <1>6 DEF Next, SInv

-----------------------------------------------------------------------------
(* What is written to the files *)

\* The ways a save can end, in a call or in a crash.
Ends == SaveEnds(Faults \cup {"noData", "noIndex"})

LEMMA EndsOfSteps ==
  /\ SaveEnds(Faults) \subseteq Ends
  /\ \A how \in CloseEnds \cup CrashEnds : \A c \in Collections : how[c] \in Ends
  <1>1. SaveEnds(Faults) \subseteq Ends /\ SaveEnds({"noData", "noIndex"}) \subseteq Ends
    BY DEF SaveEnds, Ends
  <1> QED
    BY <1>1 DEF CloseEnds, CrashEnds

\* A step that changes the file of c saves a loaded collection to it.
Written(d, c) ==
  \E m \in Memory, how \in Ends : /\ m.loaded /\ Distinct(m) /\ Fit(m, files[d][c], TRUE)
                                  /\ files'[d][c] = DataSaved(m, how, files[d][c])

LEMMA SaveCollectionWrites ==
  ASSUME ~Transfers, SInv, NEW b \in Collections, NEW e \in Dirs,
         NEW how \in SaveEnds(Faults), SaveCollection(b, e, how),
         NEW d \in Dirs, NEW c \in Collections
  PROVE  files'[d][c] = files[d][c] \/ Written(d, c)
  <1>1. /\ IInv /\ Kept /\ e = dir /\ dir # NoDir /\ dir \in Dirs \cup {NoDir} /\ Usable(b)
        /\ files \in [Dirs -> [Collections -> File]]
    BY NoDirAssumption DEF SInv, SaveCollection, MayTransfer, IInv, TypeOK
  <1>2. PICK o \in EnsureOutcomes(coll[b], dir, b) :
          /\ o.ok
          /\ counter' \in Raised(counter, o.seen)
          /\ files' = [files EXCEPT ![e][b] = DataSaved(o.m, how, @)]
    BY DEF SaveCollection
  <1>3. /\ o.m \in Memory /\ Fit(o.m, FileOf(b), dir # NoDir) /\ o.m.loaded
    BY <1>1, <1>2, CallFit
  <1>4. Distinct(o.m)
    <2>1. \A t \in Raised(counter, o.seen) : Good(o.m, t)
      BY <1>1, Ensured DEF IInv, TypeOK, LifecycleTypeOK
    <2> QED
      BY <1>2, <2>1 DEF Good
  <1>5. how \in Ends
    BY EndsOfSteps
  <1>6. CASE d = e /\ c = b
    <2>1. files'[d][c] = DataSaved(o.m, how, files[d][c]) /\ FileOf(b) = files[d][c]
      BY <1>1, <1>2, <1>6 DEF FileOf
    <2>2. (dir # NoDir) = TRUE
      BY <1>1
    <2> QED
      BY <1>3, <1>4, <1>5, <2>1, <2>2 DEF Written
  <1>7. CASE ~(d = e /\ c = b)
    BY <1>1, <1>2, <1>7
  <1> QED
    BY <1>6, <1>7

LEMMA SaveAllWrites ==
  ASSUME SInv, dir # NoDir, NEW how \in CloseEnds \cup CrashEnds, SaveAllFiles(dir, how),
         NEW d \in Dirs, NEW c \in Collections
  PROVE  files'[d][c] = files[d][c] \/ Written(d, c)
  <1>1. /\ coll[c] \in Memory /\ Good(coll[c], counter) /\ Fit(coll[c], FileOf(c), dir # NoDir)
        /\ how[c] \in Ends /\ files \in [Dirs -> [Collections -> File]]
    BY EndsOfSteps DEF SInv, IInv, TypeOK, Kept
  <1>2. CASE d = dir /\ c \in Reached(how)
    <2>1. files'[d][c] = DataSaved(coll[c], how[c], files[d][c]) /\ FileOf(c) = files[d][c]
      BY <1>1, <1>2 DEF SaveAllFiles, FileOf
    <2>2. coll[c].loaded /\ Distinct(coll[c])
      BY <1>1, <1>2 DEF Reached, Good
    <2>3. (dir # NoDir) = TRUE
      OBVIOUS
    <2> QED
      BY <1>1, <2>1, <2>2, <2>3 DEF Written
  <1>3. CASE ~(d = dir /\ c \in Reached(how))
    BY <1>1, <1>3 DEF SaveAllFiles
  <1> QED
    BY <1>2, <1>3

LEMMA FilesWritten ==
  ASSUME ~Transfers, SInv, [Next]_vars, NEW d \in Dirs, NEW c \in Collections
  PROVE  files'[d][c] = files[d][c] \/ Written(d, c)
  <1>1. ASSUME NEW b \in Collections, CollectionStep(b)
        PROVE  files'[d][c] = files[d][c] \/ Written(d, c)
    <2>1. CASE \E e \in Dirs, how \in SaveEnds(Faults) : SaveCollection(b, e, how)
      BY <2>1, SaveCollectionWrites
    <2>2. CASE ~ \E e \in Dirs, how \in SaveEnds(Faults) : SaveCollection(b, e, how)
      <3>1. files' = files
        BY <1>1, <2>2 DEF CollectionStep, Register, AddIndex, Access, Put, PutAborts, PutNotIndexed,
           Delete, LoadCollection, diskVars
      <3> QED
        BY <3>1
    <2> QED
      BY <2>1, <2>2
  <1>2. CASE DatabaseStep
    <2>1. ASSUME NEW e \in Dirs, NEW how \in CloseEnds, SaveAll(e, how)
          PROVE  files'[d][c] = files[d][c] \/ Written(d, c)
      <3>1. e = dir /\ dir # NoDir
        BY <2>1, NoDirAssumption DEF SaveAll, MayTransfer
      <3> QED
        BY <2>1, <3>1, SaveAllWrites DEF SaveAll
    <2>2. ASSUME NEW how \in CloseEnds, Close(how)
          PROVE  files'[d][c] = files[d][c] \/ Written(d, c)
      BY <2>2, SaveAllWrites DEF Close, diskVars
    <2>3. CASE \/ Initialize
               \/ \E e \in Dirs : Open(e)
               \/ OpenNoDirectory
               \/ OpenNoMemory
               \/ UnregisterAll
               \/ BeginWriteTxn
               \/ EndWriteTxn
               \/ \E e \in Dirs : LoadAll(e)
      <3>1. files' = files
        BY <2>3 DEF Initialize, Open, OpenNoDirectory, OpenNoMemory, UnregisterAll, BeginWriteTxn,
           EndWriteTxn, LoadAll, diskVars
      <3> QED
        BY <3>1
    <2> QED
      BY <1>2, <2>1, <2>2, <2>3 DEF DatabaseStep
  <1>3. ASSUME NEW how \in CrashEnds, Crash(how)
        PROVE  files'[d][c] = files[d][c] \/ Written(d, c)
    BY <1>3, SaveAllWrites DEF Crash, diskVars
  <1>4. CASE UNCHANGED vars
    BY <1>4 DEF vars
  <1> QED
    BY <1>1, <1>2, <1>3, <1>4 DEF Next

\* A save leaves the old file or one with the schema of the collection.
LEMMA SavedSchema ==
  ASSUME NEW m \in Memory, NEW how \in Ends, NEW f \in File, f # NoFile, f.schema = m.schema
  PROVE  DataSaved(m, how, f) # NoFile /\ DataSaved(m, how, f).schema = f.schema
  <1>1. CASE how.end = "noData"
    BY <1>1 DEF DataSaved
  <1>2. CASE how.end # "noData"
    <2>1. DataSaved(m, how, f).schema = m.schema
      BY <1>2 DEF DataSaved
    <2>2. DataSaved(m, how, f) \in Contents
      BY <1>2, SavedTypes DEF Ends
    <2> QED
      BY <2>1, <2>2, NoFileAssumption
  <1> QED
    BY <1>1, <1>2

\* What close writes when no write fails is what is in memory.
LEMMA SavedWhole ==
  ASSUME NEW m \in Memory, NEW f
  PROVE  Content(DataSaved(m, [end |-> "ok", kept |-> 0], f)) = m.docs
  <1> DEFINE g == [schema |-> m.schema, whole |-> TRUE, docs |-> m.docs]
  <1>1. DataSaved(m, [end |-> "ok", kept |-> 0], f) = g
    BY DEF DataSaved
  <1>2. g # NoFile
    <2>1. m.schema \in Signature /\ m.docs \in Seq(Doc)
      BY DEF Memory
    <2>2. g \in Contents
      BY <2>1 DEF Contents
    <2> QED
      BY <2>2, NoFileAssumption
  <1> QED
    BY <1>1, <1>2 DEF Content

-----------------------------------------------------------------------------
(* Indexes *)

\* Between m and what becomes of it, the index of f does not lose a document.
Follows(m, w, f) == w.loaded /\ (~m.loaded \/ Complete(m, f)) => Complete(w, f)

\* Indexing one more document, or taking out an id that none of the documents
\* has, leaves an index complete.
LEMMA PutComplete ==
  ASSUME NEW u \in Memory, NEW doc \in Doc, NEW f \in u.fields, Complete(u, f),
         NEW w, w.docs = Append(u.docs, doc), w.idx = IndexDocs(u.idx, u.fields, <<doc>>)
  PROVE  Complete(w, f)
  <1> SUFFICES ASSUME NEW i \in DOMAIN w.docs, NEW v \in w.docs[i].keys[f]
               PROVE  w.docs[i].id \in w.idx[f][v]
    BY DEF Complete
  <1>1. /\ u.docs \in Seq(Doc) /\ Len(u.docs) \in Nat /\ DOMAIN u.docs = 1..Len(u.docs)
        /\ f \in Fields /\ u.fields \in SUBSET Fields
    BY DocsElements DEF Memory
  <1>2. /\ DOMAIN w.docs = 1..(Len(u.docs) + 1) /\ w.docs \in Seq(Doc)
        /\ \A j \in 1..Len(u.docs) : w.docs[j] = u.docs[j]
        /\ w.docs[Len(u.docs) + 1] = doc
    BY <1>1, AppendProperties, LenProperties
  <1>3. v \in Values
    <2>1. w.docs[i].keys \in Keys
      BY <1>2, DocsElements
    <2> QED
      BY <1>1, <2>1 DEF Keys
  <1>4. w.idx[f][v] = u.idx[f][v] \cup {<<doc>>[j].id : j \in {k \in DOMAIN <<doc>> : v \in <<doc>>[k].keys[f]}}
    BY <1>1, <1>3 DEF IndexDocs
  <1>5. CASE i = Len(u.docs) + 1
    <2>1. 1 \in DOMAIN <<doc>> /\ <<doc>>[1] = doc
      OBVIOUS
    <2> QED
      BY <1>2, <1>4, <1>5, <2>1
  <1>6. CASE i # Len(u.docs) + 1
    <2>1. i \in DOMAIN u.docs /\ w.docs[i] = u.docs[i]
      BY <1>1, <1>2, <1>6
    <2> QED
      BY <1>4, <2>1 DEF Complete
  <1> QED
    BY <1>5, <1>6

LEMMA NotIndexedComplete ==
  ASSUME NEW u \in Memory, NEW id, NEW part, NEW f \in u.fields, Complete(u, f), id \notin Ids(u.docs),
         NEW w, w.docs = u.docs, w.idx = Unindex(IndexDocs(u.idx, u.fields, <<part>>), id)
  PROVE  Complete(w, f)
  <1> SUFFICES ASSUME NEW i \in DOMAIN u.docs, NEW v \in u.docs[i].keys[f]
               PROVE  u.docs[i].id \in w.idx[f][v]
    BY DEF Complete
  <1>1. f \in Fields /\ u.docs \in Seq(Doc)
    BY DEF Memory
  <1>2. v \in Values
    BY <1>1, DocsElements DEF Keys
  <1>3. u.docs[i].id \in u.idx[f][v] /\ u.docs[i].id # id
    BY DEF Complete, Ids
  <1>4. u.idx[f][v] \subseteq IndexDocs(u.idx, u.fields, <<part>>)[f][v]
    BY <1>1, <1>2 DEF IndexDocs
  <1> DEFINE J == IndexDocs(u.idx, u.fields, <<part>>)
  <1>5. w.idx[f][v] = J[f][v] \ {id}
    BY <1>1, <1>2 DEF Unindex
  <1> HIDE DEF J
  <1> QED
    BY <1>3, <1>4, <1>5 DEF J

LEMMA DeleteComplete ==
  ASSUME NEW u \in Memory, NEW p \in DOMAIN u.docs, Distinct(u), NEW f \in u.fields, Complete(u, f),
         NEW w, w.docs = WithoutAt(u.docs, p), w.idx = Unindex(u.idx, u.docs[p].id)
  PROVE  Complete(w, f)
  <1> SUFFICES ASSUME NEW i \in DOMAIN w.docs, NEW v \in w.docs[i].keys[f]
               PROVE  w.docs[i].id \in w.idx[f][v]
    BY DEF Complete
  <1>1. f \in Fields /\ u.docs \in Seq(Doc)
    BY DEF Memory
  <1>2. PICK j \in DOMAIN u.docs : j # p /\ w.docs[i] = u.docs[j]
    <2> DEFINE j == IF i < p THEN i ELSE i + 1
    <2>1. i \in 1..(Len(u.docs) - 1)
      BY <1>1, WithoutAtDocs
    <2> DEFINE D == WithoutAt(u.docs, p)
    <2>2. \A k \in 1..(Len(u.docs) - 1) :
            LET h == IF k < p THEN k ELSE k + 1
            IN  h \in DOMAIN u.docs /\ h # p /\ D[k] = u.docs[h]
      BY <1>1, WithoutAtDocs
    <2>3. w.docs = D
      OBVIOUS
    <2> HIDE DEF D
    <2>4. j \in DOMAIN u.docs /\ j # p /\ D[i] = u.docs[j]
      BY <2>1, <2>2
    <2> QED
      BY <2>3, <2>4
  <1>3. v \in Values
    BY <1>1, <1>2, DocsElements DEF Keys
  <1>4. u.docs[j].id # u.docs[p].id /\ u.docs[j].id \in u.idx[f][v]
    BY <1>2 DEF Distinct, Complete
  <1>5. w.idx[f][v] = u.idx[f][v] \ {u.docs[p].id}
    BY <1>1, <1>3 DEF Unindex
  <1> QED
    BY <1>2, <1>4, <1>5

\* A call on c: first what the load does to its indexes, then the call.
LEMMA CallFollows ==
  ASSUME SInv, NEW c \in Collections, Usable(c), NEW o \in EnsureOutcomes(coll[c], dir, c),
         NEW f \in coll[c].fields
  PROVE  /\ Follows(coll[c], o.m, f) /\ f \in o.m.fields
         /\ o.m.loaded /\ (~coll[c].loaded \/ Complete(coll[c], f)) => Complete(o.m, f)
  BY CallFit DEF SInv, Ensures, Follows

LEMMA DocumentCallsFollow ==
  ASSUME SInv, NEW c \in Collections,
         \/ Access(c)
         \/ \E keys \in Keys : Put(c, keys)
         \/ PutAborts(c)
         \/ \E part \in Keys : PutNotIndexed(c, part)
         \/ \E id \in 1..MaxId : Delete(c, id),
         NEW f \in coll[c].fields
  PROVE  Follows(coll[c], coll'[c], f)
  <1>1. /\ Usable(c) /\ IInv /\ coll \in [Collections -> Memory]
        /\ dir \in Dirs \cup {NoDir} /\ counter \in Nat
    BY DEF Access, Put, PutAborts, PutNotIndexed, Delete, SInv, IInv, TypeOK, LifecycleTypeOK
  <1>2. ASSUME NEW o \in EnsureOutcomes(coll[c], dir, c)
        PROVE  o.m \in Memory /\ f \in o.m.fields /\ Follows(coll[c], o.m, f) /\ (o.ok => o.m.loaded)
    BY <1>1, CallFollows, Ensured
  <1>3. CASE Access(c) \/ PutAborts(c)
    <2>1. PICK o \in EnsureOutcomes(coll[c], dir, c) : coll' = [coll EXCEPT ![c] = o.m]
      BY <1>3 DEF Access, PutAborts
    <2>2. coll'[c] = o.m
      BY <1>1, <2>1
    <2> QED
      BY <1>2, <2>2
  <1>4. ASSUME NEW keys \in Keys, Put(c, keys)
        PROVE  Follows(coll[c], coll'[c], f)
    <2>1. PICK o \in EnsureOutcomes(coll[c], dir, c), n \in 0..MaxId - 1 :
            LET doc == [id |-> n + 1, keys |-> keys] IN
            /\ o.ok
            /\ coll' = [coll EXCEPT ![c] =
                 [o.m EXCEPT !.docs = Append(@, doc), !.dirty = TRUE,
                             !.idx = IndexDocs(@, o.m.fields, <<doc>>)]]
      BY <1>4 DEF Put
    <2> DEFINE doc == [id |-> n + 1, keys |-> keys]
    <2>2. doc \in Doc
      BY StoreAssumption DEF Doc
    <2>3. /\ coll'[c].docs = Append(o.m.docs, doc)
          /\ coll'[c].idx = IndexDocs(o.m.idx, o.m.fields, <<doc>>)
      BY <1>1, <1>2, <2>1 DEF Memory
    <2> HIDE DEF doc
    <2>4. Complete(o.m, f) => Complete(coll'[c], f)
      BY <1>2, <2>2, <2>3, PutComplete
    <2> QED
      BY <1>2, <2>1, <2>4 DEF Follows
  <1>5. ASSUME NEW part \in Keys, PutNotIndexed(c, part)
        PROVE  Follows(coll[c], coll'[c], f)
    <2>1. PICK o \in EnsureOutcomes(coll[c], dir, c), n \in 0..MaxId - 1 :
            /\ o.ok
            /\ n + 1 \notin Ids(o.m.docs)
            /\ coll' = [coll EXCEPT ![c] =
                 [o.m EXCEPT !.dirty = TRUE,
                             !.idx = Unindex(IndexDocs(@, o.m.fields, <<[id |-> n + 1, keys |-> part]>>),
                                             n + 1)]]
      BY <1>5 DEF PutNotIndexed
    <2> DEFINE doc == [id |-> n + 1, keys |-> part]
    <2>2. /\ coll'[c].docs = o.m.docs
          /\ coll'[c].idx = Unindex(IndexDocs(o.m.idx, o.m.fields, <<doc>>), n + 1)
      BY <1>1, <1>2, <2>1 DEF Memory
    <2> HIDE DEF doc
    <2>3. Complete(o.m, f) => Complete(coll'[c], f)
      BY <1>2, <2>1, <2>2, NotIndexedComplete
    <2> QED
      BY <1>2, <2>1, <2>3 DEF Follows
  <1>6. ASSUME NEW id \in 1..MaxId, Delete(c, id)
        PROVE  Follows(coll[c], coll'[c], f)
    <2>1. PICK o \in EnsureOutcomes(coll[c], dir, c) : \E p \in DOMAIN o.m.docs :
            /\ o.ok
            /\ o.m.docs[p].id = id
            /\ coll' = [coll EXCEPT ![c] =
                 [o.m EXCEPT !.docs = WithoutAt(@, p), !.dirty = TRUE, !.idx = Unindex(@, id)]]
            /\ counter' \in Raised(counter, o.seen)
      BY <1>6 DEF Delete
    <2>2. PICK p \in DOMAIN o.m.docs :
            /\ o.ok
            /\ o.m.docs[p].id = id
            /\ coll' = [coll EXCEPT ![c] =
                 [o.m EXCEPT !.docs = WithoutAt(@, p), !.dirty = TRUE, !.idx = Unindex(@, id)]]
      BY <2>1
    <2>3. Distinct(o.m)
      BY <1>1, <2>1, Ensured DEF Good
    <2>4. /\ coll'[c].docs = WithoutAt(o.m.docs, p)
          /\ coll'[c].idx = Unindex(o.m.idx, o.m.docs[p].id)
      BY <1>1, <1>2, <2>2 DEF Memory
    <2>5. Complete(o.m, f) => Complete(coll'[c], f)
      BY <1>2, <2>3, <2>4, DeleteComplete
    <2> QED
      BY <1>2, <2>2, <2>5 DEF Follows
  <1> QED
    BY <1>3, <1>4, <1>5, <1>6

LEMMA CollectionStepFollows ==
  ASSUME ~Transfers, SInv, NEW b \in Collections, CollectionStep(b),
         NEW c \in Collections, NEW f \in coll[c].fields
  PROVE  Follows(coll[c], coll'[c], f)
  <1>1. coll \in [Collections -> Memory] /\ IInv
    BY DEF SInv, IInv, TypeOK
  <1>2. CASE b # c
    <2>1. \E w : coll' = [coll EXCEPT ![b] = w]
      <3>1. CASE \E d \in Dirs, how \in SaveEnds(Faults) : SaveCollection(b, d, how)
        BY <3>1 DEF SaveCollection
      <3>2. CASE \E id \in 1..MaxId : Delete(b, id)
        BY <3>2 DEF Delete
      <3>3. CASE (\E s \in Schemas : Register(b, s)) \/ (\E g \in Fields : AddIndex(b, g))
        <4>1. CASE \E s \in Schemas : Register(b, s)
          BY <4>1 DEF Register
        <4>2. ASSUME NEW g \in Fields, AddIndex(b, g)
              PROVE  \E w : coll' = [coll EXCEPT ![b] = w]
          <5>1. coll' = [coll EXCEPT ![b] = [coll[b] EXCEPT !.fields = @ \cup {g}]]
            BY <1>1, <4>2 DEF AddIndex
          <5> QED
            BY <5>1
        <4> QED
          BY <3>3, <4>1, <4>2
      <3>4. CASE \E keys \in Keys : Put(b, keys)
        BY <3>4 DEF Put
      <3>5. CASE Access(b) \/ PutAborts(b)
        BY <3>5 DEF Access, PutAborts
      <3>6. CASE \E part \in Keys : PutNotIndexed(b, part)
        BY <3>6 DEF PutNotIndexed
      <3>7. CASE \E d \in Dirs : LoadCollection(b, d)
        BY <3>7 DEF LoadCollection
      <3> QED
        BY <3>1, <3>2, <3>3, <3>4, <3>5, <3>6, <3>7 DEF CollectionStep
    <2>2. coll'[c] = coll[c]
      BY <1>1, <1>2, <2>1
    <2> QED
      BY <2>2 DEF Follows
  <1>3. CASE b = c
    <2>1. ASSUME NEW s \in Schemas, Register(c, s)
          PROVE  Follows(coll[c], coll'[c], f)
      <3>1. ~coll'[c].loaded
        BY <1>1, <2>1 DEF Register, Blank
      <3> QED
        BY <3>1 DEF Follows
    <2>2. ASSUME NEW g \in Fields, AddIndex(c, g)
          PROVE  Follows(coll[c], coll'[c], f)
      <3>1. /\ coll'[c].docs = coll[c].docs /\ coll'[c].idx = coll[c].idx
            /\ coll'[c].loaded = coll[c].loaded /\ c \in Registered
        BY <1>1, <2>2 DEF AddIndex, Memory
      <3>2. CASE coll[c].loaded
        BY <3>1, <3>2 DEF Follows, Complete
      <3>3. CASE ~coll[c].loaded
        BY <3>1, <3>3 DEF Follows
      <3> QED
        BY <3>2, <3>3
    <2>3. ASSUME NEW d \in Dirs, NEW how \in SaveEnds(Faults), SaveCollection(c, d, how)
          PROVE  Follows(coll[c], coll'[c], f)
      <3>1. PICK o \in EnsureOutcomes(coll[c], dir, c) :
              coll' = [coll EXCEPT ![c] =
                IF SaveFails(o.m, how) THEN o.m ELSE [o.m EXCEPT !.dirty = FALSE]]
        BY <2>3 DEF SaveCollection
      <3>2. Follows(coll[c], o.m, f) /\ o.m \in Memory
        BY <1>1, <2>3, CallFollows, Ensured DEF SaveCollection, IInv, TypeOK, LifecycleTypeOK
      <3>3. /\ coll'[c].docs = o.m.docs /\ coll'[c].idx = o.m.idx /\ coll'[c].loaded = o.m.loaded
        BY <1>1, <3>1, <3>2 DEF Memory
      <3> QED
        BY <3>2, <3>3 DEF Follows, Complete
    <2>4. ~ \E d \in Dirs : LoadCollection(c, d)
      BY DEF LoadCollection
    <2>5. CASE \/ Access(c)
               \/ \E keys \in Keys : Put(c, keys)
               \/ PutAborts(c)
               \/ \E part \in Keys : PutNotIndexed(c, part)
               \/ \E id \in 1..MaxId : Delete(c, id)
      BY <2>5, DocumentCallsFollow
    <2> QED
      BY <1>3, <2>1, <2>2, <2>3, <2>4, <2>5 DEF CollectionStep
  <1> QED
    BY <1>2, <1>3

LEMMA StepFollows ==
  ASSUME ~Transfers, SInv, [Next]_vars, NEW c \in Collections, NEW f \in coll[c].fields
  PROVE  Follows(coll[c], coll'[c], f)
  <1>1. coll \in [Collections -> Memory] /\ IInv /\ Kept
    BY DEF SInv, IInv, TypeOK
  <1>2. CASE coll' = coll
    BY <1>2 DEF Follows
  <1>3. CASE UnregisterEverything
    <2>1. ~coll'[c].loaded
      BY <1>3 DEF UnregisterEverything, Blank
    <2> QED
      BY <2>1 DEF Follows
  <1>4. ASSUME NEW d \in Dirs, NEW how \in CloseEnds, SaveAll(d, how)
        PROVE  Follows(coll[c], coll'[c], f)
    <2>1. coll'[c] \in {coll[c], [coll[c] EXCEPT !.dirty = FALSE]}
      BY <1>4 DEF SaveAll
    <2>2. /\ coll'[c].docs = coll[c].docs /\ coll'[c].idx = coll[c].idx
          /\ coll'[c].loaded = coll[c].loaded
      BY <1>1, <2>1 DEF Memory
    <2>3. CASE coll[c].loaded
      BY <2>2, <2>3 DEF Follows, Complete
    <2>4. CASE ~coll[c].loaded
      BY <2>2, <2>4 DEF Follows
    <2> QED
      BY <2>3, <2>4
  <1>5. ASSUME NEW d \in Dirs, LoadAll(d)
        PROVE  Follows(coll[c], coll'[c], f)
    <2>1. coll'[c] = coll[c] \/ (Usable(c) /\ \E o \in EnsureOutcomes(coll[c], dir, c) : coll'[c] = o.m)
      <3>1. d = dir /\ dir # NoDir
        BY <1>5, NoDirAssumption DEF LoadAll, MayTransfer
      <3>2. PICK stop \in 1..(Len(g_collections) + 1) :
              LET tried == {g_collections[i] : i \in DOMAIN g_collections \cap (1..stop)}
                  outcomes == UNION {EnsureOutcomes(coll[e], d, e) : e \in tried}
              IN \E os \in [tried -> outcomes] :
                   /\ \A e \in tried : os[e] \in EnsureOutcomes(coll[e], d, e)
                   /\ coll' = [e \in Collections |-> IF e \in tried THEN os[e].m ELSE coll[e]]
        BY <1>5 DEF LoadAll
      <3> DEFINE tried == {g_collections[i] : i \in DOMAIN g_collections \cap (1..stop)}
                 outcomes == UNION {EnsureOutcomes(coll[e], d, e) : e \in tried}
      <3>3. PICK os \in [tried -> outcomes] :
              /\ \A e \in tried : os[e] \in EnsureOutcomes(coll[e], d, e)
              /\ coll' = [e \in Collections |-> IF e \in tried THEN os[e].m ELSE coll[e]]
        BY <3>2
      <3>4. tried \subseteq Registered
        BY DEF Registered
      <3> HIDE DEF tried, outcomes
      <3> QED
        BY <3>1, <3>3, <3>4 DEF Usable
    <2>2. CASE coll'[c] = coll[c]
      BY <2>2 DEF Follows
    <2>3. CASE coll'[c] # coll[c]
      <3>1. PICK o \in EnsureOutcomes(coll[c], dir, c) : Usable(c) /\ coll'[c] = o.m
        BY <2>1, <2>3
      <3>2. Follows(coll[c], o.m, f)
        BY <3>1, CallFollows
      <3> QED
        BY <3>1, <3>2
    <2> QED
      BY <2>2, <2>3
  <1>6. CASE DatabaseStep
    <2>1. \/ coll' = coll \/ UnregisterEverything
          \/ \E d \in Dirs, how \in CloseEnds : SaveAll(d, how)
          \/ \E d \in Dirs : LoadAll(d)
      BY <1>6 DEF DatabaseStep, Initialize, Open, OpenNoDirectory, OpenNoMemory, Close, UnregisterAll,
         BeginWriteTxn, EndWriteTxn, memoryVars
    <2> QED
      BY <1>2, <1>3, <1>4, <1>5, <2>1
  <1>7. CASE \E b \in Collections : CollectionStep(b)
    BY <1>7, CollectionStepFollows
  <1>8. CASE \E how \in CrashEnds : Crash(how)
    BY <1>3, <1>8 DEF Crash
  <1>9. CASE UNCHANGED vars
    BY <1>2, <1>9 DEF vars
  <1> QED
    BY <1>6, <1>7, <1>8, <1>9 DEF Next

-----------------------------------------------------------------------------
(* Double frees *)

\* Nothing fails but the writes of a save.
Calm == ~Transfers /\ Faults \subseteq {"noData", "noIndex"}

\* A file that a load can read to its end.
Whole(f) ==
  f # NoFile => /\ f.whole
                /\ \A i, j \in DOMAIN f.docs : f.docs[i].id = f.docs[j].id => i = j

Sane ==
  /\ heap = "sound"
  /\ \A d \in Dirs : \A c \in Collections : Whole(files[d][c])
  /\ \A c \in Collections : ~coll[c].loaded => coll[c].docs = <<>>

LEMMA CalmLoad ==
  ASSUME Calm, NEW m \in Memory, m.docs = <<>>, NEW f \in File, f # NoFile, Whole(f), NEW x,
         NEW o \in LoadOutcomes(m, f, x)
  PROVE  ~o.hurt /\ (~o.m.loaded => o.m.docs = <<>>)
  <1>1. /\ f.docs \in Seq(Doc) /\ Len(f.docs) \in Nat /\ DOMAIN f.docs = 1..Len(f.docs)
        /\ Ids(m.docs) = {} /\ "read" \notin Faults /\ "key" \notin Faults
    <2>1. f.docs \in Seq(Doc)
      BY DEF File, Contents
    <2> QED
      BY <2>1, DocsElements DEF Ids, Calm
  <1>2. \A n \in 0..Len(f.docs) : NoClash(m, f, n)
    <2> SUFFICES ASSUME NEW n \in 0..Len(f.docs), NEW i \in 1..n
                 PROVE  \A j \in 1..(i - 1) : f.docs[j].id # f.docs[i].id
      BY <1>1 DEF NoClash
    <2>1. i \in DOMAIN f.docs /\ \A j \in 1..(i - 1) : j \in DOMAIN f.docs /\ j # i
      BY <1>1
    <2> QED
      BY <2>1 DEF Whole
  <1>3. LoadStops(m, f, x) = {}
    <2> SUFFICES ASSUME NEW n \in 0..Len(f.docs), NEW h \in BOOLEAN, StopsAt(m, f, n, h)
                 PROVE  FALSE
      BY DEF LoadStops
    <2>1. CASE h = TRUE
      <3>1. n < Len(f.docs) /\ ~NoClash(m, f, n + 1)
        BY <1>1, <2>1 DEF StopsAt
      <3>2. n + 1 \in 0..Len(f.docs)
        BY <1>1, <3>1
      <3> QED
        BY <1>2, <3>1, <3>2
    <2>2. CASE h = FALSE
      BY <1>1, <2>2 DEF StopsAt, Whole
    <2> QED
      BY <2>1, <2>2
  <1>4. CASE f.schema # m.schema
    <2>1. o.m = m /\ o.hurt = FALSE
      BY <1>4 DEF LoadOutcomes
    <2> QED
      BY <2>1
  <1>5. CASE f.schema = m.schema
    <2> DEFINE all == WithDocs(m, f, Len(f.docs))
               seen == Ids(f.docs)
    <2>1. o \in LoadCompletes(all, seen, x)
      BY <1>1, <1>3, <1>5 DEF LoadOutcomes, RebuildStops
    <2>2. all \in Memory
      BY <1>1, WithDocsType
    <2> HIDE DEF all, seen
    <2>3. ~IndexFileAccepted(x, all)
      BY HeaderRejected
    <2>4. (o.m = Loaded(all) \/ o.m = Loaded(IndexRebuilt(all))) /\ o.hurt = FALSE
      BY <2>1, <2>3 DEF LoadCompletes
    <2>5. o.m.loaded = TRUE
      BY <2>2, <2>4 DEF Loaded, IndexRebuilt, Memory
    <2> QED
      BY <2>4, <2>5
  <1> QED
    BY <1>4, <1>5

LEMMA CalmCall ==
  ASSUME Calm, IInv, Sane, NEW c \in Collections, NEW o \in EnsureOutcomes(coll[c], dir, c)
  PROVE  ~o.hurt /\ (~o.m.loaded => o.m.docs = <<>>)
  <1>1. coll[c] \in Memory /\ dir \in Dirs \cup {NoDir} /\ (~coll[c].loaded => coll[c].docs = <<>>)
    BY DEF IInv, TypeOK, LifecycleTypeOK, Sane
  <1>2. \/ o.hurt = FALSE /\ o.m = [coll[c] EXCEPT !.loaded = TRUE]
        \/ o.hurt = FALSE /\ o.m = coll[c] /\ coll[c].loaded
        \/ /\ dir # NoDir /\ ~coll[c].loaded /\ files[dir][c] # NoFile
           /\ o \in LoadOutcomes(coll[c], files[dir][c], idxFiles[dir][c])
    BY DEF EnsureOutcomes
  <1>3. CASE o.hurt = FALSE /\ o.m = [coll[c] EXCEPT !.loaded = TRUE]
    BY <1>1, <1>3 DEF Memory
  <1>4. CASE o.hurt = FALSE /\ o.m = coll[c] /\ coll[c].loaded
    BY <1>4
  <1>5. CASE /\ dir # NoDir /\ ~coll[c].loaded /\ files[dir][c] # NoFile
             /\ o \in LoadOutcomes(coll[c], files[dir][c], idxFiles[dir][c])
    <2>1. files[dir][c] \in File /\ Whole(files[dir][c])
      BY <1>1, <1>5 DEF IInv, TypeOK, Sane
    <2> QED
      BY <1>1, <1>5, <2>1, CalmLoad
  <1> QED
    BY <1>2, <1>3, <1>4, <1>5

\* What one call on a collection makes of it and of the heap.
LEMMA CallShape ==
  ASSUME ~Transfers, IInv, NEW c \in Collections, CollectionStep(c)
  PROVE  /\ \A b \in Collections : b # c => coll'[b] = coll[b]
         /\ \/ heap' = heap /\ ((coll'[c].loaded <=> coll[c].loaded) /\ coll'[c].docs = coll[c].docs)
            \/ heap' = heap /\ ~coll'[c].loaded /\ coll'[c].docs = <<>>
            \/ \E o \in EnsureOutcomes(coll[c], dir, c) :
                 /\ heap' = heap \/ heap' = IF o.hurt THEN "damaged" ELSE heap
                 /\ coll'[c] = o.m \/ coll'[c].loaded
  <1>1. coll \in [Collections -> Memory] /\ dir \in Dirs \cup {NoDir}
    BY DEF IInv, TypeOK, LifecycleTypeOK
  <1>2. ASSUME NEW o \in EnsureOutcomes(coll[c], dir, c)
        PROVE  o.m \in Memory /\ (o.ok => o.m.loaded)
    BY <1>1, Ensured
  <1>3. ASSUME NEW s \in Schemas, Register(c, s)
        PROVE  /\ \A b \in Collections : b # c => coll'[b] = coll[b]
               /\ heap' = heap /\ ~coll'[c].loaded /\ coll'[c].docs = <<>>
    BY <1>1, <1>3 DEF Register, Blank
  <1>4. ASSUME NEW f \in Fields, AddIndex(c, f)
        PROVE  /\ \A b \in Collections : b # c => coll'[b] = coll[b]
               /\ heap' = heap /\ coll'[c].loaded = coll[c].loaded /\ coll'[c].docs = coll[c].docs
    BY <1>1, <1>4 DEF AddIndex, Memory
  <1>5. ASSUME NEW o \in EnsureOutcomes(coll[c], dir, c), NEW w, coll' = [coll EXCEPT ![c] = w],
               w = o.m \/ w.loaded, heap' = heap \/ After(o, dir, c)
        PROVE  /\ \A b \in Collections : b # c => coll'[b] = coll[b]
               /\ heap' = heap \/ heap' = IF o.hurt THEN "damaged" ELSE heap
               /\ coll'[c] = o.m \/ coll'[c].loaded
    <2>1. coll'[c] = w /\ \A b \in Collections : b # c => coll'[b] = coll[b]
      BY <1>1, <1>5
    <2> QED
      BY <1>5, <2>1 DEF After
  <1>6. CASE \/ Access(c) \/ PutAborts(c)
             \/ \E keys \in Keys : Put(c, keys)
             \/ \E part \in Keys : PutNotIndexed(c, part)
             \/ \E id \in 1..MaxId : Delete(c, id)
             \/ \E d \in Dirs, how \in SaveEnds(Faults) : SaveCollection(c, d, how)
    <2>1. CASE Access(c) \/ PutAborts(c)
      BY <1>5, <2>1 DEF Access, PutAborts
    <2>2. ASSUME NEW keys \in Keys, Put(c, keys)
          PROVE  \E o \in EnsureOutcomes(coll[c], dir, c) : \E w :
                   coll' = [coll EXCEPT ![c] = w] /\ w.loaded /\ After(o, dir, c)
      <3>1. PICK o \in EnsureOutcomes(coll[c], dir, c), n \in 0..MaxId - 1 :
              LET doc == [id |-> n + 1, keys |-> keys] IN
              /\ o.ok
              /\ After(o, dir, c)
              /\ coll' = [coll EXCEPT ![c] =
                   [o.m EXCEPT !.docs = Append(@, doc), !.dirty = TRUE,
                               !.idx = IndexDocs(@, o.m.fields, <<doc>>)]]
        BY <2>2 DEF Put
      <3> DEFINE doc == [id |-> n + 1, keys |-> keys]
                 w == [o.m EXCEPT !.docs = Append(@, doc), !.dirty = TRUE,
                                  !.idx = IndexDocs(@, o.m.fields, <<doc>>)]
      <3>2. w.loaded
        BY <1>2, <3>1 DEF Memory
      <3>3. coll' = [coll EXCEPT ![c] = w]
        BY <3>1
      <3> QED
        BY <3>1, <3>2, <3>3
    <2>3. ASSUME NEW part \in Keys, PutNotIndexed(c, part)
          PROVE  \E o \in EnsureOutcomes(coll[c], dir, c) : \E w :
                   coll' = [coll EXCEPT ![c] = w] /\ w.loaded /\ After(o, dir, c)
      <3>1. PICK o \in EnsureOutcomes(coll[c], dir, c), n \in 0..MaxId - 1 :
              /\ o.ok
              /\ After(o, dir, c)
              /\ coll' = [coll EXCEPT ![c] =
                   [o.m EXCEPT !.dirty = TRUE,
                               !.idx = Unindex(IndexDocs(@, o.m.fields, <<[id |-> n + 1, keys |-> part]>>),
                                               n + 1)]]
        BY <2>3 DEF PutNotIndexed
      <3> DEFINE w == [o.m EXCEPT !.dirty = TRUE,
                         !.idx = Unindex(IndexDocs(@, o.m.fields, <<[id |-> n + 1, keys |-> part]>>),
                                         n + 1)]
      <3>2. w.loaded
        BY <1>2, <3>1 DEF Memory
      <3>3. coll' = [coll EXCEPT ![c] = w]
        BY <3>1
      <3> QED
        BY <3>1, <3>2, <3>3
    <2>4. ASSUME NEW id \in 1..MaxId, Delete(c, id)
          PROVE  \E o \in EnsureOutcomes(coll[c], dir, c) : \E w :
                   coll' = [coll EXCEPT ![c] = w] /\ w.loaded /\ After(o, dir, c)
      <3>1. PICK o \in EnsureOutcomes(coll[c], dir, c) : \E p \in DOMAIN o.m.docs :
              /\ o.ok
              /\ After(o, dir, c)
              /\ coll' = [coll EXCEPT ![c] =
                   [o.m EXCEPT !.docs = WithoutAt(@, p), !.dirty = TRUE, !.idx = Unindex(@, id)]]
        BY <2>4 DEF Delete
      <3>2. PICK p \in DOMAIN o.m.docs : coll' = [coll EXCEPT ![c] =
                   [o.m EXCEPT !.docs = WithoutAt(@, p), !.dirty = TRUE, !.idx = Unindex(@, id)]]
        BY <3>1
      <3>3. [o.m EXCEPT !.docs = WithoutAt(@, p), !.dirty = TRUE, !.idx = Unindex(@, id)].loaded
        BY <1>2, <3>1 DEF Memory
      <3> QED
        BY <3>1, <3>2, <3>3
    <2>5. ASSUME NEW d \in Dirs, NEW how \in SaveEnds(Faults), SaveCollection(c, d, how)
          PROVE  \E o \in EnsureOutcomes(coll[c], dir, c) : \E w :
                   coll' = [coll EXCEPT ![c] = w] /\ w.loaded /\ heap' = heap
      <3>1. PICK o \in EnsureOutcomes(coll[c], dir, c) :
              /\ o.ok
              /\ heap' = heap
              /\ coll' = [coll EXCEPT ![c] =
                   IF SaveFails(o.m, how) THEN o.m ELSE [o.m EXCEPT !.dirty = FALSE]]
        BY <2>5 DEF SaveCollection
      <3>2. o.m.loaded /\ [o.m EXCEPT !.dirty = FALSE].loaded
        BY <1>2, <3>1 DEF Memory
      <3> QED
        BY <3>1, <3>2
    <2> QED
      BY <1>5, <1>6, <2>1, <2>2, <2>3, <2>4, <2>5
  <1>7. CASE \E d \in Dirs : LoadCollection(c, d)
    BY <1>7 DEF LoadCollection
  <1>8. CASE \E f \in Fields : AddIndex(c, f)
    BY <1>4, <1>8
  <1>9. CASE \E s \in Schemas : Register(c, s)
    BY <1>3, <1>9
  <1> QED
    BY <1>6, <1>7, <1>8, <1>9 DEF CollectionStep

LEMMA NextSane ==
  ASSUME Calm
  PROVE  SInv /\ Sane /\ [Next]_vars => Sane'
  <1> SUFFICES ASSUME SInv, Sane, [Next]_vars PROVE Sane'
    OBVIOUS
  <1>1. /\ ~Transfers /\ IInv /\ coll \in [Collections -> Memory]
        /\ files \in [Dirs -> [Collections -> File]]
    BY DEF Calm, SInv, IInv, TypeOK
  <1>2. ASSUME NEW d \in Dirs, NEW c \in Collections
        PROVE  Whole(files'[d][c])
    <2>1. CASE files'[d][c] = files[d][c]
      BY <2>1 DEF Sane
    <2>2. CASE Written(d, c)
      <3>1. PICK m \in Memory, how \in Ends :
              Distinct(m) /\ files'[d][c] = DataSaved(m, how, files[d][c])
        BY <2>2 DEF Written
      <3>2. how.end \in {"ok", "noData", "noIndex"}
        BY DEF Ends, SaveEnds, Calm
      <3>3. CASE how.end = "noData"
        BY <3>1, <3>3 DEF DataSaved, Sane
      <3>4. CASE how.end # "noData"
        <4>1. files'[d][c] = [schema |-> m.schema, whole |-> TRUE, docs |-> m.docs]
          BY <3>1, <3>2, <3>4 DEF DataSaved
        <4> QED
          BY <3>1, <4>1 DEF Whole, Distinct
      <3> QED
        BY <3>3, <3>4
    <2> QED
      BY <1>1, <2>1, <2>2, FilesWritten
  <1>3. /\ heap' = "sound"
        /\ \A c \in Collections : ~coll'[c].loaded => coll'[c].docs = <<>>
    <2>1. ASSUME NEW b \in Collections, CollectionStep(b)
          PROVE  /\ heap' = "sound"
                 /\ \A c \in Collections : ~coll'[c].loaded => coll'[c].docs = <<>>
      <3>1. ASSUME NEW o \in EnsureOutcomes(coll[b], dir, b)
            PROVE  ~o.hurt /\ (~o.m.loaded => o.m.docs = <<>>)
        BY <1>1, CalmCall
      <3>2. heap' = "sound" /\ (~coll'[b].loaded => coll'[b].docs = <<>>)
        BY <1>1, <2>1, <3>1, CallShape DEF Sane
      <3>3. \A c \in Collections : c # b => coll'[c] = coll[c]
        BY <1>1, <2>1, CallShape
      <3> QED
        BY <3>2, <3>3 DEF Sane
    <2>2. CASE UnregisterEverything /\ heap' \in {heap, "sound"}
      BY <2>2 DEF UnregisterEverything, Blank, Sane
    <2>3. ASSUME NEW d \in Dirs, NEW how \in CloseEnds, SaveAll(d, how)
          PROVE  /\ heap' = "sound"
                 /\ \A c \in Collections : ~coll'[c].loaded => coll'[c].docs = <<>>
      <3>1. ASSUME NEW c \in Collections
            PROVE  coll'[c].loaded = coll[c].loaded /\ coll'[c].docs = coll[c].docs
        <4>1. coll'[c] \in {coll[c], [coll[c] EXCEPT !.dirty = FALSE]} /\ coll[c] \in Memory
          BY <1>1, <2>3 DEF SaveAll
        <4> QED
          BY <4>1 DEF Memory
      <3> QED
        BY <2>3, <3>1 DEF SaveAll, Sane
    <2>4. ASSUME NEW d \in Dirs, LoadAll(d)
          PROVE  /\ heap' = "sound"
                 /\ \A c \in Collections : ~coll'[c].loaded => coll'[c].docs = <<>>
      <3>1. d = dir
        BY <1>1, <2>4 DEF LoadAll, MayTransfer
      <3>2. PICK stop \in 1..(Len(g_collections) + 1) :
              LET tried == {g_collections[i] : i \in DOMAIN g_collections \cap (1..stop)}
                  outcomes == UNION {EnsureOutcomes(coll[e], d, e) : e \in tried}
              IN \E os \in [tried -> outcomes] :
                   /\ \A e \in tried : os[e] \in EnsureOutcomes(coll[e], d, e)
                   /\ coll' = [e \in Collections |-> IF e \in tried THEN os[e].m ELSE coll[e]]
                   /\ heap' = IF \E e \in tried : os[e].hurt THEN "damaged" ELSE heap
        BY <2>4 DEF LoadAll
      <3> DEFINE tried == {g_collections[i] : i \in DOMAIN g_collections \cap (1..stop)}
                 outcomes == UNION {EnsureOutcomes(coll[e], d, e) : e \in tried}
      <3>3. PICK os \in [tried -> outcomes] :
              /\ \A e \in tried : os[e] \in EnsureOutcomes(coll[e], d, e)
              /\ coll' = [e \in Collections |-> IF e \in tried THEN os[e].m ELSE coll[e]]
              /\ heap' = IF \E e \in tried : os[e].hurt THEN "damaged" ELSE heap
        BY <3>2
      <3>4. tried \subseteq Collections
        <4>1. \A i \in DOMAIN g_collections : g_collections[i] \in Collections
          BY <1>1, ElementOfSeq, LenProperties DEF IInv, TypeOK
        <4> QED
          BY <4>1
      <3> HIDE DEF tried, outcomes
      <3>5. ASSUME NEW e \in tried
            PROVE  ~os[e].hurt /\ (~os[e].m.loaded => os[e].m.docs = <<>>)
        BY <1>1, <3>1, <3>3, <3>4, CalmCall
      <3> QED
        BY <3>3, <3>5 DEF Sane
    <2>5. CASE UNCHANGED <<coll, heap>>
      BY <2>5 DEF Sane
    <2>6. CASE DatabaseStep
      <3>1. \/ UNCHANGED <<coll, heap>>
            \/ UnregisterEverything /\ heap' = heap
            \/ \E d \in Dirs, how \in CloseEnds : SaveAll(d, how)
            \/ \E d \in Dirs : LoadAll(d)
        BY <2>6 DEF DatabaseStep, Initialize, Open, OpenNoDirectory, OpenNoMemory, Close,
           UnregisterAll, BeginWriteTxn, EndWriteTxn, memoryVars
      <3>2. CASE \E d \in Dirs, how \in CloseEnds : SaveAll(d, how)
        BY <2>3, <3>2
      <3>3. CASE \E d \in Dirs : LoadAll(d)
        BY <2>4, <3>3
      <3> QED
        BY <2>2, <2>5, <3>1, <3>2, <3>3
    <2>7. CASE \E how \in CrashEnds : Crash(how)
      BY <2>2, <2>7 DEF Crash
    <2>8. CASE UNCHANGED vars
      BY <2>5, <2>8 DEF vars
    <2> QED
      BY <2>1, <2>6, <2>7, <2>8 DEF Next
  <1> QED
    BY <1>2, <1>3 DEF Sane

-----------------------------------------------------------------------------
(* Theorems *)

\* For a client that stays with the files of the open directory, a collection
\* that is not loaded holds the beginning of its file, and what else Kept says.
THEOREM StaysKept == ~Transfers => (Spec => []SInv)
  <1> SUFFICES ASSUME ~Transfers PROVE Spec => []SInv
    OBVIOUS
  <1>1. Init => SInv
    BY InitSInv
  <1>2. SInv /\ [Next]_vars => SInv'
    BY NextSInv
  <1> QED
    BY <1>1, <1>2, PTL DEF Spec

\* A loaded collection without unsaved changes is its file, whatever writes
\* failed before: close and save-all may pass it over (!dirty).
THEOREM CleanIsSaved == Durable => (Spec => []CleanAgreesWithFile)
  <1> SUFFICES ASSUME Durable PROVE Spec => []CleanAgreesWithFile
    OBVIOUS
  <1>1. SInv => CleanAgreesWithFile
    <2> SUFFICES ASSUME SInv, dir # NoDir, NEW c \in Registered, coll[c].loaded, ~coll[c].dirty
                 PROVE  Content(files[dir][c]) = coll[c].docs
      BY DEF CleanAgreesWithFile
    <2>1. c \in Collections
      BY ElementOfSeq, LenProperties DEF SInv, IInv, TypeOK, Registered
    <2>2. Agrees(coll[c], FileOf(c))
      BY <2>1 DEF SInv, Kept, Fit, Durable, Careful
    <2> QED
      BY <2>2 DEF Agrees, FileOf
  <1>2. ~Transfers
    BY DEF Durable, Careful
  <1> QED
    BY <1>1, <1>2, StaysKept, PTL

\* A close in which no write fails leaves every collection in use in its file,
\* those it wrote and those it passed over.
THEOREM CloseSaves == Durable => (Spec => CloseIsDurable)
  <1> SUFFICES ASSUME Durable PROVE Spec => CloseIsDurable
    OBVIOUS
  <1>1. ~Transfers
    BY DEF Durable, Careful
  <1> DEFINE how == [c \in Collections |-> [end |-> "ok", kept |-> 0]]
             Saved == dir # NoDir /\ Close(how) =>
                        \A c \in Registered :
                          coll[c].loaded => Content(files'[dir][c]) = coll[c].docs
  <1>2. SInv => Saved
    <2> SUFFICES ASSUME SInv, dir # NoDir, Close(how), NEW c \in Registered, coll[c].loaded
                 PROVE  Content(files'[dir][c]) = coll[c].docs
      OBVIOUS
    <2>1. c \in Collections
      BY ElementOfSeq, LenProperties DEF SInv, IInv, TypeOK, Registered
    <2>2. /\ coll[c] \in Memory /\ Agrees(coll[c], FileOf(c)) /\ dir \in Dirs
          /\ files \in [Dirs -> [Collections -> File]] /\ FileOf(c) = files[dir][c]
      BY <2>1 DEF SInv, IInv, TypeOK, LifecycleTypeOK, Kept, Fit, Durable, Careful, FileOf
    <2>3. files'[dir][c] = IF c \in Reached(how) THEN DataSaved(coll[c], how[c], files[dir][c])
                           ELSE files[dir][c]
      BY <2>1, <2>2 DEF Close, SaveAllFiles
    <2>4. CASE coll[c].dirty
      <3>1. ASSUME NEW b \in Collections
            PROVE  ~SaveFails(coll[b], how[b])
        BY DEF SaveFails
      <3>2. \A i \in DOMAIN g_collections : g_collections[i] \in Collections
        BY ElementOfSeq, LenProperties DEF SInv, IInv, TypeOK
      <3>3. PICK i \in DOMAIN g_collections : g_collections[i] = c
        BY DEF Registered
      <3>4. \A k \in 1..(i - 1) : k \in DOMAIN g_collections
        BY LenProperties DEF SInv, IInv, TypeOK
      <3>5. c \in Reached(how)
        <4> HIDE DEF how
        <4> QED
          BY <2>4, <3>1, <3>2, <3>3, <3>4 DEF Reached
      <3>6. how[c] = [end |-> "ok", kept |-> 0]
        BY <2>1
      <3> QED
        BY <2>2, <2>3, <3>5, <3>6, SavedWhole
    <2>5. CASE ~coll[c].dirty
      <3>1. c \notin Reached(how)
        BY <2>5 DEF Reached
      <3> QED
        BY <2>2, <2>3, <2>5, <3>1 DEF Agrees
    <2> QED
      BY <2>4, <2>5
  <1>3. Spec => []SInv
    BY <1>1, StaysKept
  <1>4. SInv => [Saved]_vars
    BY <1>2
  <1>5. Spec => [][Saved]_vars
    BY <1>3, <1>4, PTL
  <1> QED
    BY <1>5 DEF CloseIsDurable

\* A file is only replaced by one of the same schema: a program that registers
\* a collection under another schema cannot load its file, and so never writes
\* over it, not in close either.
THEOREM FilesKeepSchema == Careful => (Spec => SchemaKept)
  <1> SUFFICES ASSUME Careful PROVE Spec => SchemaKept
    OBVIOUS
  <1>1. ~Transfers /\ ~EarlyUse
    BY DEF Careful
  <1> DEFINE Same == \A d \in Dirs, c \in Collections :
                       files[d][c] # NoFile =>
                         files'[d][c] # NoFile /\ files'[d][c].schema = files[d][c].schema
  <1>2. SInv /\ [Next]_vars => Same
    <2> SUFFICES ASSUME SInv, [Next]_vars, NEW d \in Dirs, NEW c \in Collections,
                        files[d][c] # NoFile
                 PROVE  files'[d][c] # NoFile /\ files'[d][c].schema = files[d][c].schema
      OBVIOUS
    <2>1. files[d][c] \in File
      BY DEF SInv, IInv, TypeOK
    <2>2. CASE Written(d, c)
      <3>1. PICK m \in Memory, how \in Ends :
              /\ m.loaded /\ Fit(m, files[d][c], TRUE)
              /\ files'[d][c] = DataSaved(m, how, files[d][c])
        BY <2>2 DEF Written
      <3>2. files[d][c].schema = m.schema
        BY <1>1, <3>1 DEF Fit, SameSchema
      <3> QED
        BY <2>1, <3>1, <3>2, SavedSchema
    <2> QED
      BY <1>1, <2>2, FilesWritten
  <1>3. Spec => []SInv
    BY <1>1, StaysKept
  <1>4. Spec => [][Same]_vars
    <2> HIDE DEF Same
    <2> QED
      BY <1>2, <1>3, PTL DEF Spec
  <1> QED
    BY <1>4 DEF SchemaKept

\* No put, delete, failed put, load or save makes a complete index lose a
\* document, and every load that succeeds leaves the indexes complete.
THEOREM IndexesStayComplete == ~Transfers => (Spec => IndexStaysComplete)
  <1> SUFFICES ASSUME ~Transfers PROVE Spec => IndexStaysComplete
    OBVIOUS
  <1> DEFINE All == \A c \in Collections : \A f \in coll[c].fields \cap coll'[c].fields :
                      coll'[c].loaded /\ (~coll[c].loaded \/ Complete(coll[c], f))
                        => Complete(coll'[c], f)
  <1>1. SInv /\ [Next]_vars => All
    BY StepFollows DEF Follows
  <1>2. Spec => []SInv
    BY StaysKept
  <1>3. Spec => [][All]_vars
    <2> HIDE DEF All
    <2> QED
      BY <1>1, <1>2, PTL DEF Spec
  <1> QED
    BY <1>3 DEF IndexStaysComplete

\* When nothing fails but the writes of saves, the loader never meets an id
\* twice nor a short file, so no blob is freed by append_document and again by
\* the loop that called it.
THEOREM NothingFreedTwice == Calm => (Spec => []NoDoubleFree)
  <1> SUFFICES ASSUME Calm PROVE Spec => []NoDoubleFree
    OBVIOUS
  <1>1. ~Transfers
    BY DEF Calm
  <1>2. Init => Sane
    BY DEF Init, Sane, Blank, Whole
  <1>3. SInv /\ Sane /\ [Next]_vars => Sane'
    BY NextSane
  <1>4. Sane => NoDoubleFree
    BY DEF Sane, NoDoubleFree
  <1>5. Spec => []SInv
    BY <1>1, StaysKept
  <1> QED
    BY <1>2, <1>3, <1>4, <1>5, PTL DEF Spec


-----------------------------------------------------------------------------
(* The view of the abstract store *)

\* What the client sees of a collection m with file f.
LiveIn(m, f) == IF m.loaded THEN m.docs ELSE Content(f)

LEMMA LiveIsLiveIn ==
  ASSUME NEW c \in Collections
  PROVE  LiveOf(c) = IF dir = NoDir THEN <<>> ELSE LiveIn(coll[c], FileOf(c))
  BY DEF LiveOf, LiveIn, FileOf

\* A step that changes nothing the client sees.
LEMMA SameView ==
  ASSUME dir' = dir,
         \A c \in Collections : (LiveOf(c))' = LiveOf(c),
         \A d \in Dirs : \A c \in Collections : Content(files'[d][c]) = Content(files[d][c])
  PROVE  UNCHANGED Abstract!vars
  BY DEF Abstract!vars

\* Making sure that a collection is loaded is not seen.
LEMMA EnsuredLive ==
  ASSUME Durable, SInv, NEW c \in Collections, Usable(c), NEW o \in EnsureOutcomes(coll[c], dir, c)
  PROVE  /\ dir # NoDir /\ o.m \in Memory /\ (o.ok => o.m.loaded)
         /\ LiveOf(c) = LiveIn(o.m, FileOf(c))
         /\ o.m.loaded => LiveOf(c) = o.m.docs
  <1>1. dir # NoDir
    BY DEF Usable, Durable, Careful
  <1>2. Ensures(coll[c], FileOf(c), o.m) /\ o.m \in Memory /\ (o.ok => o.m.loaded)
    BY CallFit DEF SInv
  <1>3. LiveOf(c) = LiveIn(coll[c], FileOf(c))
    BY <1>1, LiveIsLiveIn
  <1>4. LiveIn(coll[c], FileOf(c)) = LiveIn(o.m, FileOf(c))
    BY <1>2 DEF Ensures, LiveIn
  <1> QED
    BY <1>1, <1>2, <1>3, <1>4 DEF LiveIn

\* What a save leaves for the next session, when files are not torn.
LEMMA SavedContent ==
  ASSUME Durable, NEW m \in Memory, NEW how \in Ends, NEW f
  PROVE  Content(DataSaved(m, how, f)) = IF how.end = "noData" THEN Content(f) ELSE m.docs
  <1>1. how.end \in {"ok", "noData", "noIndex"}
    BY DEF Ends, SaveEnds, Durable
  <1>2. CASE how.end = "noData"
    BY <1>2 DEF DataSaved
  <1>3. CASE how.end # "noData"
    <2>1. DataSaved(m, how, f).docs = m.docs
      BY <1>1, <1>3 DEF DataSaved
    <2>2. DataSaved(m, how, f) \in Contents
      BY <1>3, SavedTypes DEF Ends
    <2> QED
      BY <1>3, <2>1, <2>2, NoFileAssumption DEF Content
  <1> QED
    BY <1>2, <1>3

\* Files that now hold what the client sees, for the collections of saved.
LEMMA WrittenView ==
  ASSUME NEW saved \in SUBSET Collections,
         \A d \in Dirs : \A c \in Collections :
           Content(files'[d][c]) = IF d = dir /\ c \in saved THEN LiveOf(c) ELSE Content(files[d][c])
  PROVE  [d \in Dirs |-> [c \in Collections |-> Content(files'[d][c])]] = Abstract!Written(saved)
  <1> DEFINE D == [d \in Dirs |-> [c \in Collections |-> Content(files[d][c])]]
             L == [c \in Collections |-> LiveOf(c)]
             E == [d \in Dirs |-> [c \in Collections |-> Content(files'[d][c])]]
             W == [c \in Collections |-> IF c \in saved THEN L[c] ELSE D[dir][c]]
  <1>1. Abstract!Written(saved) = [D EXCEPT ![dir] = [c \in Collections |-> IF c \in saved THEN L[c] ELSE @[c]]]
    BY DEF Abstract!Written
  <1>2. ASSUME NEW d \in Dirs
        PROVE  E[d] = [D EXCEPT ![dir] = W][d]
    <2>1. CASE d = dir
      BY <2>1
    <2>2. CASE d # dir
      BY <2>2
    <2> QED
      BY <2>1, <2>2
  <1>3. E = [D EXCEPT ![dir] = W]
    <2>1. DOMAIN E = Dirs /\ DOMAIN D = Dirs
      OBVIOUS
    <2> QED
      BY <1>2, <2>1
  <1> QED
    BY <1>1, <1>3

-----------------------------------------------------------------------------
(* Calls on one collection *)

\* A call on c that changes no file: only the client's view of c may change.
LEMMA OneView ==
  ASSUME SInv, NEW c \in Collections, NEW w, coll' = [coll EXCEPT ![c] = w],
         dir # NoDir, UNCHANGED <<dir, files>>
  PROVE  /\ (LiveOf(c))' = LiveIn(w, FileOf(c))
         /\ \A b \in Collections : b # c => (LiveOf(b))' = LiveOf(b)
         /\ LiveIn(w, FileOf(c)) = LiveOf(c) => UNCHANGED Abstract!vars
  <1>1. coll'[c] = w /\ \A b \in Collections : b # c => coll'[b] = coll[b]
    BY DEF SInv, IInv, TypeOK
  <1>2. (LiveOf(c))' = LiveIn(w, FileOf(c))
    BY <1>1 DEF LiveOf, LiveIn, FileOf
  <1>3. \A b \in Collections : b # c => (LiveOf(b))' = LiveOf(b)
    BY <1>1 DEF LiveOf
  <1>4. ASSUME LiveIn(w, FileOf(c)) = LiveOf(c)
        PROVE  UNCHANGED Abstract!vars
    BY <1>2, <1>3, <1>4, SameView
  <1> QED
    BY <1>2, <1>3, <1>4

\* Calls that change nothing the client sees.
LEMMA QuietCalls ==
  ASSUME Durable, SInv, NEW c \in Collections,
         \/ Access(c)
         \/ PutAborts(c)
         \/ \E part \in Keys : PutNotIndexed(c, part)
  PROVE  UNCHANGED Abstract!vars
  <1>1. Usable(c) /\ UNCHANGED <<dir, files>>
    BY DEF Access, PutAborts, PutNotIndexed
  <1>2. CASE Access(c) \/ PutAborts(c)
    <2>1. PICK o \in EnsureOutcomes(coll[c], dir, c) : coll' = [coll EXCEPT ![c] = o.m]
      BY <1>2 DEF Access, PutAborts
    <2>2. dir # NoDir /\ LiveOf(c) = LiveIn(o.m, FileOf(c))
      BY <1>1, EnsuredLive
    <2> QED
      BY <1>1, <2>1, <2>2, OneView
  <1>3. ASSUME NEW part \in Keys, PutNotIndexed(c, part)
        PROVE  UNCHANGED Abstract!vars
    <2>1. PICK o \in EnsureOutcomes(coll[c], dir, c) : \E idx :
            o.ok /\ coll' = [coll EXCEPT ![c] = [o.m EXCEPT !.dirty = TRUE, !.idx = idx]]
      BY <1>3 DEF PutNotIndexed
    <2>2. PICK idx : coll' = [coll EXCEPT ![c] = [o.m EXCEPT !.dirty = TRUE, !.idx = idx]]
      BY <2>1
    <2> DEFINE w == [o.m EXCEPT !.dirty = TRUE, !.idx = idx]
    <2>3. dir # NoDir /\ o.m \in Memory /\ o.m.loaded /\ LiveOf(c) = o.m.docs
      BY <1>1, <2>1, EnsuredLive
    <2>4. w.loaded /\ w.docs = o.m.docs
      BY <2>3 DEF Memory
    <2>5. coll' = [coll EXCEPT ![c] = w]
      BY <2>2
    <2> HIDE DEF w
    <2>6. LiveIn(w, FileOf(c)) = LiveOf(c)
      BY <2>3, <2>4 DEF LiveIn
    <2> QED
      BY <1>1, <2>3, <2>5, <2>6, OneView
  <1> QED
    BY <1>2, <1>3

\* A put appends a document with a new id to what the client sees.
LEMMA PutView ==
  ASSUME Durable, SInv, NEW c \in Collections, NEW keys \in Keys, Put(c, keys)
  PROVE  Abstract!Put(c)
  <1>1. Usable(c) /\ UNCHANGED <<dir, files>>
    BY DEF Put
  <1>2. PICK o \in EnsureOutcomes(coll[c], dir, c), n \in 0..MaxId - 1 :
          LET doc == [id |-> n + 1, keys |-> keys] IN
          /\ o.ok
          /\ n + 1 \notin Ids(o.m.docs)
          /\ coll' = [coll EXCEPT ![c] =
               [o.m EXCEPT !.docs = Append(@, doc), !.dirty = TRUE,
                           !.idx = IndexDocs(@, o.m.fields, <<doc>>)]]
    BY DEF Put
  <1> DEFINE doc == [id |-> n + 1, keys |-> keys]
             w == [o.m EXCEPT !.docs = Append(@, doc), !.dirty = TRUE,
                              !.idx = IndexDocs(@, o.m.fields, <<doc>>)]
             L == [b \in Collections |-> LiveOf(b)]
  <1>3. dir # NoDir /\ o.m \in Memory /\ o.m.loaded /\ LiveOf(c) = o.m.docs
    BY <1>1, <1>2, EnsuredLive
  <1>4. w.loaded /\ w.docs = Append(o.m.docs, doc)
    BY <1>3 DEF Memory
  <1>5. coll' = [coll EXCEPT ![c] = w]
    BY <1>2
  <1>6. /\ doc \in Abstract!Document /\ doc.id = n + 1
        /\ \A i \in DOMAIN o.m.docs : o.m.docs[i].id # doc.id
    BY <1>2, StoreAssumption DEF Abstract!Document, Ids
  <1> HIDE DEF w, doc
  <1>7. /\ (LiveOf(c))' = Append(LiveOf(c), doc)
        /\ \A b \in Collections : b # c => (LiveOf(b))' = LiveOf(b)
    BY <1>1, <1>3, <1>4, <1>5, OneView DEF LiveIn
  <1>8. L' = [L EXCEPT ![c] = Append(LiveOf(c), doc)]
    BY <1>7
  <1>9. /\ L'[c] = Append(LiveOf(c), doc) /\ L[c] = LiveOf(c)
        /\ L' = [L EXCEPT ![c] = Append(@, doc)]
    BY <1>8
  <1>10. /\ Append(LiveOf(c), doc) # <<>>
         /\ Append(LiveOf(c), doc)[Len(Append(LiveOf(c), doc))] = doc
    <2>1. LiveOf(c) \in Seq(Doc) /\ doc \in Doc
      BY <1>3, <1>6 DEF Memory, Abstract!Document, Doc
    <2> QED
      BY <2>1, AppendProperties, LenProperties
  <1>11. UNCHANGED <<dir, [d \in Dirs |-> [b \in Collections |-> Content(files[d][b])]]>>
    BY <1>1
  <1> HIDE DEF L
  <1>12. /\ L'[c] # <<>> /\ L'[c][Len(L'[c])] = doc
         /\ \A i \in DOMAIN L[c] : L[c][i].id # doc.id
    BY <1>3, <1>6, <1>9, <1>10
  <1> QED
    BY <1>3, <1>6, <1>9, <1>11, <1>12 DEF Abstract!Put, L

\* Taking out element p is joining what is before it and what is after it.
LEMMA WithoutAtIsJoin ==
  ASSUME NEW docs \in Seq(Doc), NEW p \in DOMAIN docs
  PROVE  WithoutAt(docs, p) = SubSeq(docs, 1, p - 1) \o SubSeq(docs, p + 1, Len(docs))
  <1> DEFINE a == SubSeq(docs, 1, p - 1)
             b == SubSeq(docs, p + 1, Len(docs))
             D == WithoutAt(docs, p)
  <1>1. /\ Len(docs) \in Nat /\ DOMAIN docs = 1..Len(docs) /\ p \in 1..Len(docs)
        /\ \A i \in 1..Len(docs) : docs[i] \in Doc
    BY LenProperties, ElementOfSeq
  <1>2. a \in Seq(Doc) /\ Len(a) = p - 1 /\ \A i \in 1..(p - 1) : a[i] = docs[i]
    <2>1. \A i \in 1..(p - 1) : docs[i] \in Doc
      BY <1>1
    <2>2. p - 1 \in Nat
      BY <1>1
    <2> QED
      BY <1>1, <2>1, <2>2, SubSeqProperties
  <1>3. b \in Seq(Doc) /\ Len(b) = Len(docs) - p /\ \A i \in 1..(Len(docs) - p) : b[i] = docs[p + i]
    <2>1. \A i \in (p + 1)..Len(docs) : docs[i] \in Doc
      BY <1>1
    <2>2. b \in Seq(Doc) /\ Len(b) = Len(docs) - p
      BY <1>1, <2>1, SubSeqProperties
    <2>3. \A i \in 1..Len(b) : b[i] = docs[p + 1 + i - 1]
      BY <1>1, <2>1, SubSeqProperties
    <2>4. \A i \in 1..(Len(docs) - p) : p + 1 + i - 1 = p + i
      BY <1>1
    <2> QED
      BY <2>2, <2>3, <2>4
  <1> HIDE DEF a, b
  <1>4. /\ a \o b \in Seq(Doc) /\ Len(a \o b) = Len(docs) - 1
        /\ \A i \in 1..(Len(docs) - 1) :
             (a \o b)[i] = IF i < p THEN docs[i] ELSE docs[i + 1]
    <2>1. /\ a \o b \in Seq(Doc) /\ Len(a \o b) = Len(a) + Len(b)
          /\ \A i \in 1..(Len(a) + Len(b)) :
               (a \o b)[i] = IF i <= Len(a) THEN a[i] ELSE b[i - Len(a)]
      BY <1>2, <1>3, ConcatProperties
    <2>2. ASSUME NEW i \in 1..(Len(docs) - 1)
          PROVE  (a \o b)[i] = IF i < p THEN docs[i] ELSE docs[i + 1]
      <3>1. i \in 1..(Len(a) + Len(b)) /\ (i <= Len(a) <=> i < p)
        BY <1>1, <1>2, <1>3
      <3>2. CASE i < p
        BY <1>1, <1>2, <2>1, <3>1, <3>2
      <3>3. CASE ~(i < p)
        <4>1. i - Len(a) \in 1..(Len(docs) - p) /\ p + (i - Len(a)) = i + 1
          BY <1>1, <1>2, <3>3
        <4> QED
          BY <1>3, <2>1, <3>1, <3>3, <4>1
      <3> QED
        BY <3>2, <3>3
    <2> QED
      BY <1>1, <1>2, <1>3, <2>1, <2>2
  <1>5. D \in Seq(Doc) /\ Len(D) = Len(docs) - 1
    <2>1. D \in Seq(Doc) /\ DOMAIN D = 1..(Len(docs) - 1)
      BY WithoutAtDocs
    <2> HIDE DEF D
    <2>2. Len(D) \in Nat /\ DOMAIN D = 1..Len(D)
      BY <2>1, LenProperties
    <2>3. ASSUME NEW m \in Nat, NEW n \in Nat, 1..m = 1..n
          PROVE  m = n
      <3>1. m = 0 \/ m \in 1..n
        BY <2>3
      <3>2. n = 0 \/ n \in 1..m
        BY <2>3
      <3> QED
        BY <3>1, <3>2
    <2>4. Len(docs) - 1 \in Nat
      BY <1>1
    <2> QED
      BY <2>1, <2>2, <2>3, <2>4
  <1>6. \A i \in 1..(Len(docs) - 1) : D[i] = (a \o b)[i]
    BY <1>4 DEF WithoutAt
  <1> HIDE DEF D
  <1>7. D = a \o b
    BY <1>4, <1>5, <1>6, SeqEqual
  <1> QED
    BY <1>7 DEF D, a, b

\* A delete takes one document out of what the client sees.
LEMMA DeleteView ==
  ASSUME Durable, SInv, NEW c \in Collections, NEW id \in 1..MaxId, Delete(c, id)
  PROVE  Abstract!Delete(c)
  <1>1. Usable(c) /\ UNCHANGED <<dir, files>>
    BY DEF Delete
  <1>2. PICK o \in EnsureOutcomes(coll[c], dir, c) : \E p \in DOMAIN o.m.docs :
          /\ o.ok
          /\ coll' = [coll EXCEPT ![c] =
               [o.m EXCEPT !.docs = WithoutAt(@, p), !.dirty = TRUE, !.idx = Unindex(@, id)]]
    BY DEF Delete
  <1>3. PICK p \in DOMAIN o.m.docs :
          coll' = [coll EXCEPT ![c] =
            [o.m EXCEPT !.docs = WithoutAt(@, p), !.dirty = TRUE, !.idx = Unindex(@, id)]]
    BY <1>2
  <1> DEFINE w == [o.m EXCEPT !.docs = WithoutAt(@, p), !.dirty = TRUE, !.idx = Unindex(@, id)]
             L == [b \in Collections |-> LiveOf(b)]
             rest == SubSeq(LiveOf(c), 1, p - 1) \o SubSeq(LiveOf(c), p + 1, Len(LiveOf(c)))
  <1>4. dir # NoDir /\ o.m \in Memory /\ o.m.loaded /\ LiveOf(c) = o.m.docs
    BY <1>1, <1>2, EnsuredLive
  <1>5. w.loaded /\ w.docs = WithoutAt(o.m.docs, p)
    BY <1>4 DEF Memory
  <1>6. coll' = [coll EXCEPT ![c] = w]
    BY <1>3
  <1> HIDE DEF w
  <1>7. WithoutAt(o.m.docs, p) = rest
    BY <1>4, WithoutAtIsJoin DEF Memory
  <1>8. /\ (LiveOf(c))' = rest
        /\ \A b \in Collections : b # c => (LiveOf(b))' = LiveOf(b)
    BY <1>1, <1>4, <1>5, <1>6, <1>7, OneView DEF LiveIn
  <1>9. L' = [L EXCEPT ![c] = SubSeq(@, 1, p - 1) \o SubSeq(@, p + 1, Len(@))]
    <2>1. L' = [L EXCEPT ![c] = rest]
      <3> HIDE DEF rest
      <3> QED
        BY <1>8
    <2> QED
      BY <2>1
  <1>10. UNCHANGED <<dir, [d \in Dirs |-> [b \in Collections |-> Content(files[d][b])]]>>
    BY <1>1
  <1>11. p \in DOMAIN L[c]
    BY <1>4
  <1> HIDE DEF L, rest
  <1> QED
    BY <1>4, <1>9, <1>10, <1>11 DEF Abstract!Delete, L

\* Registering a collection or declaring an index is not seen.
LEMMA DeclaresView ==
  ASSUME Durable, SInv, NEW c \in Collections,
         (\E s \in Schemas : Register(c, s)) \/ (\E f \in Fields : AddIndex(c, f))
  PROVE  UNCHANGED Abstract!vars
  <1>1. coll \in [Collections -> Memory] /\ UNCHANGED <<dir, files>>
    BY DEF SInv, IInv, TypeOK, Register, AddIndex, diskVars
  <1>2. ASSUME NEW s \in Schemas, Register(c, s)
        PROVE  \A b \in Collections : (LiveOf(b))' = LiveOf(b)
    <2>1. ~coll[c].loaded
      BY <1>2 DEF SInv, Kept, Register
    <2>2. ~coll'[c].loaded /\ \A b \in Collections : b # c => coll'[b] = coll[b]
      BY <1>1, <1>2 DEF Register, Blank
    <2> QED
      BY <1>1, <2>1, <2>2 DEF LiveOf
  <1>3. ASSUME NEW f \in Fields, AddIndex(c, f)
        PROVE  \A b \in Collections : (LiveOf(b))' = LiveOf(b)
    <2>1. /\ coll'[c].loaded = coll[c].loaded /\ coll'[c].docs = coll[c].docs
          /\ \A b \in Collections : b # c => coll'[b] = coll[b]
      BY <1>1, <1>3 DEF AddIndex, Memory
    <2> QED
      BY <1>1, <2>1 DEF LiveOf
  <1> QED
    BY <1>1, <1>2, <1>3, SameView

-----------------------------------------------------------------------------
(* Saves *)

LEMMA SaveCollectionView ==
  ASSUME Durable, SInv, NEW c \in Collections, NEW d \in Dirs, NEW how \in SaveEnds(Faults),
         SaveCollection(c, d, how)
  PROVE  \E saved \in SUBSET Collections : Abstract!Save(saved)
  <1>1. /\ d = dir /\ dir # NoDir /\ dir' = dir /\ Usable(c) /\ coll \in [Collections -> Memory]
        /\ files \in [Dirs -> [Collections -> File]] /\ how \in Ends
    BY NoDirAssumption, EndsOfSteps
       DEF SaveCollection, MayTransfer, Durable, Careful, SInv, IInv, TypeOK
  <1>2. PICK o \in EnsureOutcomes(coll[c], dir, c) :
          /\ o.ok
          /\ coll' = [coll EXCEPT ![c] =
               IF SaveFails(o.m, how) THEN o.m ELSE [o.m EXCEPT !.dirty = FALSE]]
          /\ files' = [files EXCEPT ![d][c] = DataSaved(o.m, how, @)]
    BY DEF SaveCollection
  <1>3. o.m \in Memory /\ o.m.loaded /\ LiveOf(c) = o.m.docs
    BY <1>1, <1>2, EnsuredLive
  <1> DEFINE saved == IF how.end = "noData" THEN {} ELSE {c}
             L == [b \in Collections |-> LiveOf(b)]
             E == [e \in Dirs |-> [b \in Collections |-> Content(files[e][b])]]
  <1>4. \A b \in Collections : (LiveOf(b))' = LiveOf(b)
    <2>1. /\ coll'[c].loaded /\ coll'[c].docs = o.m.docs
          /\ \A b \in Collections : b # c => coll'[b] = coll[b]
      BY <1>1, <1>2, <1>3 DEF Memory
    <2>2. (LiveOf(c))' = LiveOf(c)
      BY <1>1, <1>3, <2>1 DEF LiveOf
    <2>3. ASSUME NEW b \in Collections, b # c
          PROVE  (LiveOf(b))' = LiveOf(b)
      <3>1. files'[dir][b] = files[dir][b]
        BY <1>1, <1>2, <2>3
      <3> QED
        BY <1>1, <2>1, <2>3, <3>1 DEF LiveOf
    <2> QED
      BY <2>2, <2>3
  <1>5. ASSUME NEW e \in Dirs, NEW b \in Collections
        PROVE  Content(files'[e][b]) = IF e = dir /\ b \in saved THEN LiveOf(b) ELSE Content(files[e][b])
    <2>1. CASE e = d /\ b = c
      <3>1. files'[e][b] = DataSaved(o.m, how, files[e][b])
        BY <1>1, <1>2, <2>1
      <3>2. Content(files'[e][b]) = IF how.end = "noData" THEN Content(files[e][b]) ELSE o.m.docs
        BY <1>1, <1>3, <3>1, SavedContent
      <3> QED
        BY <1>1, <1>3, <2>1, <3>2
    <2>2. CASE ~(e = d /\ b = c)
      <3>1. files'[e][b] = files[e][b]
        BY <1>1, <1>2, <2>2
      <3> QED
        BY <1>1, <2>2, <3>1
    <2> QED
      BY <2>1, <2>2
  <1>6. saved \in SUBSET Collections
    OBVIOUS
  <1> HIDE DEF saved
  <1>7. E' = Abstract!Written(saved)
    BY <1>5, <1>6, WrittenView
  <1>8. L' = L
    BY <1>4
  <1> QED
    BY <1>1, <1>6, <1>7, <1>8 DEF Abstract!Save

\* The files a save-all leaves hold what the client sees, as far as it came.
LEMMA SaveAllView ==
  ASSUME Durable, SInv, dir # NoDir, NEW how \in CloseEnds \cup CrashEnds, SaveAllFiles(dir, how)
  PROVE  \E saved \in SUBSET Collections :
           [d \in Dirs |-> [c \in Collections |-> Content(files'[d][c])]] = Abstract!Written(saved)
  <1> DEFINE saved == {c \in Collections : c \in Reached(how) /\ how[c].end # "noData"}
  <1>1. /\ coll \in [Collections -> Memory] /\ files \in [Dirs -> [Collections -> File]]
        /\ \A c \in Collections : how[c] \in Ends
    BY EndsOfSteps DEF SInv, IInv, TypeOK
  <1>2. ASSUME NEW d \in Dirs, NEW c \in Collections
        PROVE  Content(files'[d][c]) = IF d = dir /\ c \in saved THEN LiveOf(c) ELSE Content(files[d][c])
    <2>1. CASE d = dir /\ c \in Reached(how)
      <3>1. files'[d][c] = DataSaved(coll[c], how[c], files[d][c])
        BY <1>1, <2>1 DEF SaveAllFiles
      <3>2. Content(files'[d][c]) = IF how[c].end = "noData" THEN Content(files[d][c]) ELSE coll[c].docs
        BY <1>1, <3>1, SavedContent
      <3>3. coll[c].loaded
        BY <2>1 DEF Reached, SInv, IInv, Good
      <3> QED
        BY <2>1, <3>2, <3>3 DEF LiveOf
    <2>2. CASE ~(d = dir /\ c \in Reached(how))
      <3>1. files'[d][c] = files[d][c]
        BY <1>1, <2>2 DEF SaveAllFiles
      <3> QED
        BY <2>2, <3>1
    <2> QED
      BY <2>1, <2>2
  <1>3. saved \in SUBSET Collections
    OBVIOUS
  <1> HIDE DEF saved
  <1> QED
    BY <1>2, <1>3, WrittenView

\* A save-all changes what is on disk and not what the client sees.
LEMMA SaveAllSteps ==
  ASSUME Durable, SInv, NEW d \in Dirs, NEW how \in CloseEnds, SaveAll(d, how)
  PROVE  \E saved \in SUBSET Collections : Abstract!Save(saved)
  <1>1. /\ d = dir /\ dir # NoDir /\ dir' = dir
        /\ coll \in [Collections -> Memory] /\ files \in [Dirs -> [Collections -> File]]
    BY NoDirAssumption DEF SaveAll, MayTransfer, Durable, Careful, SInv, IInv, TypeOK
  <1> DEFINE L == [b \in Collections |-> LiveOf(b)]
             E == [e \in Dirs |-> [b \in Collections |-> Content(files[e][b])]]
  <1>2. PICK saved \in SUBSET Collections : E' = Abstract!Written(saved)
    BY <1>1, SaveAllView DEF SaveAll
  <1>3. ASSUME NEW c \in Collections
        PROVE  (LiveOf(c))' = LiveOf(c)
    <2>1. CASE c \in Reached(how)
      <3>1. coll[c].loaded
        BY <2>1 DEF Reached, SInv, IInv, Good
      <3>2. coll'[c] \in {coll[c], [coll[c] EXCEPT !.dirty = FALSE]}
        BY DEF SaveAll
      <3>3. coll'[c].loaded /\ coll'[c].docs = coll[c].docs
        BY <1>1, <3>1, <3>2 DEF Memory
      <3> QED
        BY <1>1, <3>1, <3>3 DEF LiveOf
    <2>2. CASE c \notin Reached(how)
      <3>1. coll'[c] = coll[c] /\ files'[dir][c] = files[dir][c]
        BY <1>1, <2>2 DEF SaveAll, SaveAllFiles
      <3> QED
        BY <1>1, <3>1 DEF LiveOf
    <2> QED
      BY <2>1, <2>2
  <1>4. L' = L
    BY <1>3
  <1> QED
    BY <1>1, <1>2, <1>4 DEF Abstract!Save

\* Loading collections is not seen.
LEMMA LoadAllView ==
  ASSUME Durable, SInv, NEW d \in Dirs, LoadAll(d)
  PROVE  UNCHANGED Abstract!vars
  <1>1. d = dir /\ dir # NoDir /\ UNCHANGED <<dir, files>>
    BY NoDirAssumption DEF LoadAll, MayTransfer, Durable, Careful
  <1>2. PICK stop \in 1..(Len(g_collections) + 1) :
          LET tried == {g_collections[i] : i \in DOMAIN g_collections \cap (1..stop)}
              outcomes == UNION {EnsureOutcomes(coll[c], d, c) : c \in tried}
          IN \E os \in [tried -> outcomes] :
               /\ \A c \in tried : os[c] \in EnsureOutcomes(coll[c], d, c)
               /\ coll' = [c \in Collections |-> IF c \in tried THEN os[c].m ELSE coll[c]]
    BY DEF LoadAll
  <1> DEFINE tried == {g_collections[i] : i \in DOMAIN g_collections \cap (1..stop)}
             outcomes == UNION {EnsureOutcomes(coll[c], d, c) : c \in tried}
  <1>3. PICK os \in [tried -> outcomes] :
          /\ \A c \in tried : os[c] \in EnsureOutcomes(coll[c], d, c)
          /\ coll' = [c \in Collections |-> IF c \in tried THEN os[c].m ELSE coll[c]]
    BY <1>2
  <1>4. tried \subseteq Registered
    BY DEF Registered
  <1> HIDE DEF tried, outcomes
  <1>5. ASSUME NEW c \in Collections
        PROVE  (LiveOf(c))' = LiveOf(c)
    <2>1. CASE c \in tried
      <3>1. Usable(c) /\ os[c] \in EnsureOutcomes(coll[c], dir, c)
        BY <1>1, <1>3, <1>4, <2>1 DEF Usable
      <3>2. LiveOf(c) = LiveIn(os[c].m, FileOf(c))
        BY <3>1, EnsuredLive
      <3>3. coll'[c] = os[c].m
        BY <1>3, <2>1
      <3> QED
        BY <1>1, <3>2, <3>3 DEF LiveOf, LiveIn, FileOf
    <2>2. CASE c \notin tried
      <3>1. coll'[c] = coll[c]
        BY <1>3, <2>2
      <3> QED
        BY <1>1, <3>1 DEF LiveOf
    <2> QED
      BY <2>1, <2>2
  <1> QED
    BY <1>1, <1>5, SameView

-----------------------------------------------------------------------------
(* Opening and leaving *)

\* A session starts with what the directory holds.
LEMMA OpenView ==
  ASSUME Durable, SInv, NEW d \in Dirs, Open(d)
  PROVE  Abstract!Open(d)
  <1>1. dir = NoDir /\ dir' = d /\ d # NoDir /\ UNCHANGED <<coll, files>>
    BY NoDirAssumption DEF Open, OpenSucceeds, SInv, Shut, memoryVars, diskVars
  <1> DEFINE L == [c \in Collections |-> LiveOf(c)]
             E == [e \in Dirs |-> [c \in Collections |-> Content(files[e][c])]]
  <1>2. ASSUME NEW c \in Collections
        PROVE  (LiveOf(c))' = Content(files[d][c])
    <2>1. ~coll[c].loaded
      BY <1>1 DEF SInv, Kept, Fit, Durable, Careful
    <2> QED
      BY <1>1, <2>1 DEF LiveOf
  <1>3. L' = [c \in Collections |-> Content(files[d][c])]
    BY <1>2
  <1>4. L' = E[d] /\ E' = E
    BY <1>1, <1>3
  <1> QED
    BY <1>1, <1>4 DEF Abstract!Open

\* What is on disk is all that is left of a session once it is over.
LEMMA LeaveView ==
  ASSUME Durable, SInv, dir' = NoDir,
         \/ dir = NoDir /\ files' = files
         \/ dir # NoDir /\ \E how \in CloseEnds \cup CrashEnds : SaveAllFiles(dir, how)
  PROVE  (\E saved \in SUBSET Collections : Abstract!Leave(saved)) \/ UNCHANGED Abstract!vars
  <1> DEFINE L == [c \in Collections |-> LiveOf(c)]
             E == [e \in Dirs |-> [c \in Collections |-> Content(files[e][c])]]
  <1>1. \A c \in Collections : (LiveOf(c))' = <<>>
    BY DEF LiveOf
  <1>2. CASE dir = NoDir /\ files' = files
    <2>1. \A c \in Collections : LiveOf(c) = <<>>
      BY <1>2 DEF LiveOf
    <2> QED
      BY <1>1, <1>2, <2>1, SameView
  <1>3. CASE dir # NoDir /\ \E how \in CloseEnds \cup CrashEnds : SaveAllFiles(dir, how)
    <2>1. PICK saved \in SUBSET Collections : E' = Abstract!Written(saved)
      BY <1>3, SaveAllView
    <2>2. L' = [c \in Collections |-> <<>>]
      BY <1>1
    <2> QED
      BY <1>3, <2>1, <2>2 DEF Abstract!Leave
  <1> QED
    BY <1>2, <1>3

\* Unregistering everything drops what was not saved.
LEMMA DiscardView ==
  ASSUME Durable, SInv, UnregisterAll
  PROVE  Abstract!Discard \/ UNCHANGED Abstract!vars
  <1>1. UNCHANGED <<dir, files>> /\ \A c \in Collections : ~coll'[c].loaded
    BY DEF UnregisterAll, UnregisterEverything, Blank, diskVars
  <1>2. CASE dir = NoDir
    <2>1. \A c \in Collections : LiveOf(c) = <<>> /\ (LiveOf(c))' = <<>>
      BY <1>1, <1>2 DEF LiveOf
    <2> QED
      BY <1>1, <2>1, SameView
  <1>3. CASE dir # NoDir
    <2> DEFINE L == [c \in Collections |-> LiveOf(c)]
               E == [e \in Dirs |-> [c \in Collections |-> Content(files[e][c])]]
    <2>1. \A c \in Collections : (LiveOf(c))' = Content(files[dir][c])
      BY <1>1, <1>3 DEF LiveOf
    <2>2. L' = [c \in Collections |-> Content(files[dir][c])]
      BY <2>1
    <2>3. dir \in Dirs
      BY <1>3 DEF SInv, IInv, TypeOK, LifecycleTypeOK
    <2>4. L' = E[dir] /\ E' = E
      BY <1>1, <2>2, <2>3
    <2> QED
      BY <1>1, <1>3, <2>4 DEF Abstract!Discard
  <1> QED
    BY <1>2, <1>3

-----------------------------------------------------------------------------
(* The refinement *)

LEMMA InitView == Init => Abstract!Init
  <1> SUFFICES ASSUME Init PROVE Abstract!Init
    OBVIOUS
  <1>1. dir = NoDir /\ \A d \in Dirs, c \in Collections : files[d][c] = NoFile
    BY DEF Init, LifecycleInit
  <1>2. /\ \A c \in Collections : LiveOf(c) = <<>>
        /\ \A d \in Dirs, c \in Collections : Content(files[d][c]) = <<>>
    BY <1>1 DEF LiveOf, Content
  <1> QED
    BY <1>1, <1>2 DEF Abstract!Init

LEMMA CollectionStepView ==
  ASSUME Durable, SInv, NEW c \in Collections, CollectionStep(c)
  PROVE  Abstract!Next \/ UNCHANGED Abstract!vars
  <1>1. CASE (\E s \in Schemas : Register(c, s)) \/ (\E f \in Fields : AddIndex(c, f))
    BY <1>1, DeclaresView
  <1>2. CASE Access(c) \/ PutAborts(c) \/ (\E part \in Keys : PutNotIndexed(c, part))
    BY <1>2, QuietCalls
  <1>3. CASE \E keys \in Keys : Put(c, keys)
    <2>1. Abstract!Put(c)
      BY <1>3, PutView
    <2> QED
      BY <2>1 DEF Abstract!Next
  <1>4. CASE \E id \in 1..MaxId : Delete(c, id)
    <2>1. Abstract!Delete(c)
      BY <1>4, DeleteView
    <2> QED
      BY <2>1 DEF Abstract!Next
  <1>5. CASE \E d \in Dirs, how \in SaveEnds(Faults) : SaveCollection(c, d, how)
    <2>1. \E saved \in SUBSET Collections : Abstract!Save(saved)
      BY <1>5, SaveCollectionView
    <2> QED
      BY <2>1 DEF Abstract!Next
  <1>6. ~ \E d \in Dirs : LoadCollection(c, d)
    BY DEF LoadCollection, Durable, Careful
  <1> QED
    BY <1>1, <1>2, <1>3, <1>4, <1>5, <1>6 DEF CollectionStep

LEMMA DatabaseStepView ==
  ASSUME Durable, SInv, DatabaseStep
  PROVE  Abstract!Next \/ UNCHANGED Abstract!vars
  <1>1. CASE Initialize \/ OpenNoDirectory \/ BeginWriteTxn \/ EndWriteTxn
    <2>1. UNCHANGED <<dir, coll, files>>
      BY <1>1 DEF Initialize, OpenNoDirectory, BeginWriteTxn, EndWriteTxn, InitializeSucceeds,
         OpenFailsIO, memoryVars, diskVars
    <2>2. \A c \in Collections : (LiveOf(c))' = LiveOf(c)
      BY <2>1 DEF LiveOf
    <2> QED
      BY <2>1, <2>2, SameView
  <1>2. CASE \E d \in Dirs : Open(d)
    <2>1. \E d \in Dirs : Abstract!Open(d)
      BY <1>2, OpenView
    <2> QED
      BY <2>1 DEF Abstract!Next
  <1>3. CASE OpenNoMemory
    <2>1. dir' = NoDir /\ dir = NoDir /\ files' = files
      BY <1>3 DEF OpenNoMemory, OpenFailsAlloc, SInv, Shut, diskVars
    <2> QED
      BY <2>1, LeaveView DEF Abstract!Next
  <1>4. CASE \E how \in CloseEnds : Close(how)
    <2>1. \/ dir = NoDir /\ files' = files
          \/ dir # NoDir /\ \E how \in CloseEnds \cup CrashEnds : SaveAllFiles(dir, how)
      BY <1>4 DEF Close, diskVars
    <2>2. dir' = NoDir
      BY <1>4 DEF Close, TransitionToClosed
    <2>3. (\E saved \in SUBSET Collections : Abstract!Leave(saved)) \/ UNCHANGED Abstract!vars
      BY <2>1, <2>2, LeaveView
    <2> QED
      BY <2>3 DEF Abstract!Next
  <1>5. CASE UnregisterAll
    BY <1>5, DiscardView DEF Abstract!Next
  <1>6. CASE \E d \in Dirs, how \in CloseEnds : SaveAll(d, how)
    <2>1. \E saved \in SUBSET Collections : Abstract!Save(saved)
      BY <1>6, SaveAllSteps
    <2> QED
      BY <2>1 DEF Abstract!Next
  <1>7. CASE \E d \in Dirs : LoadAll(d)
    BY <1>7, LoadAllView
  <1> QED
    BY <1>1, <1>2, <1>3, <1>4, <1>5, <1>6, <1>7 DEF DatabaseStep

LEMMA NextView ==
  ASSUME Durable
  PROVE  SInv /\ [Next]_vars => [Abstract!Next]_(Abstract!vars)
  <1> SUFFICES ASSUME SInv, [Next]_vars PROVE Abstract!Next \/ UNCHANGED Abstract!vars
    OBVIOUS
  <1>1. CASE \E how \in CrashEnds : Crash(how)
    <2>1. \/ dir = NoDir /\ files' = files
          \/ dir # NoDir /\ \E how \in CloseEnds \cup CrashEnds : SaveAllFiles(dir, how)
      BY <1>1 DEF Crash, diskVars
    <2>2. dir' = NoDir
      BY <1>1 DEF Crash, ProcessRestart
    <2>3. (\E saved \in SUBSET Collections : Abstract!Leave(saved)) \/ UNCHANGED Abstract!vars
      BY <2>1, <2>2, LeaveView
    <2> QED
      BY <2>3 DEF Abstract!Next
  <1>2. CASE UNCHANGED vars
    <2>1. UNCHANGED <<dir, coll, files>>
      BY <1>2 DEF vars
    <2>2. \A c \in Collections : (LiveOf(c))' = LiveOf(c)
      BY <2>1 DEF LiveOf
    <2> QED
      BY <2>1, <2>2, SameView
  <1> QED
    BY <1>1, <1>2, CollectionStepView, DatabaseStepView DEF Next

\* The engine implements the abstract store, for any number of directories,
\* collections and documents: lazy loads, dirty flags, failing saves, clean
\* collections passed over and crashes inside close are never seen, except that
\* a session's end leaves each collection as the client saw it or as it was.
THEOREM EngineImplementsStore == Durable => (Spec => ImplementsSessionStore)
  <1> SUFFICES ASSUME Durable PROVE Spec => ImplementsSessionStore
    OBVIOUS
  <1>1. Init => Abstract!Init
    BY InitView
  <1>2. SInv /\ [Next]_vars => [Abstract!Next]_(Abstract!vars)
    BY NextView
  <1>3. ~Transfers
    BY DEF Durable, Careful
  <1>4. Spec => []SInv
    BY <1>3, StaysKept
  <1> QED
    BY <1>1, <1>2, <1>4, PTL DEF Spec, ImplementsSessionStore, Abstract!Spec

===============================================================================
