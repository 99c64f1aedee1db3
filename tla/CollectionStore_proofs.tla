------------------------ MODULE CollectionStore_proofs ------------------------
(***************************************************************************)
(* Proofs about CollectionStore, for every value of its constants: the     *)
(* type invariant, and the invariant that ids are fresh, indexes sound and *)
(* unread collections clean.                                               *)
(*                                                                         *)
(* The lemmas say what each helper does to one collection m under a        *)
(* counter n; the theorems put them together over the actions.             *)
(***************************************************************************)
EXTENDS CollectionStore, SequenceTheorems, TLAPS

-----------------------------------------------------------------------------
(* Indexes *)

LEMMA EmptyIndexType == EmptyIndex \in Index
  BY DEF EmptyIndex, Index

LEMMA BlankType ==
  ASSUME NEW s \in Signature
  PROVE  Blank(s) \in Memory
  BY EmptyIndexType DEF Blank, Memory

\* The elements of a sequence of documents are documents.
LEMMA DocsElements ==
  ASSUME NEW docs \in Seq(Doc)
  PROVE  /\ DOMAIN docs = 1..Len(docs) /\ Len(docs) \in Nat
         /\ \A i \in DOMAIN docs : docs[i] \in Doc /\ docs[i].id \in Nat /\ docs[i].keys \in Keys
  <1>1. DOMAIN docs = 1..Len(docs) /\ Len(docs) \in Nat
    BY LenProperties
  <1>2. \A i \in 1..Len(docs) : docs[i] \in Doc
    BY ElementOfSeq
  <1> QED
    BY <1>1, <1>2 DEF Doc

\* Indexing documents yields an index.
LEMMA IndexDocsType ==
  ASSUME NEW idx \in Index, NEW fields \in SUBSET Fields, NEW docs \in Seq(Doc)
  PROVE  IndexDocs(idx, fields, docs) \in Index
  <1> DEFINE Under(f, v) == {docs[i].id : i \in {j \in DOMAIN docs : v \in docs[j].keys[f]}}
             Entry(f, v) == IF f \in fields THEN idx[f][v] \cup Under(f, v) ELSE idx[f][v]
  <1>1. \A i \in DOMAIN docs : docs[i].id \in Nat
    BY DocsElements
  <1>2. \A f \in Fields, v \in Values : Under(f, v) \in SUBSET Nat
    BY <1>1
  <1>3. \A f \in Fields, v \in Values : Entry(f, v) \in SUBSET Nat
    BY <1>2 DEF Index
  <1>4. [f \in Fields |-> [v \in Values |-> Entry(f, v)]] \in Index
    <2> HIDE DEF Entry
    <2> QED
      BY <1>3 DEF Index
  <1> QED
    BY <1>4 DEF IndexDocs

LEMMA UnindexType ==
  ASSUME NEW idx \in Index, NEW id
  PROVE  Unindex(idx, id) \in Index
  BY DEF Unindex, Index

\* The loader never takes an index file: it reads the header in another order
\* than the writer's.
LEMMA HeaderRejected ==
  ASSUME NEW x, NEW m
  PROVE  ~IndexFileAccepted(x, m)
  <1>1. IndexHeaderRead[3] = "name" /\ IndexHeaderWritten[3] = "signature"
    BY DEF IndexHeaderRead, IndexHeaderWritten
  <1>2. IndexHeaderRead # IndexHeaderWritten
    BY <1>1
  <1> QED
    BY <1>2 DEF IndexFileAccepted

-----------------------------------------------------------------------------
(* Loading *)

Outcome == [ok: BOOLEAN, m: Memory, seen: SUBSET Nat, hurt: BOOLEAN, xf: IndexFile]

LEMMA IdsType ==
  ASSUME NEW docs \in Seq(Doc)
  PROVE  Ids(docs) \in SUBSET Nat
  <1>1. \A i \in DOMAIN docs : docs[i].id \in Nat
    BY DocsElements
  <1> QED
    BY <1>1 DEF Ids

LEMMA WithDocsType ==
  ASSUME NEW m \in Memory, NEW f \in File, f # NoFile, NEW n \in 0..Len(f.docs)
  PROVE  /\ WithDocs(m, f, n) \in Memory
         /\ SubSeq(f.docs, 1, n) \in Seq(Doc)
         /\ WithDocs(m, f, n) = [m EXCEPT !.docs = m.docs \o SubSeq(f.docs, 1, n)]
  <1>1. f.docs \in Seq(Doc) /\ m.docs \in Seq(Doc)
    BY DEF File, Contents, Memory
  <1>2. SubSeq(f.docs, 1, n) \in Seq(Doc)
    BY <1>1, SubSeqProperties
  <1>3. m.docs \o SubSeq(f.docs, 1, n) \in Seq(Doc)
    BY <1>1, <1>2, ConcatProperties
  <1> QED
    BY <1>2, <1>3 DEF WithDocs, Memory

LEMMA LoadStopsType ==
  ASSUME NEW m \in Memory, NEW f \in File, f # NoFile, NEW x \in IndexFile,
         NEW o \in LoadStops(m, f, x)
  PROVE  o \in Outcome
  <1>1. PICK n \in 0..Len(f.docs), h \in BOOLEAN :
          o = [ok |-> FALSE, m |-> WithDocs(m, f, n), seen |-> Ids(SubSeq(f.docs, 1, n)),
               hurt |-> h, xf |-> x]
    BY DEF LoadStops
  <1> QED
    BY <1>1, WithDocsType, IdsType DEF Outcome

\* What makes one collection good under a counter n.
Good(m, n) == Numbered(m, n) /\ Distinct(m) /\ Sound(m) /\ (m.dirty => m.loaded)

LEMMA GoodLater ==
  ASSUME NEW m \in Memory, NEW n \in Nat, NEW t \in Nat, n <= t, Good(m, n)
  PROVE  Good(m, t)
  <1>1. m.docs \in Seq(Doc)
    BY DEF Memory
  <1>2. \A i \in DOMAIN m.docs : m.docs[i].id \in Nat
    BY <1>1, DocsElements
  <1> QED
    BY <1>2 DEF Good, Numbered

\* Concatenation, place by place.
LEMMA ConcatDocs ==
  ASSUME NEW a \in Seq(Doc), NEW b \in Seq(Doc)
  PROVE  /\ a \o b \in Seq(Doc)
         /\ Len(a) \in Nat /\ Len(b) \in Nat
         /\ DOMAIN a = 1..Len(a) /\ DOMAIN b = 1..Len(b)
         /\ DOMAIN (a \o b) = 1..(Len(a) + Len(b))
         /\ \A i \in 1..Len(a) : (a \o b)[i] = a[i]
         /\ \A i \in 1..(Len(a) + Len(b)) :
              i > Len(a) => i - Len(a) \in 1..Len(b) /\ (a \o b)[i] = b[i - Len(a)]
  <1>1. Len(a) \in Nat /\ Len(b) \in Nat /\ DOMAIN a = 1..Len(a) /\ DOMAIN b = 1..Len(b)
    BY LenProperties
  <1>2. /\ a \o b \in Seq(Doc) /\ Len(a \o b) = Len(a) + Len(b)
        /\ \A i \in 1..(Len(a) + Len(b)) :
             (a \o b)[i] = IF i <= Len(a) THEN a[i] ELSE b[i - Len(a)]
    BY ConcatProperties
  <1>3. DOMAIN (a \o b) = 1..(Len(a) + Len(b))
    BY <1>2, LenProperties
  <1>4. \A i \in 1..Len(a) : (a \o b)[i] = a[i]
    BY <1>1, <1>2
  <1>5. \A i \in 1..(Len(a) + Len(b)) :
          i > Len(a) => i - Len(a) \in 1..Len(b) /\ (a \o b)[i] = b[i - Len(a)]
    BY <1>1, <1>2
  <1> QED
    BY <1>1, <1>2, <1>3, <1>4, <1>5

\* Two sequences without repeated ids and without a common id make one.
LEMMA ConcatDistinct ==
  ASSUME NEW a \in Seq(Doc), NEW b \in Seq(Doc),
         \A i, j \in DOMAIN a : a[i].id = a[j].id => i = j,
         \A i, j \in DOMAIN b : b[i].id = b[j].id => i = j,
         \A i \in DOMAIN a, j \in DOMAIN b : a[i].id # b[j].id
  PROVE  \A i, j \in DOMAIN (a \o b) : (a \o b)[i].id = (a \o b)[j].id => i = j
  <1> DEFINE D == a \o b
             N == Len(a)
  <1>0. /\ N \in Nat /\ Len(b) \in Nat
        /\ DOMAIN a = 1..N /\ DOMAIN b = 1..Len(b) /\ DOMAIN D = 1..(N + Len(b))
        /\ \A i \in 1..N : D[i] = a[i]
        /\ \A i \in 1..(N + Len(b)) : i > N => i - N \in 1..Len(b) /\ D[i] = b[i - N]
    BY ConcatDocs
  <1> HIDE DEF D, N
  <1> SUFFICES ASSUME NEW i \in DOMAIN D, NEW j \in DOMAIN D, D[i].id = D[j].id
               PROVE  i = j
    BY DEF D
  <1>1. i \in Int /\ j \in Int /\ i \in 1..(N + Len(b)) /\ j \in 1..(N + Len(b))
    BY <1>0
  <1>2. CASE i <= N /\ j <= N
    <2>1. i \in DOMAIN a /\ j \in DOMAIN a /\ D[i] = a[i] /\ D[j] = a[j]
      BY <1>0, <1>1, <1>2
    <2> QED
      BY <2>1
  <1>3. CASE i > N /\ j <= N
    <2>1. i - N \in DOMAIN b /\ j \in DOMAIN a /\ D[i] = b[i - N] /\ D[j] = a[j]
      BY <1>0, <1>1, <1>3
    <2> QED
      BY <2>1
  <1>4. CASE i <= N /\ j > N
    <2>1. i \in DOMAIN a /\ j - N \in DOMAIN b /\ D[i] = a[i] /\ D[j] = b[j - N]
      BY <1>0, <1>1, <1>4
    <2> QED
      BY <2>1
  <1>5. CASE i > N /\ j > N
    <2>1. i - N \in DOMAIN b /\ j - N \in DOMAIN b /\ D[i] = b[i - N] /\ D[j] = b[j - N]
      BY <1>0, <1>1, <1>5
    <2>2. i - N = j - N
      BY <2>1
    <2> QED
      BY <1>0, <1>1, <2>2
  <1> QED
    BY <1>0, <1>1, <1>2, <1>3, <1>4, <1>5

\* Soundness speaks of which documents there are, not of where they stand.
LEMMA SoundMore ==
  ASSUME NEW m, NEW w, Sound(m), w.idx = m.idx,
         \A i \in DOMAIN m.docs : \E j \in DOMAIN w.docs : w.docs[j] = m.docs[i]
  PROVE  Sound(w)
  <1> SUFFICES ASSUME NEW g \in Fields, NEW v \in Values, NEW id \in m.idx[g][v]
               PROVE  \E j \in DOMAIN w.docs : w.docs[j].id = id /\ v \in w.docs[j].keys[g]
    BY DEF Sound
  <1>1. PICK i \in DOMAIN m.docs : m.docs[i].id = id /\ v \in m.docs[i].keys[g]
    BY DEF Sound
  <1>2. PICK j \in DOMAIN w.docs : w.docs[j] = m.docs[i]
    OBVIOUS
  <1> QED
    BY <1>1, <1>2

\* Appending the documents of a file that do not clash keeps a collection good
\* once the counter is as high as their ids.
LEMMA AppendedGood ==
  ASSUME NEW m \in Memory, NEW f \in File, f # NoFile, NEW n \in 0..Len(f.docs),
         NoClash(m, f, n), NEW k \in Nat, NEW t \in Nat, k <= t, Good(m, k),
         \A id \in Ids(SubSeq(f.docs, 1, n)) : id <= t
  PROVE  Good(WithDocs(m, f, n), t)
  <1> DEFINE a == m.docs
             b == SubSeq(f.docs, 1, n)
             w == WithDocs(m, f, n)
  <1>1. a \in Seq(Doc) /\ f.docs \in Seq(Doc) /\ Len(f.docs) \in Nat
    BY LenProperties DEF Memory, File, Contents
  <1>2. b \in Seq(Doc) /\ DOMAIN b = 1..n /\ \A i \in 1..n : b[i] = f.docs[i]
    <2>1. \A i \in 1..n : f.docs[i] \in Doc
      BY <1>1, ElementOfSeq
    <2>2. b \in Seq(Doc) /\ Len(b) = n /\ \A i \in 1..n : b[i] = f.docs[i]
      BY <2>1, SubSeqProperties
    <2> QED
      BY <2>2, LenProperties
  <1>3. w.docs = a \o b /\ w.idx = m.idx /\ w.dirty = m.dirty /\ w.loaded = m.loaded
    BY DEF WithDocs, Memory
  <1>4. \A i \in DOMAIN a : a[i].id <= t
    BY GoodLater DEF Good, Numbered
  <1>5. \A i \in DOMAIN b : b[i].id <= t
    BY DEF Ids
  <1>6. \A i, j \in DOMAIN a : a[i].id = a[j].id => i = j
    BY DEF Good, Distinct
  <1>7. \A i, j \in DOMAIN b : b[i].id = b[j].id => i = j
    <2>1. \A i \in 1..n : \A j \in 1..(i - 1) : f.docs[j].id # f.docs[i].id
      BY DEF NoClash
    <2> SUFFICES ASSUME NEW i \in 1..n, NEW j \in 1..n, f.docs[i].id = f.docs[j].id
                 PROVE  i = j
      BY <1>2
    <2>2. ~(j < i) /\ ~(i < j)
      BY <2>1
    <2> QED
      BY <2>2
  <1>8. \A i \in DOMAIN a, j \in DOMAIN b : a[i].id # b[j].id
    BY <1>2 DEF NoClash, Ids
  <1> HIDE DEF a, b, w
  <1>9. \A i \in DOMAIN (a \o b) :
          \/ i \in DOMAIN a /\ (a \o b)[i] = a[i]
          \/ \E j \in DOMAIN b : (a \o b)[i] = b[j]
    <2> TAKE i \in DOMAIN (a \o b)
    <2>1. i \in 1..(Len(a) + Len(b)) /\ Len(a) \in Nat
      BY <1>1, <1>2, ConcatDocs
    <2>2. CASE i <= Len(a)
      BY <1>1, <1>2, <2>1, <2>2, ConcatDocs
    <2>3. CASE i > Len(a)
      <3>1. i - Len(a) \in DOMAIN b /\ (a \o b)[i] = b[i - Len(a)]
        BY <1>1, <1>2, <2>1, <2>3, ConcatDocs
      <3> QED
        BY <3>1
    <2> QED
      BY <2>1, <2>2, <2>3
  <1>10. Numbered(w, t)
    BY <1>3, <1>4, <1>5, <1>9 DEF Numbered
  <1>11. Distinct(w)
    <2>1. \A i, j \in DOMAIN (a \o b) : (a \o b)[i].id = (a \o b)[j].id => i = j
      BY <1>1, <1>2, <1>6, <1>7, <1>8, ConcatDistinct
    <2> QED
      BY <1>3, <2>1 DEF Distinct
  <1>12. Sound(w)
    <2>1. \A i \in DOMAIN a : i \in DOMAIN (a \o b) /\ (a \o b)[i] = a[i]
      BY <1>1, <1>2, ConcatDocs
    <2>2. \A i \in DOMAIN m.docs : \E j \in DOMAIN w.docs : w.docs[j] = m.docs[i]
      BY <1>3, <2>1 DEF a
    <2>3. Sound(m)
      BY DEF Good
    <2> QED
      BY <1>3, <2>2, <2>3, SoundMore
  <1> QED
    BY <1>3, <1>10, <1>11, <1>12 DEF Good, w

\* What is in an index after documents were indexed was there, or is one of them.
LEMMA IndexDocsEntries ==
  ASSUME NEW idx \in Index, NEW fields \in SUBSET Fields, NEW docs \in Seq(Doc),
         NEW f \in Fields, NEW v \in Values, NEW id \in IndexDocs(idx, fields, docs)[f][v]
  PROVE  \/ id \in idx[f][v]
         \/ \E i \in DOMAIN docs : docs[i].id = id /\ v \in docs[i].keys[f]
  BY DEF IndexDocs

\* Indexing documents of a collection, or some of their keys, leaves it sound.
LEMMA IndexDocsSound ==
  ASSUME NEW m \in Memory, NEW w, Sound(m), NEW docs \in Seq(Doc),
         w.docs = m.docs, w.idx = IndexDocs(m.idx, m.fields, docs),
         \A i \in DOMAIN docs : \E j \in DOMAIN m.docs :
           m.docs[j].id = docs[i].id /\ \A f \in Fields : docs[i].keys[f] \subseteq m.docs[j].keys[f]
  PROVE  Sound(w)
  <1> SUFFICES ASSUME NEW g \in Fields, NEW v \in Values, NEW id \in w.idx[g][v]
               PROVE  \E j \in DOMAIN m.docs : m.docs[j].id = id /\ v \in m.docs[j].keys[g]
    BY DEF Sound
  <1>1. \/ id \in m.idx[g][v]
        \/ \E i \in DOMAIN docs : docs[i].id = id /\ v \in docs[i].keys[g]
    BY IndexDocsEntries DEF Memory
  <1>2. CASE id \in m.idx[g][v]
    BY <1>2 DEF Sound
  <1>3. CASE \E i \in DOMAIN docs : docs[i].id = id /\ v \in docs[i].keys[g]
    BY <1>3
  <1> QED
    BY <1>1, <1>2, <1>3

\* The index rebuilt from all documents.
LEMMA RebuiltGood ==
  ASSUME NEW m \in Memory, NEW n \in Nat, Good(m, n)
  PROVE  /\ Loaded(IndexRebuilt(m)) \in Memory
         /\ IndexFileOf(IndexRebuilt(m)) \in IndexFile
         /\ Good(Loaded(IndexRebuilt(m)), n)
  <1> DEFINE w == Loaded(IndexRebuilt(m))
             x == IndexDocs(m.idx, m.fields, m.docs)
  <1>1. m.docs \in Seq(Doc) /\ x \in Index
    BY IndexDocsType DEF Memory
  <1>2. IndexRebuilt(m) = [m EXCEPT !.idx = x] /\ IndexRebuilt(m) \in Memory
    BY <1>1 DEF IndexRebuilt, Memory
  <1>3. w \in Memory /\ w.docs = m.docs /\ w.idx = x /\ w.loaded = TRUE
    BY <1>1, <1>2 DEF Loaded, Memory
  <1>4. Sound(w)
    <2>1. Sound(m)
      BY DEF Good
    <2>2. \A i \in DOMAIN m.docs : \E j \in DOMAIN m.docs :
            m.docs[j].id = m.docs[i].id /\ \A f \in Fields : m.docs[i].keys[f] \subseteq m.docs[j].keys[f]
      OBVIOUS
    <2> HIDE DEF w
    <2> QED
      BY <1>1, <1>3, <2>1, <2>2, IndexDocsSound
  <1>5. IndexFileOf(IndexRebuilt(m)) \in IndexFile
    BY <1>1, <1>2 DEF IndexFileOf, IndexFile, Memory
  <1> QED
    BY <1>3, <1>4, <1>5 DEF Good, Numbered, Distinct

\* The documents a rebuild that gave up on document k has indexed.
UpTo(m, k, part) == Append(SubSeq(m.docs, 1, k - 1), [m.docs[k] EXCEPT !.keys = part])

LEMMA GivenUpDocs ==
  ASSUME NEW m \in Memory, NEW k \in DOMAIN m.docs, NEW part \in Partial(m.docs[k].keys)
  PROVE  /\ UpTo(m, k, part) \in Seq(Doc)
         /\ \A i \in DOMAIN UpTo(m, k, part) : \E j \in DOMAIN m.docs :
              /\ m.docs[j].id = UpTo(m, k, part)[i].id
              /\ \A f \in Fields : UpTo(m, k, part)[i].keys[f] \subseteq m.docs[j].keys[f]
  <1> DEFINE first == SubSeq(m.docs, 1, k - 1)
             d == [m.docs[k] EXCEPT !.keys = part]
             docs == Append(first, d)
  <1>1. m.docs \in Seq(Doc) /\ k \in 1..Len(m.docs) /\ Len(m.docs) \in Nat
    BY LenProperties DEF Memory
  <1>2. first \in Seq(Doc) /\ Len(first) = k - 1 /\ \A i \in 1..(k - 1) : first[i] = m.docs[i]
    <2>1. \A i \in 1..(k - 1) : m.docs[i] \in Doc
      BY <1>1, ElementOfSeq
    <2> QED
      BY <1>1, <2>1, SubSeqProperties
  <1>3. d \in Doc /\ d.id = m.docs[k].id /\ \A f \in Fields : d.keys[f] \subseteq m.docs[k].keys[f]
    <2>1. m.docs[k] \in Doc
      BY <1>1, ElementOfSeq
    <2> QED
      BY <2>1 DEF Doc, Partial
  <1>4. /\ docs \in Seq(Doc) /\ DOMAIN docs = 1..k
        /\ \A i \in 1..(k - 1) : docs[i] = m.docs[i]
        /\ docs[k] = d
    <2> HIDE DEF first, d
    <2> QED
      BY <1>1, <1>2, <1>3
  <1> HIDE DEF first, d, docs
  <1>5. \A i \in DOMAIN docs : \E j \in DOMAIN m.docs :
          m.docs[j].id = docs[i].id /\ \A f \in Fields : docs[i].keys[f] \subseteq m.docs[j].keys[f]
    <2> TAKE i \in DOMAIN docs
    <2>1. CASE i = k
      BY <1>3, <1>4, <2>1
    <2>2. CASE i # k
      <3>1. i \in 1..(k - 1)
        BY <1>1, <1>4, <2>2
      <3>2. i \in DOMAIN m.docs /\ docs[i] = m.docs[i]
        BY <1>1, <1>4, <3>1, LenProperties
      <3> QED
        BY <3>2
    <2> QED
      BY <2>1, <2>2
  <1> QED
    BY <1>4, <1>5 DEF docs, first, d, UpTo

\* The collection after such a rebuild.
LEMMA GivenUpGood ==
  ASSUME NEW m \in Memory, NEW k \in DOMAIN m.docs, NEW part \in Partial(m.docs[k].keys)
  PROVE  LET w == [m EXCEPT !.idx = IndexDocs(@, m.fields, UpTo(m, k, part))]
         IN  w \in Memory /\ \A n \in Nat : Good(m, n) => Good(w, n)
  <1> DEFINE docs == UpTo(m, k, part)
             w == [m EXCEPT !.idx = IndexDocs(@, m.fields, docs)]
  <1>1. docs \in Seq(Doc)
    BY GivenUpDocs
  <1>2. IndexDocs(m.idx, m.fields, docs) \in Index
    BY <1>1, IndexDocsType DEF Memory
  <1>3. /\ w \in Memory /\ w.docs = m.docs /\ w.idx = IndexDocs(m.idx, m.fields, docs)
        /\ w.dirty = m.dirty /\ w.loaded = m.loaded
    <2> HIDE DEF docs
    <2> QED
      BY <1>2 DEF Memory
  <1>4. ASSUME Sound(m) PROVE Sound(w)
    <2> HIDE DEF w
    <2> QED
      BY <1>1, <1>3, <1>4, GivenUpDocs, IndexDocsSound DEF docs
  <1>5. \A n \in Nat : Good(m, n) => Good(w, n)
    BY <1>3, <1>4 DEF Good, Numbered, Distinct
  <1> QED
    BY <1>3, <1>5

\* Every outcome of a load is one of a good collection, under a counter raised
\* over the ids it has seen.
LEMMA LoadGood ==
  ASSUME NEW m \in Memory, NEW f \in File, NEW x \in IndexFile,
         NEW o \in LoadOutcomes(m, f, x), NEW n \in Nat, Good(m, n)
  PROVE  /\ o \in Outcome
         /\ o.ok => o.m.loaded
         /\ \A t \in Nat : n <= t /\ (\A id \in o.seen : id <= t) => Good(o.m, t)
  <1>1. CASE f = NoFile \/ f.schema # m.schema
    <2>1. o = [ok |-> FALSE, m |-> m, seen |-> {}, hurt |-> FALSE, xf |-> x]
      BY <1>1 DEF LoadOutcomes
    <2> QED
      BY <2>1, GoodLater DEF Outcome
  <1>2. ASSUME f # NoFile, o \in LoadStops(m, f, x)
        PROVE  /\ o \in Outcome
               /\ o.ok => o.m.loaded
               /\ \A t \in Nat : n <= t /\ (\A id \in o.seen : id <= t) => Good(o.m, t)
    <2>1. PICK k \in 0..Len(f.docs), h \in BOOLEAN :
            /\ StopsAt(m, f, k, h)
            /\ o = [ok |-> FALSE, m |-> WithDocs(m, f, k), seen |-> Ids(SubSeq(f.docs, 1, k)),
                    hurt |-> h, xf |-> x]
      BY <1>2 DEF LoadStops
    <2>2. NoClash(m, f, k)
      BY <2>1 DEF StopsAt
    <2>3. \A t \in Nat : n <= t /\ (\A id \in Ids(SubSeq(f.docs, 1, k)) : id <= t)
            => Good(WithDocs(m, f, k), t)
      BY <1>2, <2>2, AppendedGood
    <2> QED
      BY <1>2, <2>1, <2>3, LoadStopsType
  <1>3. ASSUME f # NoFile, NoClash(m, f, Len(f.docs)),
               o \in LoadCompletes(WithDocs(m, f, Len(f.docs)), Ids(f.docs), x)
                     \cup RebuildStops(WithDocs(m, f, Len(f.docs)), Ids(f.docs), x)
        PROVE  /\ o \in Outcome
               /\ o.ok => o.m.loaded
               /\ \A t \in Nat : n <= t /\ (\A id \in o.seen : id <= t) => Good(o.m, t)
    <2> DEFINE all == WithDocs(m, f, Len(f.docs))
    <2>1. f.docs \in Seq(Doc) /\ Len(f.docs) \in 0..Len(f.docs)
      BY <1>3, LenProperties DEF File, Contents
    <2>2. SubSeq(f.docs, 1, Len(f.docs)) = f.docs
      BY <2>1, SubSeqFull
    <2>3. all \in Memory /\ Ids(f.docs) \in SUBSET Nat
      BY <1>3, <2>1, WithDocsType, IdsType
    <2>4. \A t \in Nat : n <= t /\ (\A id \in Ids(f.docs) : id <= t) => Good(all, t)
      BY <1>3, <2>1, <2>2, AppendedGood
    <2> HIDE DEF all
    <2>6. CASE o \in LoadCompletes(all, Ids(f.docs), x)
      <3>1. CASE all.fields = {}
        <4>1. o = [ok |-> TRUE, m |-> Loaded(all), seen |-> Ids(f.docs), hurt |-> FALSE, xf |-> x]
          BY <2>6, <3>1 DEF LoadCompletes
        <4>2. Loaded(all) \in Memory /\ Loaded(all).loaded
          BY <2>3 DEF Loaded, Memory
        <4>3. ASSUME NEW t \in Nat, Good(all, t)
              PROVE  Good(Loaded(all), t)
          BY <2>3, <4>3 DEF Good, Numbered, Distinct, Sound, Loaded, Memory
        <4> QED
          BY <2>3, <2>4, <4>1, <4>2, <4>3 DEF Outcome
      <3>2. CASE all.fields # {}
        <4>1. PICK y \in {IndexFileOf(IndexRebuilt(all)), x} :
                o = [ok |-> TRUE, m |-> Loaded(IndexRebuilt(all)), seen |-> Ids(f.docs),
                     hurt |-> FALSE, xf |-> y]
          BY <2>6, <3>2, HeaderRejected DEF LoadCompletes
        <4>2. /\ Loaded(IndexRebuilt(all)) \in Memory
              /\ Loaded(IndexRebuilt(all)).loaded
              /\ y \in IndexFile
          <5>1. IndexDocs(all.idx, all.fields, all.docs) \in Index
            BY <2>3, IndexDocsType DEF Memory
          <5>2. IndexRebuilt(all) \in Memory
            BY <2>3, <5>1 DEF IndexRebuilt, Memory
          <5>3. Loaded(IndexRebuilt(all)) \in Memory /\ Loaded(IndexRebuilt(all)).loaded
            BY <5>2 DEF Loaded, Memory
          <5>4. IndexFileOf(IndexRebuilt(all)) \in IndexFile
            BY <5>2 DEF Memory, IndexFileOf, IndexFile
          <5> QED
            BY <5>3, <5>4, <4>1
        <4>3. \A t \in Nat : Good(all, t) => Good(Loaded(IndexRebuilt(all)), t)
          BY <2>3, RebuiltGood
        <4> QED
          BY <2>3, <2>4, <4>1, <4>2, <4>3 DEF Outcome
      <3> QED
        BY <3>1, <3>2
    <2>7. CASE o \in RebuildStops(all, Ids(f.docs), x)
      <3>1. PICK k \in DOMAIN all.docs : \E part \in Partial(all.docs[k].keys) :
              o = [ok |-> FALSE, seen |-> Ids(f.docs), hurt |-> FALSE, xf |-> x,
                   m |-> [all EXCEPT !.idx = IndexDocs(@, all.fields, UpTo(all, k, part))]]
        BY <2>7 DEF RebuildStops, UpTo
      <3>2. PICK part \in Partial(all.docs[k].keys) :
              o = [ok |-> FALSE, seen |-> Ids(f.docs), hurt |-> FALSE, xf |-> x,
                   m |-> [all EXCEPT !.idx = IndexDocs(@, all.fields, UpTo(all, k, part))]]
        BY <3>1
      <3>3. o.m \in Memory /\ \A t \in Nat : Good(all, t) => Good(o.m, t)
        BY <2>3, <3>2, GivenUpGood
      <3> QED
        BY <2>3, <2>4, <3>2, <3>3 DEF Outcome
    <2> QED
      BY <1>3, <2>6, <2>7 DEF all
  <1> QED
    BY <1>1, <1>2, <1>3 DEF LoadOutcomes

\* The document counter after a load.
LEMMA RaisedAbove ==
  ASSUME NEW n \in Nat, NEW seen \in SUBSET Nat, NEW t \in Raised(n, seen)
  PROVE  t \in Nat /\ n <= t /\ \A id \in seen : id <= t
  BY DEF Raised

\* The same for ensure_collection_loaded, which adds that a collection it
\* returned successfully for is loaded.
LEMMA EnsureGood ==
  ASSUME TypeOK, NEW c \in Collections, NEW d \in Dirs \cup {NoDir},
         NEW o \in EnsureOutcomes(coll[c], d, c), Good(coll[c], counter)
  PROVE  /\ o \in Outcome
         /\ o.ok => o.m.loaded
         /\ \A t \in Nat : counter <= t /\ (\A id \in o.seen : id <= t) => Good(o.m, t)
  <1> DEFINE m == coll[c]
             same == [ok |-> TRUE, m |-> m, seen |-> {}, hurt |-> FALSE, xf |-> NoFile]
             w == [m EXCEPT !.loaded = TRUE]
  <1>1. /\ m \in Memory /\ counter \in Nat
        /\ d # NoDir => files[d][c] \in File /\ idxFiles[d][c] \in IndexFile
    BY DEF TypeOK
  <1>2. w \in Memory /\ w.loaded /\ Good(w, counter)
    BY <1>1 DEF Memory, Good, Numbered, Distinct, Sound
  <1>3. CASE d = NoDir \/ m.loaded \/ files[d][c] = NoFile
    <2>1. PICK x \in IndexFile, y \in {m, w} :
            /\ o = [ok |-> TRUE, m |-> y, seen |-> {}, hurt |-> FALSE, xf |-> x]
            /\ y = w \/ m.loaded
      <3>1. CASE d = NoDir
        <4>1. o = [ok |-> TRUE, m |-> w, seen |-> {}, hurt |-> FALSE, xf |-> NoFile]
          BY <3>1 DEF EnsureOutcomes
        <4> QED
          BY <4>1 DEF IndexFile
      <3>2. CASE d # NoDir /\ m.loaded
        <4>1. o = [ok |-> TRUE, m |-> m, seen |-> {}, hurt |-> FALSE, xf |-> idxFiles[d][c]]
          BY <3>2 DEF EnsureOutcomes
        <4> QED
          BY <4>1, <3>2, <1>1
      <3>3. CASE d # NoDir /\ ~m.loaded /\ files[d][c] = NoFile
        <4>1. o = [ok |-> TRUE, m |-> w, seen |-> {}, hurt |-> FALSE, xf |-> idxFiles[d][c]]
          BY <3>3 DEF EnsureOutcomes
        <4> QED
          BY <4>1, <3>3, <1>1
      <3> QED
        BY <1>3, <3>1, <3>2, <3>3
    <2> HIDE DEF m, w
    <2>2. o \in Outcome /\ o.m.loaded
      BY <1>1, <1>2, <2>1 DEF Outcome
    <2>3. Good(o.m, counter) /\ o.m \in Memory
      BY <1>1, <1>2, <2>1 DEF m
    <2>4. \A t \in Nat : counter <= t => Good(o.m, t)
      BY <1>1, <2>3, GoodLater
    <2> QED
      BY <2>2, <2>4
  <1>4. CASE ~(d = NoDir \/ m.loaded \/ files[d][c] = NoFile)
    <2>1. o \in LoadOutcomes(m, files[d][c], idxFiles[d][c])
      BY <1>4 DEF EnsureOutcomes
    <2> HIDE DEF m
    <2>2. /\ o \in Outcome
          /\ o.ok => o.m.loaded
          /\ \A t \in Nat : counter <= t /\ (\A id \in o.seen : id <= t) => Good(o.m, t)
      BY <1>1, <1>4, <2>1, LoadGood DEF m
    <2> QED
      BY <2>2
  <1> QED
    BY <1>3, <1>4

-----------------------------------------------------------------------------
(* Puts and deletes *)

\* A document numbered above all others, appended and indexed.
LEMMA PutGood ==
  ASSUME NEW m \in Memory, NEW n \in Nat, Good(m, n), m.loaded, NEW keys \in Keys
  PROVE  LET doc == [id |-> n + 1, keys |-> keys]
             w == [m EXCEPT !.docs = Append(@, doc), !.dirty = TRUE,
                            !.idx = IndexDocs(@, m.fields, <<doc>>)]
         IN  w \in Memory /\ Good(w, n + 1)
  <1> DEFINE doc == [id |-> n + 1, keys |-> keys]
             x == IndexDocs(m.idx, m.fields, <<doc>>)
             N == Len(m.docs)
             D == Append(m.docs, doc)
             v == [m EXCEPT !.docs = D]
             w == [m EXCEPT !.docs = D, !.dirty = TRUE, !.idx = x]
  <1>1. doc \in Doc /\ doc.id = n + 1 /\ <<doc>> \in Seq(Doc)
    BY DEF Doc
  <1>2. x \in Index
    BY <1>1, IndexDocsType DEF Memory
  <1>3. /\ m.docs \in Seq(Doc) /\ N \in Nat /\ DOMAIN m.docs = 1..N
        /\ \A i \in 1..N : m.docs[i].id \in Nat
    BY DocsElements DEF Memory
  <1>4. /\ D \in Seq(Doc) /\ DOMAIN D = 1..(N + 1)
        /\ \A i \in 1..N : D[i] = m.docs[i]
        /\ D[N + 1] = doc
    <2> HIDE DEF doc
    <2>1. /\ D \in Seq(Doc) /\ Len(D) = N + 1 /\ D[N + 1] = doc
          /\ \A i \in 1..N : D[i] = m.docs[i]
      BY <1>1, <1>3, AppendProperties
    <2> QED
      BY <2>1, LenProperties
  <1> HIDE DEF D, N, x
  <1>5. /\ w \in Memory /\ w.docs = D /\ w.idx = x /\ w.loaded
        /\ v.docs = D /\ v.idx = m.idx /\ v.fields = m.fields /\ v \in Memory
    BY <1>2, <1>4 DEF Memory
  <1> HIDE DEF doc, v, w
  <1>6. Numbered(w, n + 1)
    <2> SUFFICES ASSUME NEW i \in 1..(N + 1) PROVE D[i].id <= n + 1
      BY <1>4, <1>5 DEF Numbered
    <2>1. CASE i = N + 1
      BY <1>1, <1>4, <2>1
    <2>2. CASE i \in 1..N
      <3>1. D[i].id \in Nat /\ D[i].id <= n
        BY <1>3, <1>4, <2>2 DEF Good, Numbered
      <3> QED
        BY <3>1
    <2> QED
      BY <1>3, <2>1, <2>2
  <1>7. Distinct(w)
    <2>1. \A i \in 1..N : D[i].id \in Nat /\ D[i].id <= n
      BY <1>3, <1>4 DEF Good, Numbered
    <2>2. D[N + 1].id = n + 1
      BY <1>1, <1>4
    <2>3. \A i, j \in 1..N : D[i].id = D[j].id => i = j
      BY <1>3, <1>4 DEF Good, Distinct
    <2> SUFFICES ASSUME NEW i \in 1..(N + 1), NEW j \in 1..(N + 1), D[i].id = D[j].id
                 PROVE  i = j
      BY <1>4, <1>5 DEF Distinct
    <2>4. (i \in 1..N \/ i = N + 1) /\ (j \in 1..N \/ j = N + 1)
      BY <1>3
    <2>5. \A k \in 1..N : D[k].id # n + 1
      BY <2>1
    <2> QED
      BY <2>2, <2>3, <2>4, <2>5
  <1>8. Sound(v)
    <2>1. \A i \in DOMAIN m.docs : i \in DOMAIN D /\ D[i] = m.docs[i]
      BY <1>3, <1>4
    <2>2. \A i \in DOMAIN m.docs : \E j \in DOMAIN v.docs : v.docs[j] = m.docs[i]
      BY <2>1, <1>5
    <2>3. Sound(m)
      BY DEF Good
    <2> QED
      BY <1>5, <2>2, <2>3, SoundMore
  <1>9. Sound(w)
    <2> DEFINE one == <<doc>>
    <2>1. DOMAIN one = {1} /\ one[1] = doc /\ one \in Seq(Doc)
      BY <1>1
    <2>2. N + 1 \in DOMAIN v.docs /\ v.docs[N + 1] = doc
      BY <1>3, <1>4, <1>5
    <2>3. w.idx = IndexDocs(v.idx, v.fields, one) /\ w.docs = v.docs
      BY <1>5 DEF x
    <2> HIDE DEF one
    <2>4. \A i \in DOMAIN one : \E j \in DOMAIN v.docs :
            v.docs[j].id = one[i].id /\ \A f \in Fields : one[i].keys[f] \subseteq v.docs[j].keys[f]
      BY <2>1, <2>2
    <2> QED
      BY <1>5, <1>8, <2>1, <2>3, <2>4, IndexDocsSound
  <1> QED
    BY <1>5, <1>6, <1>7, <1>9 DEF Good, w, D, doc, x

\* A put that gave up after indexing part of the keys and took them back.
LEMMA PutNotIndexedGood ==
  ASSUME NEW m \in Memory, NEW n \in Nat, Good(m, n), m.loaded, NEW part \in Keys
  PROVE  LET w == [m EXCEPT !.dirty = TRUE,
                            !.idx = Unindex(IndexDocs(@, m.fields, <<[id |-> n + 1, keys |-> part]>>),
                                            n + 1)]
         IN  w \in Memory /\ Good(w, n + 1)
  <1> DEFINE doc == [id |-> n + 1, keys |-> part]
             one == <<doc>>
             y == IndexDocs(m.idx, m.fields, one)
             x == Unindex(y, n + 1)
             w == [m EXCEPT !.dirty = TRUE, !.idx = x]
  <1>1. one \in Seq(Doc) /\ \A i \in DOMAIN one : one[i].id = n + 1
    BY DEF Doc
  <1>2. y \in Index /\ x \in Index
    BY <1>1, IndexDocsType, UnindexType DEF Memory
  <1>3. \A f \in Fields, v \in Values : x[f][v] = y[f][v] \ {n + 1}
    BY DEF Unindex
  <1> HIDE DEF one
  <1>4. \A f \in Fields, v \in Values : \A id \in y[f][v] : id \in m.idx[f][v] \/ id = n + 1
    BY <1>1, IndexDocsEntries DEF Memory
  <1> HIDE DEF x, y
  <1>5. /\ w \in Memory /\ w.docs = m.docs /\ w.idx = x /\ w.loaded
    BY <1>2 DEF Memory
  <1> HIDE DEF w
  <1>6. Sound(w)
    <2> SUFFICES ASSUME NEW f \in Fields, NEW v \in Values, NEW id \in x[f][v]
                 PROVE  \E i \in DOMAIN m.docs : m.docs[i].id = id /\ v \in m.docs[i].keys[f]
      BY <1>5 DEF Sound
    <2>1. id \in m.idx[f][v]
      BY <1>3, <1>4
    <2> QED
      BY <2>1 DEF Good, Sound
  <1>7. Good(m, n + 1)
    BY GoodLater
  <1> QED
    BY <1>5, <1>6, <1>7 DEF Good, Numbered, Distinct, w, x, y, one

\* The documents without one: it is gone, the others keep their order.
LEMMA WithoutAtDocs ==
  ASSUME NEW docs \in Seq(Doc), NEW p \in DOMAIN docs
  PROVE  /\ WithoutAt(docs, p) \in Seq(Doc)
         /\ DOMAIN WithoutAt(docs, p) = 1..(Len(docs) - 1)
         /\ \A i \in 1..(Len(docs) - 1) :
              LET j == IF i < p THEN i ELSE i + 1
              IN  j \in DOMAIN docs /\ j # p /\ WithoutAt(docs, p)[i] = docs[j]
  <1>1. Len(docs) \in Nat /\ DOMAIN docs = 1..Len(docs) /\ p \in 1..Len(docs)
        /\ \A i \in 1..Len(docs) : docs[i] \in Doc
    BY LenProperties, ElementOfSeq
  <1>2. Len(docs) - 1 \in Nat
    BY <1>1
  <1>3. \A i \in 1..(Len(docs) - 1) : i \in 1..Len(docs) /\ i + 1 \in 1..Len(docs)
    BY <1>1
  <1>4. WithoutAt(docs, p) \in [1..(Len(docs) - 1) -> Doc]
    BY <1>1, <1>3 DEF WithoutAt
  <1>5. WithoutAt(docs, p) \in Seq(Doc)
    BY <1>2, <1>4, SeqDef
  <1>6. \A i \in 1..(Len(docs) - 1) :
          LET j == IF i < p THEN i ELSE i + 1
          IN  j \in DOMAIN docs /\ j # p /\ WithoutAt(docs, p)[i] = docs[j]
    BY <1>1, <1>3 DEF WithoutAt
  <1> QED
    BY <1>4, <1>5, <1>6

\* A document deleted, and its id taken out of the indexes.
LEMMA DeleteGood ==
  ASSUME NEW m \in Memory, NEW n \in Nat, Good(m, n), m.loaded, NEW p \in DOMAIN m.docs
  PROVE  LET w == [m EXCEPT !.docs = WithoutAt(@, p), !.dirty = TRUE,
                            !.idx = Unindex(@, m.docs[p].id)]
         IN  w \in Memory /\ Good(w, n)
  <1> DEFINE D == WithoutAt(m.docs, p)
             x == Unindex(m.idx, m.docs[p].id)
             w == [m EXCEPT !.docs = D, !.dirty = TRUE, !.idx = x]
             N == Len(m.docs)
             Old(i) == IF i < p THEN i ELSE i + 1
  <1>1. m.docs \in Seq(Doc) /\ N \in Nat /\ DOMAIN m.docs = 1..N /\ p \in 1..N
    BY LenProperties DEF Memory
  <1>2. /\ D \in Seq(Doc) /\ DOMAIN D = 1..(N - 1)
        /\ \A i \in 1..(N - 1) : Old(i) \in DOMAIN m.docs /\ Old(i) # p /\ D[i] = m.docs[Old(i)]
    BY <1>1, WithoutAtDocs
  <1>3. x \in Index /\ \A f \in Fields, v \in Values : x[f][v] = m.idx[f][v] \ {m.docs[p].id}
    BY UnindexType DEF Memory, Unindex
  <1> HIDE DEF D, x, N
  <1>4. w \in Memory /\ w.docs = D /\ w.idx = x /\ w.loaded
    BY <1>2, <1>3 DEF Memory
  <1> HIDE DEF w
  <1>5. Numbered(w, n)
    <2> SUFFICES ASSUME NEW i \in 1..(N - 1) PROVE D[i].id <= n
      BY <1>2, <1>4 DEF Numbered
    <2> HIDE DEF Old
    <2>1. Old(i) \in DOMAIN m.docs /\ D[i] = m.docs[Old(i)]
      BY <1>2
    <2> QED
      BY <2>1 DEF Good, Numbered
  <1>6. Distinct(w)
    <2> SUFFICES ASSUME NEW i \in 1..(N - 1), NEW j \in 1..(N - 1), D[i].id = D[j].id
                 PROVE  i = j
      BY <1>2, <1>4 DEF Distinct
    <2>1. Old(i) = Old(j)
      <3> HIDE DEF Old
      <3> QED
        BY <1>2 DEF Good, Distinct
    <2> QED
      BY <1>1, <2>1
  <1>7. Sound(w)
    <2> SUFFICES ASSUME NEW f \in Fields, NEW v \in Values, NEW id \in x[f][v]
                 PROVE  \E i \in DOMAIN D : D[i].id = id /\ v \in D[i].keys[f]
      BY <1>4 DEF Sound
    <2>1. id \in m.idx[f][v] /\ id # m.docs[p].id
      BY <1>3
    <2>2. PICK k \in DOMAIN m.docs : m.docs[k].id = id /\ v \in m.docs[k].keys[f]
      BY <2>1 DEF Good, Sound
    <2>3. k \in 1..N /\ k # p
      BY <1>1, <2>1, <2>2
    <2>4. \E i \in 1..(N - 1) : Old(i) = k
      <3>1. CASE k < p
        <4>1. k \in 1..(N - 1) /\ Old(k) = k
          BY <1>1, <2>3, <3>1
        <4> QED
          BY <4>1
      <3>2. CASE k > p
        <4>1. k - 1 \in 1..(N - 1) /\ Old(k - 1) = k
          BY <1>1, <2>3, <3>2
        <4> QED
          BY <4>1
      <3> QED
        BY <1>1, <2>3, <3>1, <3>2
    <2> HIDE DEF Old
    <2> QED
      BY <1>2, <2>2, <2>4
  <1> QED
    BY <1>4, <1>5, <1>6, <1>7 DEF Good, w, x, D

-----------------------------------------------------------------------------
(* Saving *)

LEMMA SavedTypes ==
  ASSUME NEW m \in Memory, NEW K, NEW how \in SaveEnds(K)
  PROVE  /\ \A old \in File : DataSaved(m, how, old) \in File
         /\ how.end # "noData" => \A old : DataSaved(m, how, old) \in Contents
         /\ \A old \in IndexFile : IndexSaved(m, how, old) \in IndexFile
  <1>1. m.docs \in Seq(Doc) /\ Len(m.docs) \in Nat /\ DOMAIN m.docs = 1..Len(m.docs)
        /\ m.schema \in Signature
    BY LenProperties DEF Memory
  <1>2. how.kept \in Nat
    <2>1. \A j \in 0..MaxId : j \in Nat
      OBVIOUS
    <2> QED
      BY <2>1 DEF SaveEnds
  <1> DEFINE k == IF how.kept < Len(m.docs) THEN how.kept ELSE Len(m.docs) - 1
  <1>3. k \in Int /\ k <= Len(m.docs)
    BY <1>1, <1>2
  <1>4. SubSeq(m.docs, 1, k) \in Seq(Doc)
    <2>1. \A i \in 1..k : m.docs[i] \in Doc
      <3>1. \A i \in 1..k : i \in 1..Len(m.docs)
        BY <1>1, <1>3
      <3> QED
        BY <1>1, <3>1, ElementOfSeq
    <2> HIDE DEF k
    <2> QED
      BY <1>3, <2>1, SubSeqProperties
  <1>5. /\ \A old \in File : DataSaved(m, how, old) \in File
        /\ how.end # "noData" => \A old : DataSaved(m, how, old) \in Contents
    <2> DEFINE s == SubSeq(m.docs, 1, k)
    <2>1. s \in Seq(Doc)
      BY <1>4
    <2>2. \A old : IF how.end = "noData" THEN DataSaved(m, how, old) = old
                   ELSE DataSaved(m, how, old) \in
                     {[schema |-> m.schema, whole |-> FALSE, docs |-> s],
                      [schema |-> m.schema, whole |-> TRUE, docs |-> m.docs]}
      BY DEF DataSaved
    <2> HIDE DEF s
    <2>3. [schema |-> m.schema, whole |-> FALSE, docs |-> s] \in Contents
      BY <1>1, <2>1 DEF Contents
    <2>4. [schema |-> m.schema, whole |-> TRUE, docs |-> m.docs] \in Contents
      BY <1>1 DEF Contents
    <2> QED
      BY <2>2, <2>3, <2>4 DEF File
  <1>6. IndexFileOf(m) \in IndexFile
    BY DEF IndexFileOf, IndexFile, Memory
  <1> QED
    BY <1>5, <1>6 DEF IndexSaved

LEMMA SaveAllTypes ==
  ASSUME TypeOK, NEW d \in Dirs, NEW K, NEW how \in [Collections -> SaveEnds(K)],
         SaveAllFiles(d, how)
  PROVE  /\ files' \in [Dirs -> [Collections -> File]]
         /\ idxFiles' \in [Dirs -> [Collections -> IndexFile]]
  <1>1. \A c \in Collections : /\ coll[c] \in Memory /\ how[c] \in SaveEnds(K)
                               /\ files[d][c] \in File /\ idxFiles[d][c] \in IndexFile
    BY DEF TypeOK
  <1> DEFINE F == [c \in Collections |->
                     IF c \in Reached(how) THEN DataSaved(coll[c], how[c], files[d][c]) ELSE files[d][c]]
             X == [c \in Collections |->
                     IF c \in Reached(how) THEN IndexSaved(coll[c], how[c], idxFiles[d][c])
                     ELSE idxFiles[d][c]]
  <1>2. F \in [Collections -> File] /\ X \in [Collections -> IndexFile]
    <2>1. \A c \in Collections : DataSaved(coll[c], how[c], files[d][c]) \in File
      BY <1>1, SavedTypes
    <2>2. \A c \in Collections : IndexSaved(coll[c], how[c], idxFiles[d][c]) \in IndexFile
      BY <1>1, SavedTypes
    <2> QED
      BY <1>1, <2>1, <2>2
  <1>3. files' = [files EXCEPT ![d] = F] /\ idxFiles' = [idxFiles EXCEPT ![d] = X]
    BY DEF SaveAllFiles
  <1> HIDE DEF F, X
  <1> QED
    BY <1>2, <1>3 DEF TypeOK

-----------------------------------------------------------------------------
(* The inductive invariant *)

\* Ids fresh, indexes sound and unread collections clean are not inductive one
\* by one: a put keeps an index sound because its id is fresh, a delete because
\* ids are distinct, and a dirty collection is loaded because puts load first.
IInv ==
  /\ TypeOK
  /\ \A c \in Collections : Good(coll[c], counter)

\* Everything but the collections and the counter keeps its type.
RestTypes ==
  /\ LifecycleTypeOK
  /\ g_collections \in Seq(Collections)
  /\ txn \in BOOLEAN
  /\ heap \in {"sound", "damaged"}
  /\ files \in [Dirs -> [Collections -> File]]
  /\ idxFiles \in [Dirs -> [Collections -> IndexFile]]

\* One collection changes, under a counter that does not fall.
LEMMA CollectionChanged ==
  ASSUME IInv, NEW c \in Collections, NEW w \in Memory, NEW t \in Nat, counter <= t,
         Good(w, t), coll' = [coll EXCEPT ![c] = w], counter' = t, RestTypes'
  PROVE  IInv'
  <1>1. coll' \in [Collections -> Memory] /\ counter' \in Nat /\ counter \in Nat
    BY DEF IInv, TypeOK
  <1>2. ASSUME NEW b \in Collections
        PROVE  Good(coll'[b], counter')
    <2>1. CASE b = c
      BY <2>1 DEF IInv, TypeOK
    <2>2. CASE b # c
      <3>1. coll'[b] = coll[b] /\ coll[b] \in Memory /\ Good(coll[b], counter)
        BY <2>2 DEF IInv, TypeOK
      <3>2. Good(coll[b], t)
        BY <1>1, <3>1, GoodLater
      <3> QED
        BY <3>1, <3>2
    <2> QED
      BY <2>1, <2>2
  <1>3. \A b \in Collections : Good(coll'[b], counter')
    BY <1>2
  <1>4. TypeOK'
    BY <1>1 DEF RestTypes, TypeOK
  <1>5. (\A b \in Collections : Good(coll[b], counter))'
    BY <1>3 DEF Good, Numbered, Distinct, Sound
  <1> QED
    BY <1>4, <1>5 DEF IInv

\* All collections leave the registry, or the collections stay as they are.
LEMMA EverythingUnregistered ==
  ASSUME UnregisterEverything
  PROVE  /\ coll' \in [Collections -> Memory] /\ counter' \in Nat
         /\ g_collections' \in Seq(Collections) /\ txn' \in BOOLEAN
         /\ \A c \in Collections : Good(coll'[c], counter')
  <1>1. Blank(NoSchema) \in Memory
    BY BlankType DEF Signature
  <1>2. Good(Blank(NoSchema), 0)
    BY DEF Good, Numbered, Distinct, Sound, Blank, EmptyIndex
  <1>3. /\ coll' = [c \in Collections |-> Blank(NoSchema)] /\ counter' = 0
        /\ g_collections' = <<>> /\ txn' = FALSE
    BY DEF UnregisterEverything
  <1>4. g_collections' \in Seq(Collections)
    BY <1>3
  <1>5. ASSUME NEW c \in Collections
        PROVE  coll'[c] = Blank(NoSchema)
    BY <1>3
  <1>6. coll' \in [Collections -> Memory]
    BY <1>1, <1>3
  <1>7. \A c \in Collections : Good(coll'[c], counter')
    BY <1>2, <1>3, <1>5
  <1> QED
    BY <1>3, <1>4, <1>6, <1>7

LEMMA AfterTypes ==
  ASSUME TypeOK, NEW d \in Dirs \cup {NoDir}, NEW c \in Collections, NEW o \in Outcome,
         After(o, d, c)
  PROVE  /\ heap' \in {"sound", "damaged"}
         /\ idxFiles' \in [Dirs -> [Collections -> IndexFile]]
  <1>1. o.xf \in IndexFile
    BY DEF Outcome
  <1> QED
    BY <1>1 DEF After, TypeOK

-----------------------------------------------------------------------------
(* One lemma per kind of step *)

\* What a call on collection c against directory d starts from.
LEMMA Ensured ==
  ASSUME IInv, NEW c \in Collections, NEW d \in Dirs \cup {NoDir},
         NEW o \in EnsureOutcomes(coll[c], d, c)
  PROVE  /\ o \in Outcome /\ o.m \in Memory /\ o.seen \in SUBSET Nat
         /\ o.ok => o.m.loaded
         /\ \A t \in Nat : counter <= t /\ (\A id \in o.seen : id <= t) => Good(o.m, t)
         /\ \A t \in Raised(counter, o.seen) : t \in Nat /\ counter <= t /\ Good(o.m, t)
  <1>1. /\ o \in Outcome
        /\ o.ok => o.m.loaded
        /\ \A t \in Nat : counter <= t /\ (\A id \in o.seen : id <= t) => Good(o.m, t)
    BY EnsureGood DEF IInv
  <1>2. o.m \in Memory /\ o.seen \in SUBSET Nat /\ counter \in Nat
    BY <1>1 DEF Outcome, IInv, TypeOK
  <1>3. \A t \in Raised(counter, o.seen) :
          t \in Nat /\ counter <= t /\ \A id \in o.seen : id <= t
    BY <1>2, RaisedAbove
  <1> QED
    BY <1>1, <1>2, <1>3

LEMMA AccessKeeps ==
  ASSUME IInv, NEW c \in Collections, Access(c)
  PROVE  IInv'
  <1>1. TypeOK /\ dir \in Dirs \cup {NoDir}
    BY DEF IInv, TypeOK, LifecycleTypeOK
  <1>2. PICK o \in EnsureOutcomes(coll[c], dir, c) :
          After(o, dir, c) /\ coll' = [coll EXCEPT ![c] = o.m] /\ counter' \in Raised(counter, o.seen)
    BY DEF Access
  <1>3. /\ o \in Outcome /\ o.m \in Memory
        /\ counter' \in Nat /\ counter <= counter' /\ Good(o.m, counter')
    BY <1>1, <1>2, Ensured
  <1>4. RestTypes'
    <2>1. heap' \in {"sound", "damaged"} /\ idxFiles' \in [Dirs -> [Collections -> IndexFile]]
      BY <1>1, <1>2, <1>3, AfterTypes
    <2> QED
      BY <1>1, <2>1 DEF Access, TypeOK, RestTypes, LifecycleTypeOK
  <1> QED
    BY <1>2, <1>3, <1>4, CollectionChanged

\* The three ends of a put share what they do to the collection's file and to
\* the counter.
LEMMA PutsKeep ==
  ASSUME IInv, NEW c \in Collections,
         \/ \E keys \in Keys : Put(c, keys)
         \/ PutAborts(c)
         \/ \E part \in Keys : PutNotIndexed(c, part)
  PROVE  IInv'
  <1>1. TypeOK /\ dir \in Dirs \cup {NoDir}
    BY DEF IInv, TypeOK, LifecycleTypeOK
  <1>2. ASSUME NEW o \in EnsureOutcomes(coll[c], dir, c), NEW n \in Raised(counter, o.seen),
               NEW w \in Memory, After(o, dir, c), Good(w, n + 1),
               coll' = [coll EXCEPT ![c] = w], counter' = n + 1,
               UNCHANGED <<state, dir, g_collections, txn, files>>
        PROVE  IInv'
    <2>1. o \in Outcome /\ n \in Nat /\ counter <= n
      BY <1>1, Ensured
    <2>2. n + 1 \in Nat /\ counter <= n + 1
      BY <2>1, <1>1 DEF TypeOK
    <2>3. heap' \in {"sound", "damaged"} /\ idxFiles' \in [Dirs -> [Collections -> IndexFile]]
      BY <1>1, <1>2, <2>1, AfterTypes
    <2>4. RestTypes'
      BY <1>1, <1>2, <2>3 DEF TypeOK, RestTypes, LifecycleTypeOK
    <2> QED
      BY <1>2, <2>2, <2>4, CollectionChanged
  <1>3. ASSUME NEW keys \in Keys, Put(c, keys)
        PROVE  IInv'
    <2>1. PICK o \in EnsureOutcomes(coll[c], dir, c), n \in 0..MaxId - 1 :
            /\ o.ok /\ n \in Raised(counter, o.seen) /\ After(o, dir, c)
            /\ coll' = [coll EXCEPT ![c] =
                 [o.m EXCEPT !.docs = Append(@, [id |-> n + 1, keys |-> keys]), !.dirty = TRUE,
                             !.idx = IndexDocs(@, o.m.fields, <<[id |-> n + 1, keys |-> keys]>>)]]
            /\ counter' = n + 1
      BY <1>3 DEF Put
    <2>2. o.m \in Memory /\ o.m.loaded /\ n \in Nat /\ Good(o.m, n)
      BY <1>1, <2>1, Ensured
    <2> DEFINE w == [o.m EXCEPT !.docs = Append(@, [id |-> n + 1, keys |-> keys]), !.dirty = TRUE,
                       !.idx = IndexDocs(@, o.m.fields, <<[id |-> n + 1, keys |-> keys]>>)]
    <2>3. w \in Memory /\ Good(w, n + 1)
      BY <2>2, PutGood
    <2>4. UNCHANGED <<state, dir, g_collections, txn, files>>
      BY <1>3 DEF Put
    <2>5. coll' = [coll EXCEPT ![c] = w]
      BY <2>1
    <2> HIDE DEF w
    <2> QED
      BY <1>2, <2>1, <2>3, <2>4, <2>5
  <1>4. ASSUME PutAborts(c)
        PROVE  IInv'
    <2>1. PICK o \in EnsureOutcomes(coll[c], dir, c), n \in 0..MaxId - 1 :
            /\ n \in Raised(counter, o.seen) /\ After(o, dir, c)
            /\ coll' = [coll EXCEPT ![c] = o.m]
            /\ counter' = n + 1
      BY <1>4 DEF PutAborts
    <2>2. o.m \in Memory /\ n \in Nat /\ Good(o.m, n)
      BY <1>1, <2>1, Ensured
    <2>3. n + 1 \in Nat /\ n <= n + 1
      BY <2>2
    <2>4. Good(o.m, n + 1)
      BY <2>2, <2>3, GoodLater
    <2>5. UNCHANGED <<state, dir, g_collections, txn, files>>
      BY <1>4 DEF PutAborts
    <2> QED
      BY <1>2, <2>1, <2>2, <2>4, <2>5
  <1>5. ASSUME NEW part \in Keys, PutNotIndexed(c, part)
        PROVE  IInv'
    <2>1. PICK o \in EnsureOutcomes(coll[c], dir, c), n \in 0..MaxId - 1 :
            /\ o.ok /\ n \in Raised(counter, o.seen) /\ After(o, dir, c)
            /\ coll' = [coll EXCEPT ![c] =
                 [o.m EXCEPT !.dirty = TRUE,
                             !.idx = Unindex(IndexDocs(@, o.m.fields, <<[id |-> n + 1, keys |-> part]>>),
                                             n + 1)]]
            /\ counter' = n + 1
      BY <1>5 DEF PutNotIndexed
    <2>2. o.m \in Memory /\ o.m.loaded /\ n \in Nat /\ Good(o.m, n)
      BY <1>1, <2>1, Ensured
    <2> DEFINE w == [o.m EXCEPT !.dirty = TRUE,
                       !.idx = Unindex(IndexDocs(@, o.m.fields, <<[id |-> n + 1, keys |-> part]>>), n + 1)]
    <2>3. w \in Memory /\ Good(w, n + 1)
      BY <2>2, PutNotIndexedGood
    <2>4. UNCHANGED <<state, dir, g_collections, txn, files>>
      BY <1>5 DEF PutNotIndexed
    <2>5. coll' = [coll EXCEPT ![c] = w]
      BY <2>1
    <2> HIDE DEF w
    <2> QED
      BY <1>2, <2>1, <2>3, <2>4, <2>5
  <1> QED
    BY <1>3, <1>4, <1>5

LEMMA DeleteKeeps ==
  ASSUME IInv, NEW c \in Collections, NEW id, Delete(c, id)
  PROVE  IInv'
  <1>1. TypeOK /\ dir \in Dirs \cup {NoDir}
    BY DEF IInv, TypeOK, LifecycleTypeOK
  <1>2. PICK o \in EnsureOutcomes(coll[c], dir, c) : \E p \in DOMAIN o.m.docs :
          /\ o.ok /\ o.m.docs[p].id = id /\ After(o, dir, c)
          /\ coll' = [coll EXCEPT ![c] =
               [o.m EXCEPT !.docs = WithoutAt(@, p), !.dirty = TRUE, !.idx = Unindex(@, id)]]
          /\ counter' \in Raised(counter, o.seen)
    BY DEF Delete
  <1>3. PICK p \in DOMAIN o.m.docs :
          /\ o.ok /\ o.m.docs[p].id = id /\ After(o, dir, c)
          /\ coll' = [coll EXCEPT ![c] =
               [o.m EXCEPT !.docs = WithoutAt(@, p), !.dirty = TRUE, !.idx = Unindex(@, id)]]
          /\ counter' \in Raised(counter, o.seen)
    BY <1>2
  <1>4. /\ o \in Outcome /\ o.m \in Memory /\ o.m.loaded
        /\ counter' \in Nat /\ counter <= counter' /\ Good(o.m, counter')
    BY <1>1, <1>3, Ensured
  <1> DEFINE w == [o.m EXCEPT !.docs = WithoutAt(@, p), !.dirty = TRUE,
                              !.idx = Unindex(@, o.m.docs[p].id)]
  <1>5. w \in Memory /\ Good(w, counter')
    BY <1>4, DeleteGood
  <1>6. coll' = [coll EXCEPT ![c] = w]
    BY <1>3
  <1>7. RestTypes'
    <2>1. heap' \in {"sound", "damaged"} /\ idxFiles' \in [Dirs -> [Collections -> IndexFile]]
      BY <1>1, <1>3, <1>4, AfterTypes
    <2> QED
      BY <1>1, <2>1 DEF Delete, TypeOK, RestTypes, LifecycleTypeOK
  <1> HIDE DEF w
  <1> QED
    BY <1>4, <1>5, <1>6, <1>7, CollectionChanged

LEMMA DeclareKeeps ==
  ASSUME IInv, NEW c \in Collections,
         (\E s \in Schemas : Register(c, s)) \/ (\E f \in Fields : AddIndex(c, f))
  PROVE  IInv'
  <1>1. TypeOK /\ counter \in Nat /\ coll[c] \in Memory /\ Good(coll[c], counter)
    BY DEF IInv, TypeOK
  <1>0. counter <= counter
    BY <1>1
  <1>2. ASSUME NEW s \in Schemas, Register(c, s)
        PROVE  IInv'
    <2>1. Blank(s) \in Memory
      BY BlankType DEF Signature
    <2>2. Good(Blank(s), counter)
      BY DEF Good, Numbered, Distinct, Sound, Blank, EmptyIndex
    <2>3. coll' = [coll EXCEPT ![c] = Blank(s)] /\ counter' = counter
      BY <1>2 DEF Register
    <2>4. RestTypes'
      <3>1. g_collections' \in Seq(Collections)
        BY <1>1, <1>2, AppendProperties DEF Register, TypeOK
      <3> QED
        BY <1>1, <1>2, <3>1 DEF Register, diskVars, TypeOK, RestTypes, LifecycleTypeOK
    <2> QED
      BY <1>0, <1>1, <2>1, <2>2, <2>3, <2>4, CollectionChanged
  <1>3. ASSUME NEW f \in Fields, AddIndex(c, f)
        PROVE  IInv'
    <2> DEFINE w == [coll[c] EXCEPT !.fields = @ \cup {f}]
    <2>1. w \in Memory /\ Good(w, counter)
      BY <1>1 DEF Memory, Good, Numbered, Distinct, Sound
    <2>2. coll' = [coll EXCEPT ![c] = w] /\ counter' = counter
      BY <1>3 DEF AddIndex
    <2>3. RestTypes'
      BY <1>1, <1>3 DEF AddIndex, diskVars, TypeOK, RestTypes, LifecycleTypeOK
    <2> HIDE DEF w
    <2> QED
      BY <1>0, <1>1, <2>1, <2>2, <2>3, CollectionChanged
  <1> QED
    BY <1>2, <1>3

LEMMA SaveCollectionKeeps ==
  ASSUME IInv, NEW c \in Collections, NEW d \in Dirs, NEW how \in SaveEnds(Faults),
         SaveCollection(c, d, how)
  PROVE  IInv'
  <1>1. TypeOK /\ dir \in Dirs \cup {NoDir}
    BY DEF IInv, TypeOK, LifecycleTypeOK
  <1>2. PICK o \in EnsureOutcomes(coll[c], dir, c) :
          /\ heap' = heap
          /\ coll' = [coll EXCEPT ![c] =
               IF SaveFails(o.m, how) THEN o.m ELSE [o.m EXCEPT !.dirty = FALSE]]
          /\ counter' \in Raised(counter, o.seen)
          /\ files' = [files EXCEPT ![d][c] = DataSaved(o.m, how, @)]
          /\ LET x == IF dir = NoDir THEN idxFiles ELSE [idxFiles EXCEPT ![dir][c] = o.xf]
             IN idxFiles' = [x EXCEPT ![d][c] = IndexSaved(o.m, how, @)]
    BY DEF SaveCollection
  <1>3. /\ o \in Outcome /\ o.m \in Memory
        /\ counter' \in Nat /\ counter <= counter' /\ Good(o.m, counter')
    BY <1>1, <1>2, Ensured
  <1> DEFINE w == IF SaveFails(o.m, how) THEN o.m ELSE [o.m EXCEPT !.dirty = FALSE]
             x == IF dir = NoDir THEN idxFiles ELSE [idxFiles EXCEPT ![dir][c] = o.xf]
  <1>4. w \in Memory /\ Good(w, counter')
    <2>1. [o.m EXCEPT !.dirty = FALSE] \in Memory /\ Good([o.m EXCEPT !.dirty = FALSE], counter')
      BY <1>3 DEF Memory, Good, Numbered, Distinct, Sound
    <2> QED
      BY <1>3, <2>1
  <1>5. files' \in [Dirs -> [Collections -> File]]
    <2>1. \A old \in File : DataSaved(o.m, how, old) \in File
      BY <1>3, SavedTypes
    <2> QED
      BY <1>1, <1>2, <2>1 DEF TypeOK
  <1>6. idxFiles' \in [Dirs -> [Collections -> IndexFile]]
    <2>1. \A old \in IndexFile : IndexSaved(o.m, how, old) \in IndexFile
      BY <1>3, SavedTypes
    <2>2. x \in [Dirs -> [Collections -> IndexFile]]
      BY <1>1, <1>3 DEF TypeOK, Outcome
    <2>3. idxFiles' = [x EXCEPT ![d][c] = IndexSaved(o.m, how, @)]
      BY <1>2
    <2> HIDE DEF x
    <2> QED
      BY <2>1, <2>2, <2>3
  <1>7. RestTypes'
    BY <1>1, <1>2, <1>5, <1>6 DEF SaveCollection, TypeOK, RestTypes, LifecycleTypeOK
  <1>8. coll' = [coll EXCEPT ![c] = w]
    BY <1>2
  <1> HIDE DEF w
  <1> QED
    BY <1>3, <1>4, <1>7, <1>8, CollectionChanged

LEMMA LoadCollectionKeeps ==
  ASSUME IInv, NEW c \in Collections, NEW d \in Dirs, LoadCollection(c, d)
  PROVE  IInv'
  <1>1. /\ TypeOK /\ counter \in Nat /\ coll[c] \in Memory /\ Good(coll[c], counter)
        /\ files[d][c] \in File /\ idxFiles[d][c] \in IndexFile
    BY DEF IInv, TypeOK
  <1>2. PICK o \in LoadOutcomes(coll[c], files[d][c], idxFiles[d][c]) :
          After(o, d, c) /\ coll' = [coll EXCEPT ![c] = o.m] /\ counter' \in Raised(counter, o.seen)
    BY DEF LoadCollection
  <1>3. /\ o \in Outcome
        /\ \A t \in Nat : counter <= t /\ (\A id \in o.seen : id <= t) => Good(o.m, t)
    BY <1>1, LoadGood
  <1>4. o.m \in Memory /\ o.seen \in SUBSET Nat
    BY <1>3 DEF Outcome
  <1>5. counter' \in Nat /\ counter <= counter' /\ \A id \in o.seen : id <= counter'
    BY <1>1, <1>2, <1>4, RaisedAbove
  <1>6. Good(o.m, counter')
    BY <1>3, <1>5
  <1>7. RestTypes'
    <2>1. heap' \in {"sound", "damaged"} /\ idxFiles' \in [Dirs -> [Collections -> IndexFile]]
      BY <1>1, <1>2, <1>3, AfterTypes
    <2> QED
      BY <1>1, <2>1 DEF LoadCollection, TypeOK, RestTypes, LifecycleTypeOK
  <1> QED
    BY <1>2, <1>4, <1>5, <1>6, <1>7, CollectionChanged

\* Steps that may change every collection at once.
LEMMA AllChanged ==
  ASSUME coll' \in [Collections -> Memory], counter' \in Nat,
         \A c \in Collections : Good(coll'[c], counter'), RestTypes'
  PROVE  IInv'
  <1>1. TypeOK'
    BY DEF RestTypes, TypeOK
  <1>2. (\A c \in Collections : Good(coll[c], counter))'
    BY DEF Good, Numbered, Distinct, Sound
  <1> QED
    BY <1>1, <1>2 DEF IInv

LEMMA SaveAllKeeps ==
  ASSUME IInv, NEW d \in Dirs, NEW how \in CloseEnds, SaveAll(d, how)
  PROVE  IInv'
  <1>1. TypeOK /\ counter \in Nat
    BY DEF IInv, TypeOK
  <1>2. /\ files' \in [Dirs -> [Collections -> File]]
        /\ idxFiles' \in [Dirs -> [Collections -> IndexFile]]
    BY <1>1, SaveAllTypes DEF SaveAll, CloseEnds
  <1>3. ASSUME NEW c \in Collections
        PROVE  coll'[c] \in Memory /\ Good(coll'[c], counter)
    <2>1. coll[c] \in Memory /\ Good(coll[c], counter)
      BY DEF IInv, TypeOK
    <2>2. [coll[c] EXCEPT !.dirty = FALSE] \in Memory /\ Good([coll[c] EXCEPT !.dirty = FALSE], counter)
      BY <2>1 DEF Memory, Good, Numbered, Distinct, Sound
    <2>3. coll'[c] \in {coll[c], [coll[c] EXCEPT !.dirty = FALSE]}
      BY DEF SaveAll
    <2> QED
      BY <2>1, <2>2, <2>3
  <1>4. coll' = [c \in Collections |-> coll'[c]] /\ counter' = counter
    BY DEF SaveAll
  <1>5. coll' \in [Collections -> Memory] /\ \A c \in Collections : Good(coll'[c], counter')
    BY <1>3, <1>4
  <1>6. RestTypes'
    BY <1>1, <1>2 DEF SaveAll, TypeOK, RestTypes, LifecycleTypeOK
  <1> QED
    BY <1>1, <1>4, <1>5, <1>6, AllChanged

LEMMA LoadAllKeeps ==
  ASSUME IInv, NEW d \in Dirs, LoadAll(d)
  PROVE  IInv'
  <1>1. TypeOK /\ counter \in Nat
    BY DEF IInv, TypeOK
  <1>2. PICK stop \in 1..(Len(g_collections) + 1) :
          LET tried == {g_collections[i] : i \in DOMAIN g_collections \cap (1..stop)}
              outcomes == UNION {EnsureOutcomes(coll[c], d, c) : c \in tried}
          IN \E os \in [tried -> outcomes] :
               /\ \A c \in tried : os[c] \in EnsureOutcomes(coll[c], d, c)
               /\ coll' = [c \in Collections |-> IF c \in tried THEN os[c].m ELSE coll[c]]
               /\ counter' \in Raised(counter, UNION {os[c].seen : c \in tried})
               /\ heap' = IF \E c \in tried : os[c].hurt THEN "damaged" ELSE heap
               /\ idxFiles' = [idxFiles EXCEPT ![d] = [c \in Collections |->
                    IF c \in tried THEN os[c].xf ELSE @[c]]]
    BY DEF LoadAll
  <1> DEFINE tried == {g_collections[i] : i \in DOMAIN g_collections \cap (1..stop)}
             outcomes == UNION {EnsureOutcomes(coll[c], d, c) : c \in tried}
  <1>3. PICK os \in [tried -> outcomes] :
          /\ \A c \in tried : os[c] \in EnsureOutcomes(coll[c], d, c)
          /\ coll' = [c \in Collections |-> IF c \in tried THEN os[c].m ELSE coll[c]]
          /\ counter' \in Raised(counter, UNION {os[c].seen : c \in tried})
          /\ heap' = IF \E c \in tried : os[c].hurt THEN "damaged" ELSE heap
          /\ idxFiles' = [idxFiles EXCEPT ![d] = [c \in Collections |->
               IF c \in tried THEN os[c].xf ELSE idxFiles[d][c]]]
    BY <1>2
  <1> DEFINE all == UNION {os[c].seen : c \in tried}
             X == [c \in Collections |-> IF c \in tried THEN os[c].xf ELSE idxFiles[d][c]]
  <1>4. tried \subseteq Collections
    <2>1. \A i \in DOMAIN g_collections : g_collections[i] \in Collections
      BY <1>1, ElementOfSeq, LenProperties DEF TypeOK
    <2> QED
      BY <2>1
  <1> HIDE DEF tried, outcomes
  <1>5. ASSUME NEW c \in tried
        PROVE  /\ os[c].m \in Memory /\ os[c].seen \in SUBSET Nat /\ os[c].xf \in IndexFile
               /\ \A t \in Nat : counter <= t /\ (\A id \in os[c].seen : id <= t)
                    => Good(os[c].m, t)
    <2>1. c \in Collections /\ os[c] \in EnsureOutcomes(coll[c], d, c) /\ d \in Dirs \cup {NoDir}
      BY <1>3, <1>4
    <2> QED
      BY <2>1, Ensured DEF Outcome
  <1>6. all \in SUBSET Nat
    BY <1>5
  <1>7. counter' \in Nat /\ counter <= counter' /\ \A id \in all : id <= counter'
    <2>1. counter' \in Raised(counter, all)
      BY <1>3
    <2> HIDE DEF all
    <2> QED
      BY <1>1, <1>6, <2>1, RaisedAbove
  <1>8. ASSUME NEW c \in tried
        PROVE  Good(os[c].m, counter')
    <2>1. \A id \in os[c].seen : id <= counter'
      BY <1>7
    <2> QED
      BY <1>5, <1>7, <2>1
  <1>9. ASSUME NEW c \in Collections
        PROVE  coll'[c] \in Memory /\ Good(coll'[c], counter')
    <2>1. CASE c \in tried
      <3>1. coll'[c] = os[c].m
        BY <1>3, <2>1
      <3> QED
        BY <1>5, <1>8, <2>1, <3>1
    <2>2. CASE c \notin tried
      <3>1. coll'[c] = coll[c] /\ coll[c] \in Memory /\ Good(coll[c], counter)
        BY <1>3, <2>2 DEF IInv, TypeOK
      <3> QED
        BY <1>1, <1>7, <3>1, GoodLater
    <2> QED
      BY <2>1, <2>2
  <1>10. coll' \in [Collections -> Memory]
    <2>1. coll' = [c \in Collections |-> coll'[c]]
      BY <1>3
    <2> QED
      BY <1>9, <2>1
  <1>11. RestTypes'
    <2>1. X \in [Collections -> IndexFile]
      BY <1>1, <1>5 DEF TypeOK
    <2>2. idxFiles' = [idxFiles EXCEPT ![d] = X]
      BY <1>3
    <2> HIDE DEF X
    <2>3. idxFiles' \in [Dirs -> [Collections -> IndexFile]]
      BY <1>1, <2>1, <2>2 DEF TypeOK
    <2>4. heap' \in {"sound", "damaged"}
      BY <1>1, <1>3 DEF TypeOK
    <2> QED
      BY <1>1, <2>3, <2>4 DEF LoadAll, TypeOK, RestTypes, LifecycleTypeOK
  <1> QED
    BY <1>7, <1>9, <1>10, <1>11, AllChanged

\* Lifecycle calls, transactions, the end of the process.
LEMMA LifecycleKeeps ==
  ASSUME IInv,
         \/ Initialize
         \/ \E d \in Dirs : Open(d)
         \/ OpenNoDirectory
         \/ OpenNoMemory
         \/ \E how \in CloseEnds : Close(how)
         \/ UnregisterAll
         \/ BeginWriteTxn
         \/ EndWriteTxn
         \/ \E how \in CrashEnds : Crash(how)
  PROVE  IInv'
  <1>1. TypeOK /\ \A c \in Collections : Good(coll[c], counter)
    BY DEF IInv
  <1>2. CASE Initialize \/ (\E d \in Dirs : Open(d)) \/ OpenNoDirectory \/ BeginWriteTxn \/ EndWriteTxn
    <2>1. coll' = coll /\ counter' = counter
      BY <1>2 DEF Initialize, Open, OpenNoDirectory, BeginWriteTxn, EndWriteTxn, memoryVars
    <2>2. RestTypes'
      BY <1>1, <1>2 DEF Initialize, Open, OpenNoDirectory, BeginWriteTxn, EndWriteTxn, memoryVars,
         diskVars, InitializeSucceeds, OpenSucceeds, OpenFailsIO, TypeOK, RestTypes, LifecycleTypeOK,
         States
    <2> QED
      BY <1>1, <2>1, <2>2, AllChanged DEF TypeOK
  <1>3. ASSUME UnregisterEverything, LifecycleTypeOK', heap' \in {"sound", "damaged"},
               \/ UNCHANGED diskVars
               \/ dir \in Dirs /\ \E K : \E how \in [Collections -> SaveEnds(K)] : SaveAllFiles(dir, how)
        PROVE  IInv'
    <2>1. /\ files' \in [Dirs -> [Collections -> File]]
          /\ idxFiles' \in [Dirs -> [Collections -> IndexFile]]
      <3>1. CASE UNCHANGED diskVars
        BY <1>1, <3>1 DEF diskVars, TypeOK
      <3>2. CASE dir \in Dirs /\ \E K : \E how \in [Collections -> SaveEnds(K)] : SaveAllFiles(dir, how)
        <4>1. PICK K : \E how \in [Collections -> SaveEnds(K)] : SaveAllFiles(dir, how)
          BY <3>2
        <4>2. PICK how \in [Collections -> SaveEnds(K)] : SaveAllFiles(dir, how)
          BY <4>1
        <4> QED
          BY <1>1, <3>2, <4>2, SaveAllTypes
      <3> QED
        BY <1>3, <3>1, <3>2
    <2>2. RestTypes'
      BY <1>3, <2>1, EverythingUnregistered DEF RestTypes
    <2> QED
      BY <1>3, <2>2, EverythingUnregistered, AllChanged
  <1>4. CASE OpenNoMemory \/ UnregisterAll
    BY <1>1, <1>3, <1>4 DEF OpenNoMemory, UnregisterAll, OpenFailsAlloc, TypeOK, LifecycleTypeOK, States,
       diskVars
  <1>5. ASSUME NEW how \in CloseEnds, Close(how)
        PROVE  IInv'
    <2>1. UnregisterEverything /\ LifecycleTypeOK' /\ heap' \in {"sound", "damaged"}
      BY <1>1, <1>5 DEF Close, TransitionToClosed, TypeOK, LifecycleTypeOK, States
    <2>2. UNCHANGED diskVars \/ (dir \in Dirs /\ SaveAllFiles(dir, how))
      BY <1>1, <1>5 DEF Close, TypeOK, LifecycleTypeOK
    <2>3. how \in [Collections -> SaveEnds(Faults)]
      BY DEF CloseEnds
    <2> QED
      BY <1>3, <2>1, <2>2, <2>3
  <1>6. ASSUME NEW how \in CrashEnds, Crash(how)
        PROVE  IInv'
    <2>1. UnregisterEverything /\ LifecycleTypeOK' /\ heap' \in {"sound", "damaged"}
      BY <1>6 DEF Crash, ProcessRestart, LifecycleTypeOK, States
    <2>2. UNCHANGED diskVars \/ (dir \in Dirs /\ SaveAllFiles(dir, how))
      BY <1>1, <1>6 DEF Crash, TypeOK, LifecycleTypeOK
    <2>3. how \in [Collections -> SaveEnds({"noData", "noIndex"})]
      BY DEF CrashEnds
    <2> QED
      BY <1>3, <2>1, <2>2, <2>3
  <1> QED
    BY <1>2, <1>4, <1>5, <1>6

-----------------------------------------------------------------------------
(* Theorems *)

LEMMA InitIInv == Init => IInv
  <1> SUFFICES ASSUME Init PROVE IInv
    OBVIOUS
  <1>1. /\ coll = [c \in Collections |-> Blank(NoSchema)] /\ counter = 0
        /\ g_collections = <<>> /\ txn = FALSE /\ heap = "sound"
        /\ files = [d \in Dirs |-> [c \in Collections |-> NoFile]]
        /\ idxFiles = [d \in Dirs |-> [c \in Collections |-> NoFile]]
    BY DEF Init
  <1>2. Blank(NoSchema) \in Memory
    BY BlankType DEF Signature
  <1>3. Good(Blank(NoSchema), 0)
    BY DEF Good, Numbered, Distinct, Sound, Blank, EmptyIndex
  <1>4. files \in [Dirs -> [Collections -> File]] /\ idxFiles \in [Dirs -> [Collections -> IndexFile]]
    BY <1>1 DEF File, IndexFile
  <1>5. coll \in [Collections -> Memory] /\ \A c \in Collections : coll[c] = Blank(NoSchema)
    BY <1>1, <1>2
  <1>6. g_collections \in Seq(Collections) /\ LifecycleTypeOK
    BY <1>1 DEF Init, LifecycleInit, LifecycleTypeOK, States
  <1>7. TypeOK
    BY <1>1, <1>4, <1>5, <1>6 DEF TypeOK
  <1> QED
    BY <1>1, <1>3, <1>5, <1>7 DEF IInv

LEMMA NextIInv == IInv /\ [Next]_vars => IInv'
  <1> SUFFICES ASSUME IInv, [Next]_vars PROVE IInv'
    OBVIOUS
  <1>1. ASSUME NEW c \in Collections, CollectionStep(c) PROVE IInv'
    <2>1. CASE (\E s \in Schemas : Register(c, s)) \/ (\E f \in Fields : AddIndex(c, f))
      BY <2>1, DeclareKeeps
    <2>2. CASE Access(c)
      BY <2>2, AccessKeeps
    <2>3. CASE \/ \E keys \in Keys : Put(c, keys)
               \/ PutAborts(c)
               \/ \E part \in Keys : PutNotIndexed(c, part)
      BY <2>3, PutsKeep
    <2>4. CASE \E id \in 1..MaxId : Delete(c, id)
      BY <2>4, DeleteKeeps
    <2>5. CASE \E d \in Dirs, how \in SaveEnds(Faults) : SaveCollection(c, d, how)
      BY <2>5, SaveCollectionKeeps
    <2>6. CASE \E d \in Dirs : LoadCollection(c, d)
      BY <2>6, LoadCollectionKeeps
    <2> QED
      BY <1>1, <2>1, <2>2, <2>3, <2>4, <2>5, <2>6 DEF CollectionStep
  <1>2. CASE DatabaseStep
    <2>1. CASE \E d \in Dirs, how \in CloseEnds : SaveAll(d, how)
      BY <2>1, SaveAllKeeps
    <2>2. CASE \E d \in Dirs : LoadAll(d)
      BY <2>2, LoadAllKeeps
    <2> QED
      BY <1>2, <2>1, <2>2, LifecycleKeeps DEF DatabaseStep
  <1>3. CASE \E how \in CrashEnds : Crash(how)
    BY <1>3, LifecycleKeeps
  <1>4. CASE UNCHANGED vars
    <2>1. coll' = coll /\ counter' = counter
      BY <1>4 DEF vars
    <2>2. RestTypes'
      BY <1>4 DEF vars, IInv, TypeOK, RestTypes, LifecycleTypeOK
    <2> QED
      BY <2>1, <2>2, AllChanged DEF IInv, TypeOK
  <1> QED
    BY <1>1, <1>2, <1>3, <1>4 DEF Next

\* In every state of every behaviour the inductive invariant holds, for any
\* sets of directories, collections, fields and values, with and without
\* faults, and for clients of either kind.
THEOREM Inductive == Spec => []IInv
  <1>1. Init => IInv
    BY InitIInv
  <1>2. IInv /\ [Next]_vars => IInv'
    BY NextIInv
  <1> QED
    BY <1>1, <1>2, PTL DEF Spec

\* Every variable of the engine has its type in every reachable state: the
\* document array stays a sequence after a delete in its middle, an append or a
\* partial load, and each index maps keys to sets of ids.
THEOREM TypeCorrect == Spec => []TypeOK
  <1>1. IInv => TypeOK
    BY DEF IInv
  <1> QED
    BY <1>1, Inductive, PTL

\* The ids of apxdb_put_document are fresh: no document in memory has a number
\* above g_collection_counter, and no two of a collection have the same.
THEOREM FreshIds == Spec => []IdsFresh
  <1>1. IInv => IdsFresh
    BY DEF IInv, Good, IdsFresh
  <1> QED
    BY <1>1, Inductive, PTL

\* No index sends find_docs_for_member to a document that was deleted, popped
\* after a failed put, or that does not have the key.
THEOREM SoundIndexes == Spec => []IndexSound
  <1>1. IInv => IndexSound
    BY DEF IInv, Good, IndexSound
  <1> QED
    BY <1>1, Inductive, PTL

\* A collection whose file could not be read is never dirty, so neither
\* save-all nor close writes its memory over that file.
THEOREM UnreadStaysClean == Spec => []DirtyOnlyIfLoaded
  <1>1. IInv => DirtyOnlyIfLoaded
    BY DEF IInv, Good, DirtyOnlyIfLoaded
  <1> QED
    BY <1>1, Inductive, PTL
=============================================================================
