----------------------------- MODULE Query_proofs -----------------------------
(***************************************************************************)
(* Proofs about Query and QueryObjects: the indexes hold, at every moment, *)
(* what the documents say (QInv); so a lookup finds what a scan finds, and *)
(* query objects nested to any depth find the documents they describe.     *)
(***************************************************************************)
EXTENDS QueryObjects, Iteration_proofs, SequenceTheorems

-----------------------------------------------------------------------------
(* Sequences *)

\* Only is what the loop of its definition computes.
LEMMA OnlyDef ==
  ASSUME NEW T, NEW s \in Seq(T), NEW S
  PROVE  \E h : /\ h[0] = <<>>
                /\ \A i \in 1..Len(s) :
                     h[i] = IF s[i] \in S THEN Append(h[i - 1], s[i]) ELSE h[i - 1]
                /\ Only(s, S) = h[Len(s)]
  <1> DEFINE n == Len(s)
             E(i, x) == IF s[i] \in S THEN Append(x, s[i]) ELSE x
             step == [i \in 1..n |-> [x \in Seq(T) |-> E(i, x)]]
             Is(h) == h = [i \in 0..n |-> IF i = 0 THEN <<>> ELSE E(i, h[i - 1])]
  <1>1. /\ n \in Nat /\ 0 \in 0..n
        /\ \A i \in 1..n : s[i] \in T
        /\ \A i \in 0..n : i # 0 => i \in 1..n
        /\ \A i \in 1..n : i \in 0..n /\ i # 0
    BY ElementOfSeq, LenProperties
  <1> HIDE DEF n
  <1>2. \A i \in 1..n : \A x \in Seq(T) : step[i][x] = E(i, x) /\ E(i, x) \in Seq(T)
    BY <1>1, AppendProperties
  <1> HIDE DEF step, E
  <1>3. PICK g : Rounds(<<>>, step, n, g) /\ \A i \in 1..n : g[i - 1] \in Seq(T)
    <2>1. <<>> \in Seq(T) /\ n \in Nat
      BY <1>1
    <2>2. \A i \in 1..n : \A x \in Seq(T) : step[i][x] \in Seq(T)
      BY <1>2
    <2> QED
      BY <2>1, <2>2, RoundsIn
  <1>4. Is(g)
    BY <1>1, <1>2, <1>3 DEF Rounds
  <1>5. PICK h : Is(h) /\ Only(s, S) = h[n]
    <2>1. Only(s, S) = (CHOOSE h : Is(h))[n]
      BY DEF Only, E, n
    <2> HIDE DEF Is
    <2> QED
      BY <1>4, <2>1
  <1>6. h[0] = <<>> /\ \A i \in 1..n : h[i] = E(i, h[i - 1])
    BY <1>1, <1>5
  <1> QED
    BY <1>5, <1>6 DEF E, n

\* No element occurs twice.
Once(s) == \A j, k \in DOMAIN s : s[j] = s[k] => j = k

LEMMA AppendMembers ==
  ASSUME NEW T, NEW s \in Seq(T), NEW e \in T
  PROVE  /\ Append(s, e) \in Seq(T)
         /\ Members(Append(s, e)) = Members(s) \cup {e}
         /\ Once(s) /\ e \notin Members(s) => Once(Append(s, e))
  <1> DEFINE t == Append(s, e)
             n == Len(s)
  <1>1. /\ n \in Nat /\ t \in Seq(T)
        /\ DOMAIN s = 1..n /\ DOMAIN t = 1..(n + 1)
        /\ \A i \in 1..n : t[i] = s[i]
        /\ t[n + 1] = e
    BY AppendProperties, LenProperties
  <1> HIDE DEF t, n
  <1>2. \A i \in DOMAIN t : i = n + 1 \/ i \in 1..n
    BY <1>1
  <1>3. n + 1 \in DOMAIN t /\ \A i \in 1..n : i \in DOMAIN t
    BY <1>1
  <1>4. Members(t) = Members(s) \cup {e}
    BY <1>1, <1>2, <1>3 DEF Members
  <1>5. ASSUME Once(s), e \notin Members(s) PROVE Once(t)
    <2>1. \A i \in 1..n : t[i] # e
      BY <1>1, <1>5 DEF Members
    <2> QED
      BY <1>1, <1>2, <1>5, <2>1 DEF Once
  <1> QED
    BY <1>1, <1>4, <1>5 DEF t

\* Only keeps the elements of S, and each as often as it occurred if that was once.
LEMMA OnlyKeeps ==
  ASSUME NEW T, NEW s \in Seq(T), NEW S
  PROVE  /\ Only(s, S) \in Seq(T)
         /\ Members(Only(s, S)) = Members(s) \cap S
         /\ Once(s) => Once(Only(s, S))
  <1> DEFINE n == Len(s)
             UpTo(i) == {s[j] : j \in 1..i}
             X == [i \in 0..n |-> {x \in Seq(T) : /\ Members(x) = UpTo(i) \cap S
                                                  /\ Once(s) => Once(x)}]
  <1>1. n \in Nat /\ DOMAIN s = 1..n /\ \A i \in 1..n : s[i] \in T
    BY ElementOfSeq, LenProperties
  <1>2. PICK h : /\ h[0] = <<>>
                 /\ \A i \in 1..n :
                      h[i] = IF s[i] \in S THEN Append(h[i - 1], s[i]) ELSE h[i - 1]
                 /\ Only(s, S) = h[n]
    BY OnlyDef
  <1> HIDE DEF n
  <1>3. h[0] \in X[0]
    <2>1. 0 \in 0..n /\ UpTo(0) = {} /\ <<>> \in Seq(T)
      BY <1>1
    <2>2. Members(<<>>) = {} /\ Once(<<>>)
      BY DEF Members, Once
    <2> QED
      BY <1>2, <2>1, <2>2
  <1>4. ASSUME NEW i \in 1..n, h[i - 1] \in X[i - 1] PROVE h[i] \in X[i]
    <2>1. i \in 0..n /\ i - 1 \in 0..n /\ s[i] \in T
      BY <1>1
    <2>2. UpTo(i) = UpTo(i - 1) \cup {s[i]}
      <3>1. \A j \in 1..i : j = i \/ j \in 1..(i - 1)
        BY <1>1
      <3>2. i \in 1..i /\ \A j \in 1..(i - 1) : j \in 1..i
        BY <1>1
      <3> QED
        BY <3>1, <3>2
    <2>3. Once(s) => s[i] \notin UpTo(i - 1)
      <3>1. \A j \in 1..(i - 1) : j \in 1..n /\ j # i
        BY <1>1
      <3> QED
        BY <1>1, <3>1 DEF Once
    <2> HIDE DEF UpTo
    <2>4. h[i - 1] \in Seq(T) /\ Members(h[i - 1]) = UpTo(i - 1) \cap S /\ (Once(s) => Once(h[i - 1]))
      BY <1>4, <2>1
    <2>5. h[i] \in Seq(T) /\ Members(h[i]) = UpTo(i) \cap S /\ (Once(s) => Once(h[i]))
      <3>1. CASE s[i] \in S
        <4>1. h[i] = Append(h[i - 1], s[i])
          BY <1>2, <3>1
        <4> QED
          BY <2>1, <2>2, <2>3, <2>4, <3>1, <4>1, AppendMembers
      <3>2. CASE s[i] \notin S
        BY <1>2, <2>2, <2>4, <3>2
      <3> QED
        BY <3>1, <3>2
    <2> QED
      BY <2>1, <2>5
  <1>5. h[n] \in X[n]
    <2>1. n \in 0..n
      BY <1>1
    <2> HIDE DEF X
    <2> QED
      BY <1>1, <1>3, <1>4, <2>1, Chain
  <1>6. UpTo(n) = Members(s)
    BY <1>1 DEF Members
  <1>7. n \in 0..n
    BY <1>1
  <1> HIDE DEF UpTo
  <1> QED
    BY <1>2, <1>5, <1>6, <1>7

-----------------------------------------------------------------------------
(* The inductive invariant *)

Ids == 1..MaxDocs
Entry == [key: Texts, num: Numbers, ids: Seq(Ids)]
Document == [id: Ids, value: Records]

\* The texts of the values of f.
TextsOf(f) ==
  {t \in Texts : /\ Type[f] = "number" => Num[t] # NoNum
                 /\ Type[f] = "bool" => t \in {"true", "false"}}

\* A text is entered in this entry.
Alike(f, t, e) == IF Type[f] = "number" THEN Num[t] = e.num ELSE t = e.key

\* Which numbers an entry of f may have: only one of an element index has junk.
EntryFits(f, e) ==
  /\ e.key \in TextsOf(f)
  /\ Type[f] = "number" => e.num = Num[e.key]
  /\ Type[f] \in {"text", "bool"} => e.num = NoNum

Differ(f, d, e) == d.key # e.key /\ (Type[f] = "number" => d.num # e.num)

\* P is a set of pairs of an id and a text of the document.
Posted(P, id, t) == P \cup {<<id, t>>}
PostedAll(P, id, S) == P \cup ({id} \X S)
IdsWith(f, P, e) == {p[1] : p \in {q \in P : Alike(f, q[2], e)}}

\* The entries es hold exactly what is in P.
IndexOf(f, es, P) ==
  /\ es \in Seq(Entry)
  /\ \A i \in DOMAIN es : /\ EntryFits(f, es[i])
                          /\ Once(es[i].ids)
                          /\ Members(es[i].ids) = IdsWith(f, P, es[i])
  /\ \A i, j \in DOMAIN es : i = j \/ Differ(f, es[i], es[j])
  /\ \A p \in P : \E i \in DOMAIN es : Alike(f, p[2], es[i])

Postings(f, D) == UNION {{doc.id} \X Members(doc.value[f]) : doc \in D}

IdsOnce ==
  /\ \A i \in DOMAIN docs : docs[i].id <= counter
  /\ \A i, j \in DOMAIN docs : docs[i].id = docs[j].id => i = j

Indexed ==
  \A f \in Fields :
    IF IndexType[f] = "none" THEN entries[f] = <<>>
    ELSE IndexOf(f, entries[f], Postings(f, Members(docs)))

QInv == TypeOK /\ IdsOnce /\ Indexed

-----------------------------------------------------------------------------
(* Values, texts and entries *)

\* A value of f is a sequence of texts of f, for a number of at most one.
LEMMA ValueTyped ==
  ASSUME NEW f \in Fields, NEW r \in Records
  PROVE  /\ r[f] \in Seq(TextsOf(f))
         /\ Type[f] = "number" => \A j, k \in DOMAIN r[f] : j = k
  <1> DEFINE v == r[f]
  <1>1. v \in Values(f)
    BY DEF Records
  <1> HIDE DEF v
  <1>2. Type[f] \in {"number", "text", "bool", "texts"}
    BY QueryAssumption
  <1>3. \/ v = <<>>
        \/ \E t \in TextsOf(f) : v = <<t>>
        \/ Type[f] = "texts" /\ v \in Texts \X Texts
    <2>1. CASE Type[f] = "number"
      BY <1>1, <2>1 DEF Values, TextsOf
    <2>2. CASE Type[f] = "bool"
      BY <1>1, <2>2 DEF Values, TextsOf
    <2>3. CASE Type[f] = "text"
      BY <1>1, <2>3 DEF Values, TextsOf
    <2>4. CASE Type[f] = "texts"
      BY <1>1, <2>4 DEF Values, TextsOf
    <2> QED
      BY <1>2, <2>1, <2>2, <2>3, <2>4
  <1>4. CASE v = <<>>
    BY <1>4 DEF v
  <1>5. CASE \E t \in TextsOf(f) : v = <<t>>
    <2>1. PICK t \in TextsOf(f) : v = <<t>>
      BY <1>5
    <2>2. v \in Seq(TextsOf(f)) /\ \A j, k \in DOMAIN v : j = k
      BY <2>1
    <2> QED
      BY <2>2 DEF v
  <1>6. CASE Type[f] = "texts" /\ v \in Texts \X Texts
    <2>1. TextsOf(f) = Texts
      BY <1>6 DEF TextsOf
    <2>2. PICK s \in Texts, t \in Texts : v = <<s, t>>
      BY <1>6
    <2>3. v \in Seq(Texts)
      BY <2>2
    <2> QED
      BY <1>6, <2>1, <2>3 DEF v
  <1> QED
    BY <1>3, <1>4, <1>5, <1>6

\* A text of f has a number, or none, and so has what junk gives it.
LEMMA NumTyped ==
  ASSUME NEW t \in Texts
  PROVE  Num[t] \in Numbers /\ NoNum \in Numbers
  BY DEF Numbers

\* The places of a search with at most one hit.
LEMMA FirstOfOne ==
  ASSUME NEW S, S \subseteq Nat, \A i, j \in S : i = j
  PROVE  FirstOf(S) = S
  <1>1. ASSUME NEW i \in S, NEW j \in S PROVE i <= j
    <2>1. i \in Nat /\ i = j
      OBVIOUS
    <2> QED
      BY <2>1
  <1> QED
    BY <1>1 DEF FirstOf

\* add_index_key finds the one entry in which the key belongs: for a number first
\* by the number, and the search by the key then finds no other.
LEMMA EntryForFinds ==
  ASSUME NEW f \in Fields, NEW es \in Seq(Entry), NEW t \in TextsOf(f),
         \A i \in DOMAIN es : EntryFits(f, es[i]),
         \A i, j \in DOMAIN es : i = j \/ Differ(f, es[i], es[j])
  PROVE  /\ EntryFor(f, es, t) = {i \in DOMAIN es : Alike(f, t, es[i])}
         /\ \A i, j \in EntryFor(f, es, t) : i = j
  <1> DEFINE A == {i \in DOMAIN es : Alike(f, t, es[i])}
             K == {i \in DOMAIN es : es[i].key = t}
             N == {i \in DOMAIN es : es[i].num # NoNum /\ es[i].num = Num[t]}
  <1>1. DOMAIN es \subseteq Nat
    BY LenProperties
  <1>2. ByKey(es, t) = K
    <2>1. \A i, j \in K : i = j
      BY DEF Differ
    <2>2. K \subseteq Nat
      BY <1>1
    <2> QED
      BY <2>1, <2>2, FirstOfOne DEF ByKey
  <1>3. CASE Type[f] = "number"
    <2>1. Num[t] # NoNum
      BY <1>3 DEF TextsOf
    <2>2. N = A
      BY <1>3, <2>1 DEF Alike
    <2>3. \A i, j \in A : i = j
      BY <1>3 DEF Alike, Differ
    <2>4. ByNumber(es, Num[t]) = A
      <3>1. N \subseteq Nat
        BY <1>1
      <3> HIDE DEF A
      <3> QED
        BY <2>2, <2>3, <3>1, FirstOfOne DEF ByNumber
    <2>5. A = {} => K = {}
      BY <1>3 DEF Alike, EntryFits
    <2> HIDE DEF A, K
    <2> QED
      BY <1>2, <1>3, <2>3, <2>4, <2>5 DEF EntryFor, A
  <1>4. CASE Type[f] # "number"
    <2>1. EntryFor(f, es, t) = K
      BY <1>2, <1>4 DEF EntryFor
    <2>2. K = A /\ \A i, j \in K : i = j
      BY <1>4 DEF Alike, Differ
    <2> QED
      BY <2>1, <2>2
  <1> QED
    BY <1>3, <1>4

\* add_doc_id_to_entry
LEMMA WithIdAdds ==
  ASSUME NEW T, NEW ids \in Seq(T), NEW id \in T
  PROVE  /\ WithId(ids, id) \in Seq(T)
         /\ Members(WithId(ids, id)) = Members(ids) \cup {id}
         /\ Once(ids) => Once(WithId(ids, id))
  <1>1. CASE id \in Members(ids)
    <2>1. WithId(ids, id) = ids
      BY <1>1 DEF WithId, Members
    <2> QED
      BY <1>1, <2>1
  <1>2. CASE id \notin Members(ids)
    <2>1. WithId(ids, id) = Append(ids, id)
      BY <1>2 DEF WithId, Members
    <2> QED
      BY <1>2, <2>1, AppendMembers
  <1> QED
    BY <1>1, <1>2

\* The ids in an entry when one more pair is posted.
LEMMA IdsWithMore ==
  ASSUME NEW f, NEW P, NEW e, NEW id, NEW t
  PROVE  /\ Alike(f, t, e) => IdsWith(f, Posted(P, id, t), e) = IdsWith(f, P, e) \cup {id}
         /\ ~Alike(f, t, e) => IdsWith(f, Posted(P, id, t), e) = IdsWith(f, P, e)
  <1> DEFINE Q == Posted(P, id, t)
             A == {q \in Q : Alike(f, q[2], e)}
             B == {q \in P : Alike(f, q[2], e)}
  <1>1. CASE Alike(f, t, e)
    <2>1. A = B \cup {<<id, t>>}
      BY <1>1 DEF Posted
    <2> HIDE DEF A, B
    <2>2. {p[1] : p \in A} = {p[1] : p \in B} \cup {id}
      <3>1. <<id, t>> \in A /\ <<id, t>>[1] = id /\ B \subseteq A
        BY <2>1
      <3>2. \A p \in A : p \in B \/ p[1] = id
        BY <2>1
      <3> QED
        BY <3>1, <3>2
    <2> QED
      BY <1>1, <2>2 DEF IdsWith, A, B
  <1>2. CASE ~Alike(f, t, e)
    <2>1. A = B
      BY <1>2 DEF Posted
    <2> QED
      BY <1>2, <2>1 DEF IdsWith
  <1> QED
    BY <1>1, <1>2

\* add_index_key enters the document under the key, in the entry of an equal key
\* or in a new one.
LEMMA AddKeyEnters ==
  ASSUME NEW f \in Fields, IndexType[f] # "none", NEW es, NEW P, IndexOf(f, es, P),
         NEW id \in Ids, NEW t \in TextsOf(f), NEW junk \in [Texts -> Numbers]
  PROVE  IndexOf(f, AddKey(f, es, id, t, junk), Posted(P, id, t))
  <1> DEFINE at == EntryFor(f, es, t)
             Q == Posted(P, id, t)
             to == AddKey(f, es, id, t, junk)
             n == Len(es)
  <1>1. es \in Seq(Entry) /\ n \in Nat /\ DOMAIN es = 1..n /\ t \in Texts
    BY LenProperties DEF IndexOf, TextsOf
  <1>2. /\ \A i \in 1..n : /\ es[i] \in Entry
                           /\ EntryFits(f, es[i])
                           /\ Once(es[i].ids)
                           /\ Members(es[i].ids) = IdsWith(f, P, es[i])
        /\ \A i, j \in 1..n : i = j \/ Differ(f, es[i], es[j])
        /\ \A p \in P : \E i \in 1..n : Alike(f, p[2], es[i])
    BY <1>1, ElementOfSeq DEF IndexOf
  <1>3. at = {i \in 1..n : Alike(f, t, es[i])} /\ \A i, j \in at : i = j
    <2>1. /\ \A i \in DOMAIN es : EntryFits(f, es[i])
          /\ \A i, j \in DOMAIN es : i = j \/ Differ(f, es[i], es[j])
      BY <1>1, <1>2
    <2> QED
      BY <1>1, <2>1, EntryForFinds
  <1> HIDE DEF at, n
  <1>4. \A e : /\ Alike(f, t, e) => IdsWith(f, Q, e) = IdsWith(f, P, e) \cup {id}
               /\ ~Alike(f, t, e) => IdsWith(f, Q, e) = IdsWith(f, P, e)
    BY IdsWithMore
  <1>5. CASE at = {}
    <2> DEFINE added == [key |-> t, num |-> NumberOf(f, t, junk), ids |-> <<id>>]
    <2>1. to = Append(es, added)
      BY <1>5 DEF AddKey, at
    <2>2. added \in Entry /\ added.key = t /\ added.ids = <<id>> /\ added.num = NumberOf(f, t, junk)
      <3>1. NumberOf(f, t, junk) \in Numbers
        BY <1>1, NumTyped DEF NumberOf
      <3>2. <<id>> \in Seq(Ids)
        OBVIOUS
      <3> QED
        BY <1>1, <3>1, <3>2 DEF Entry
    <2>3. EntryFits(f, added) /\ (Type[f] = "number" => added.num = Num[t])
      <3>1. Type[f] # "texts" => IndexType[f] # "hashElements"
        BY QueryAssumption
      <3>2. /\ Type[f] = "number" => NumberOf(f, t, junk) = Num[t]
            /\ Type[f] \in {"text", "bool"} => NumberOf(f, t, junk) = NoNum
        BY <3>1 DEF NumberOf
      <3> HIDE DEF added
      <3> QED
        BY <2>2, <3>2 DEF EntryFits
    <2> HIDE DEF added
    <2>4. \A s : Alike(f, s, added) <=> IF Type[f] = "number" THEN Num[s] = Num[t] ELSE s = t
      BY <2>2, <2>3 DEF Alike
    <2>5. ASSUME NEW i \in 1..n PROVE ~Alike(f, t, es[i]) /\ Differ(f, es[i], added) /\ Differ(f, added, es[i])
      <3>1. ~Alike(f, t, es[i])
        BY <1>3, <1>5
      <3> QED
        BY <1>2, <2>2, <2>3, <3>1 DEF Alike, Differ, EntryFits
    <2>6. ASSUME NEW p \in P PROVE ~Alike(f, p[2], added)
      <3>1. PICK i \in 1..n : Alike(f, p[2], es[i])
        BY <1>2
      <3> QED
        BY <2>4, <2>5, <3>1 DEF Alike
    <2>7. IdsWith(f, Q, added) = {id}
      <3>1. IdsWith(f, P, added) = {}
        BY <2>6 DEF IdsWith
      <3>2. Alike(f, t, added)
        BY <2>4
      <3> HIDE DEF Q
      <3> QED
        BY <1>4, <3>1, <3>2
    <2>8. Once(added.ids) /\ Members(added.ids) = {id}
      BY <2>2 DEF Once, Members
    <2>9. /\ to \in Seq(Entry) /\ DOMAIN to = 1..(n + 1) /\ to[n + 1] = added
          /\ \A i \in 1..n : to[i] = es[i]
          /\ \A i \in 1..(n + 1) : i \in 1..n \/ i = n + 1
          /\ n + 1 \in 1..(n + 1) /\ \A i \in 1..n : i \in 1..(n + 1)
      BY <1>1, <2>1, <2>2, AppendProperties DEF n
    <2> HIDE DEF to
    <2>10. ASSUME NEW i \in DOMAIN to
           PROVE  EntryFits(f, to[i]) /\ Once(to[i].ids) /\ Members(to[i].ids) = IdsWith(f, Q, to[i])
      <3>1. CASE i = n + 1
        BY <2>3, <2>7, <2>8, <2>9, <3>1
      <3>2. CASE i \in 1..n
        <4>1. IdsWith(f, Q, es[i]) = IdsWith(f, P, es[i])
          BY <1>4, <2>5, <3>2
        <4> QED
          BY <1>2, <2>9, <3>2, <4>1
      <3> QED
        BY <2>9, <3>1, <3>2
    <2>11. \A i, j \in DOMAIN to : i = j \/ Differ(f, to[i], to[j])
      BY <1>2, <2>5, <2>9
    <2>12. ASSUME NEW p \in Q PROVE \E i \in DOMAIN to : Alike(f, p[2], to[i])
      <3>1. CASE p \in P
        BY <1>2, <2>9, <3>1
      <3>2. CASE p = <<id, t>>
        <4>1. p[2] = t /\ Alike(f, t, added)
          BY <2>4, <3>2
        <4> QED
          BY <2>9, <4>1
      <3> QED
        BY <3>1, <3>2 DEF Posted
    <2> HIDE DEF Q
    <2> QED
      BY <2>9, <2>10, <2>11, <2>12 DEF IndexOf, to, Q
  <1>6. CASE at # {}
    <2>1. to = [i \in 1..n |-> IF i \in at THEN [es[i] EXCEPT !.ids = WithId(@, id)] ELSE es[i]]
      BY <1>1, <1>6 DEF AddKey, at
    <2> HIDE DEF to
    <2>2. ASSUME NEW i \in 1..n
          PROVE  /\ to[i] \in Entry /\ to[i].key = es[i].key /\ to[i].num = es[i].num
                 /\ Once(to[i].ids)
                 /\ Members(to[i].ids) = IF i \in at THEN Members(es[i].ids) \cup {id}
                                         ELSE Members(es[i].ids)
      <3>1. es[i] \in Entry /\ es[i].ids \in Seq(Ids) /\ Once(es[i].ids)
        BY <1>2 DEF Entry
      <3>2. CASE i \in at
        <4>1. to[i] = [es[i] EXCEPT !.ids = WithId(es[i].ids, id)]
          BY <2>1, <3>2
        <4>2. /\ WithId(es[i].ids, id) \in Seq(Ids)
              /\ Members(WithId(es[i].ids, id)) = Members(es[i].ids) \cup {id}
              /\ Once(WithId(es[i].ids, id))
          BY <3>1, WithIdAdds
        <4>3. /\ to[i] \in Entry /\ to[i].key = es[i].key /\ to[i].num = es[i].num
              /\ to[i].ids = WithId(es[i].ids, id)
          BY <3>1, <4>1, <4>2 DEF Entry
        <4> QED
          BY <3>2, <4>2, <4>3
      <3>3. CASE i \notin at
        BY <2>1, <3>1, <3>3
      <3> QED
        BY <3>2, <3>3
    <2>3. \A i \in 1..n : \A s : Alike(f, s, to[i]) <=> Alike(f, s, es[i])
      BY <2>2 DEF Alike
    <2>4. DOMAIN to = 1..n /\ to \in Seq(Entry)
      <3>1. DOMAIN to = 1..n /\ to = [i \in 1..n |-> to[i]]
        BY <2>1
      <3>2. to \in Seq(Entry)
        <4>1. to \in [1..n -> Entry]
          BY <2>2, <3>1
        <4> QED
          BY <1>1, <4>1, SeqDef
      <3> QED
        BY <3>1, <3>2
    <2>5. ASSUME NEW i \in 1..n
          PROVE  EntryFits(f, to[i]) /\ Members(to[i].ids) = IdsWith(f, Q, to[i])
      <3>1. EntryFits(f, to[i])
        BY <1>2, <2>2 DEF EntryFits
      <3>2. IdsWith(f, Q, to[i]) = IdsWith(f, Q, es[i])
        BY <2>3 DEF IdsWith
      <3>3. IdsWith(f, Q, es[i]) = IF i \in at THEN IdsWith(f, P, es[i]) \cup {id}
                                   ELSE IdsWith(f, P, es[i])
        BY <1>3, <1>4
      <3> QED
        BY <1>2, <2>2, <3>1, <3>2, <3>3
    <2>6. \A i, j \in 1..n : i = j \/ Differ(f, to[i], to[j])
      BY <1>2, <2>2 DEF Differ
    <2>7. ASSUME NEW p \in Q PROVE \E i \in 1..n : Alike(f, p[2], to[i])
      <3>1. CASE p \in P
        BY <1>2, <2>3, <3>1
      <3>2. CASE p = <<id, t>>
        <4>1. p[2] = t
          BY <3>2
        <4> QED
          BY <1>3, <1>6, <2>3, <4>1
      <3> QED
        BY <3>1, <3>2 DEF Posted
    <2> HIDE DEF Q
    <2> QED
      BY <2>2, <2>4, <2>5, <2>6, <2>7 DEF IndexOf, to, Q
  <1> QED
    BY <1>5, <1>6

\* add_index_key for one key after the other enters the document under them all.
LEMMA AddKeysEnter ==
  ASSUME NEW f \in Fields, IndexType[f] # "none", NEW es, NEW P, IndexOf(f, es, P),
         NEW id \in Ids, NEW keys \in Seq(TextsOf(f)), NEW junk \in [Texts -> Numbers]
  PROVE  IndexOf(f, AddKeys(f, es, id, keys, junk), PostedAll(P, id, Members(keys)))
  <1> DEFINE n == Len(keys)
             UpTo(i) == {keys[j] : j \in 1..i}
             X == [i \in 0..n |-> {x \in Seq(Entry) : IndexOf(f, x, PostedAll(P, id, UpTo(i)))}]
             E(i, x) == AddKey(f, x, id, keys[i], junk)
             step == [i \in 1..n |-> [x \in Seq(Entry) |-> E(i, x)]]
             Is(h) == h = [i \in 0..n |-> IF i = 0 THEN es ELSE E(i, h[i - 1])]
  <1>1. /\ n \in Nat /\ 0 \in 0..n /\ n \in 0..n
        /\ DOMAIN keys = 1..n
        /\ \A i \in 1..n : keys[i] \in TextsOf(f)
        /\ \A i \in 0..n : i # 0 => i \in 1..n
        /\ \A i \in 1..n : i \in 0..n /\ i # 0 /\ i - 1 \in 0..n
    BY ElementOfSeq, LenProperties
  <1>2. AddKeys(f, es, id, keys, junk) = (CHOOSE h : Is(h))[n]
    BY DEF AddKeys
  <1> HIDE DEF n
  <1>3. es \in X[0]
    <2>1. UpTo(0) = {} /\ PostedAll(P, id, {}) = P
      BY DEF PostedAll
    <2> QED
      BY <1>1, <2>1 DEF IndexOf
  <1>4. ASSUME NEW i \in 1..n, NEW x \in X[i - 1] PROVE E(i, x) \in X[i] /\ step[i][x] = E(i, x)
    <2>1. x \in Seq(Entry) /\ IndexOf(f, x, PostedAll(P, id, UpTo(i - 1)))
      BY <1>1
    <2>2. PostedAll(P, id, UpTo(i)) = Posted(PostedAll(P, id, UpTo(i - 1)), id, keys[i])
      <3>1. \A j \in 1..i : j = i \/ j \in 1..(i - 1)
        BY <1>1
      <3>2. i \in 1..i /\ \A j \in 1..(i - 1) : j \in 1..i
        BY <1>1
      <3>3. UpTo(i) = UpTo(i - 1) \cup {keys[i]}
        BY <3>1, <3>2
      <3> HIDE DEF UpTo
      <3> QED
        BY <3>3 DEF PostedAll, Posted
    <2> HIDE DEF UpTo
    <2>3. IndexOf(f, E(i, x), PostedAll(P, id, UpTo(i)))
      BY <1>1, <2>1, <2>2, AddKeyEnters
    <2>4. E(i, x) \in Seq(Entry)
      BY <2>3 DEF IndexOf
    <2> HIDE DEF E
    <2> QED
      BY <1>1, <2>1, <2>3, <2>4
  <1> HIDE DEF X, step, E
  <1>5. PICK g : Rounds(es, step, n, g) /\ \A i \in 0..n : g[i] \in X[i]
    <2>1. n \in Nat /\ \A i \in 1..n : \A x \in X[i - 1] : step[i][x] \in X[i]
      BY <1>1, <1>4
    <2> QED
      BY <1>3, <2>1, RoundsExist
  <1>6. Is(g)
    BY <1>1, <1>4, <1>5 DEF Rounds
  <1>7. PICK h : Is(h) /\ AddKeys(f, es, id, keys, junk) = h[n]
    <2> HIDE DEF Is
    <2> QED
      BY <1>2, <1>6
  <1>8. h[0] \in X[0] /\ \A i \in 1..n : h[i - 1] \in X[i - 1] => h[i] \in X[i]
    BY <1>1, <1>3, <1>4, <1>7
  <1>9. h[n] \in X[n]
    BY <1>1, <1>8, Chain
  <1>10. UpTo(n) = Members(keys)
    BY <1>1 DEF Members
  <1> HIDE DEF UpTo
  <1> QED
    BY <1>1, <1>7, <1>9, <1>10 DEF X

\* index_document
LEMMA AddDocEnters ==
  ASSUME NEW f \in Fields, IndexType[f] # "none", NEW es, NEW P, IndexOf(f, es, P),
         NEW doc \in Document, NEW junk \in [Texts -> Numbers]
  PROVE  IndexOf(f, AddDoc(f, es, doc, junk), PostedAll(P, doc.id, Members(doc.value[f])))
  <1>1. doc.id \in Ids /\ doc.value \in Records
    BY DEF Document
  <1>2. doc.value[f] \in Seq(TextsOf(f))
    BY <1>1, ValueTyped
  <1> QED
    BY <1>1, <1>2, AddKeysEnter DEF AddDoc

LEMMA PostingsMore ==
  ASSUME NEW f, NEW D, NEW doc
  PROVE  Postings(f, D \cup {doc}) = PostedAll(Postings(f, D), doc.id, Members(doc.value[f]))
  BY DEF Postings, PostedAll

\* rebuild_indexes: the index it makes holds what the documents have.
LEMMA RebuiltIndexes ==
  ASSUME NEW f \in Fields, IndexType[f] # "none", NEW ds \in Seq(Document),
         NEW junk \in [Texts -> Numbers]
  PROVE  IndexOf(f, Rebuilt(f, ds, junk), Postings(f, Members(ds)))
  <1> DEFINE n == Len(ds)
             UpTo(i) == {ds[j] : j \in 1..i}
             X == [i \in 0..n |-> {x \in Seq(Entry) : IndexOf(f, x, Postings(f, UpTo(i)))}]
             E(i, x) == AddDoc(f, x, ds[i], junk)
             step == [i \in 1..n |-> [x \in Seq(Entry) |-> E(i, x)]]
             Is(h) == h = [i \in 0..n |-> IF i = 0 THEN <<>> ELSE E(i, h[i - 1])]
  <1>1. /\ n \in Nat /\ 0 \in 0..n /\ n \in 0..n
        /\ DOMAIN ds = 1..n
        /\ \A i \in 1..n : ds[i] \in Document
        /\ \A i \in 0..n : i # 0 => i \in 1..n
        /\ \A i \in 1..n : i \in 0..n /\ i # 0 /\ i - 1 \in 0..n
    BY ElementOfSeq, LenProperties
  <1>2. Rebuilt(f, ds, junk) = (CHOOSE h : Is(h))[n]
    BY DEF Rebuilt
  <1> HIDE DEF n
  <1>3. <<>> \in X[0]
    <2>1. UpTo(0) = {} /\ Postings(f, {}) = {}
      BY DEF Postings
    <2>2. IndexOf(f, <<>>, {}) /\ <<>> \in Seq(Entry)
      BY DEF IndexOf
    <2> QED
      BY <1>1, <2>1, <2>2
  <1>4. ASSUME NEW i \in 1..n, NEW x \in X[i - 1] PROVE E(i, x) \in X[i] /\ step[i][x] = E(i, x)
    <2>1. x \in Seq(Entry) /\ IndexOf(f, x, Postings(f, UpTo(i - 1)))
      BY <1>1
    <2>2. Postings(f, UpTo(i)) = PostedAll(Postings(f, UpTo(i - 1)), ds[i].id, Members(ds[i].value[f]))
      <3>1. \A j \in 1..i : j = i \/ j \in 1..(i - 1)
        BY <1>1
      <3>2. i \in 1..i /\ \A j \in 1..(i - 1) : j \in 1..i
        BY <1>1
      <3>3. UpTo(i) = UpTo(i - 1) \cup {ds[i]}
        BY <3>1, <3>2
      <3> HIDE DEF UpTo
      <3> QED
        BY <3>3, PostingsMore
    <2> HIDE DEF UpTo
    <2>3. IndexOf(f, E(i, x), Postings(f, UpTo(i)))
      BY <1>1, <2>1, <2>2, AddDocEnters
    <2>4. E(i, x) \in Seq(Entry)
      BY <2>3 DEF IndexOf
    <2> HIDE DEF E
    <2> QED
      BY <1>1, <2>1, <2>3, <2>4
  <1> HIDE DEF X, step, E
  <1>5. PICK g : Rounds(<<>>, step, n, g) /\ \A i \in 0..n : g[i] \in X[i]
    <2>1. n \in Nat /\ \A i \in 1..n : \A x \in X[i - 1] : step[i][x] \in X[i]
      BY <1>1, <1>4
    <2> QED
      BY <1>3, <2>1, RoundsExist
  <1>6. Is(g)
    BY <1>1, <1>4, <1>5 DEF Rounds
  <1>7. PICK h : Is(h) /\ Rebuilt(f, ds, junk) = h[n]
    <2> HIDE DEF Is
    <2> QED
      BY <1>2, <1>6
  <1>8. h[0] \in X[0] /\ \A i \in 1..n : h[i - 1] \in X[i - 1] => h[i] \in X[i]
    BY <1>1, <1>3, <1>4, <1>7
  <1>9. h[n] \in X[n]
    BY <1>1, <1>8, Chain
  <1>10. UpTo(n) = Members(ds)
    BY <1>1 DEF Members
  <1> HIDE DEF UpTo
  <1> QED
    BY <1>1, <1>7, <1>9, <1>10 DEF X

\* rebuild_indexes leaves a field without an index alone.
LEMMA RebuiltNone ==
  ASSUME NEW f \in Fields, IndexType[f] = "none", NEW ds \in Seq(Document), NEW junk
  PROVE  Rebuilt(f, ds, junk) = <<>>
  <1> DEFINE n == Len(ds)
             E(i, x) == AddDoc(f, x, ds[i], junk)
             Is(h) == h = [i \in 0..n |-> IF i = 0 THEN <<>> ELSE E(i, h[i - 1])]
             X == [i \in 0..n |-> {<<>>}]
  <1>1. /\ n \in Nat /\ 0 \in 0..n /\ n \in 0..n
        /\ \A i \in 1..n : i \in 0..n /\ i # 0 /\ i - 1 \in 0..n
    BY LenProperties
  <1>2. Rebuilt(f, ds, junk) = (CHOOSE h : Is(h))[n]
    BY DEF Rebuilt
  <1>3. \A i, x : E(i, x) = x
    BY DEF AddDoc
  <1> HIDE DEF n, E
  <1>4. Is([i \in 0..n |-> <<>>])
    BY <1>1, <1>3
  <1>5. PICK h : Is(h) /\ Rebuilt(f, ds, junk) = h[n]
    <2> HIDE DEF Is
    <2> QED
      BY <1>2, <1>4
  <1>6. h[0] \in X[0] /\ \A i \in 1..n : h[i - 1] \in X[i - 1] => h[i] \in X[i]
    BY <1>1, <1>3, <1>5
  <1>7. h[n] \in X[n]
    <2> HIDE DEF X
    <2> QED
      BY <1>1, <1>6, Chain
  <1> QED
    BY <1>1, <1>5, <1>7

\* remove_doc_from_indexes takes the document out of every entry, and no other.
LEMMA RemoveIdTakesOut ==
  ASSUME NEW f \in Fields, NEW es, NEW P, IndexOf(f, es, P), NEW id
  PROVE  IndexOf(f, RemoveId(es, id), {p \in P : p[1] # id})
  <1> DEFINE Q == {p \in P : p[1] # id}
             to == RemoveId(es, id)
             n == Len(es)
             left(i) == Only(es[i].ids, Members(es[i].ids) \ {id})
  <1>1. es \in Seq(Entry) /\ n \in Nat /\ DOMAIN es = 1..n
    BY LenProperties DEF IndexOf
  <1>2. /\ \A i \in 1..n : /\ es[i] \in Entry
                           /\ EntryFits(f, es[i])
                           /\ Once(es[i].ids)
                           /\ Members(es[i].ids) = IdsWith(f, P, es[i])
        /\ \A i, j \in 1..n : i = j \/ Differ(f, es[i], es[j])
        /\ \A p \in P : \E i \in 1..n : Alike(f, p[2], es[i])
    BY <1>1, ElementOfSeq DEF IndexOf
  <1>3. to = [i \in 1..n |-> [es[i] EXCEPT !.ids = left(i)]]
    BY <1>1 DEF RemoveId
  <1> HIDE DEF to, n, left
  <1>4. ASSUME NEW i \in 1..n
        PROVE  /\ to[i] \in Entry /\ to[i].key = es[i].key /\ to[i].num = es[i].num
               /\ Once(to[i].ids) /\ Members(to[i].ids) = Members(es[i].ids) \ {id}
    <2>1. es[i] \in Entry /\ es[i].ids \in Seq(Ids) /\ Once(es[i].ids)
      BY <1>2 DEF Entry
    <2>2. /\ left(i) \in Seq(Ids) /\ Once(left(i))
          /\ Members(left(i)) = Members(es[i].ids) \ {id}
      <3>1. Members(left(i)) = Members(es[i].ids) \cap (Members(es[i].ids) \ {id})
        BY <2>1, OnlyKeeps DEF left
      <3> QED
        BY <2>1, <3>1, OnlyKeeps DEF left
    <2>3. to[i] = [es[i] EXCEPT !.ids = left(i)]
      BY <1>3
    <2>4. to[i] \in Entry /\ to[i].key = es[i].key /\ to[i].num = es[i].num /\ to[i].ids = left(i)
      BY <2>1, <2>2, <2>3 DEF Entry
    <2> QED
      BY <2>2, <2>4
  <1>5. DOMAIN to = 1..n /\ to \in Seq(Entry)
    <2>1. DOMAIN to = 1..n /\ to = [i \in 1..n |-> to[i]]
      BY <1>3
    <2>2. to \in [1..n -> Entry]
      BY <1>4, <2>1
    <2>3. to \in Seq(Entry)
      BY <1>1, <2>2, SeqDef
    <2> QED
      BY <2>1, <2>3
  <1>6. \A i \in 1..n : \A s : Alike(f, s, to[i]) <=> Alike(f, s, es[i])
    BY <1>4 DEF Alike
  <1>7. ASSUME NEW i \in 1..n
        PROVE  EntryFits(f, to[i]) /\ Members(to[i].ids) = IdsWith(f, Q, to[i])
    <2>1. EntryFits(f, to[i])
      BY <1>2, <1>4 DEF EntryFits
    <2>2. IdsWith(f, Q, to[i]) = IdsWith(f, P, es[i]) \ {id}
      <3>1. IdsWith(f, Q, to[i]) = IdsWith(f, Q, es[i])
        BY <1>6 DEF IdsWith
      <3>2. IdsWith(f, Q, es[i]) = IdsWith(f, P, es[i]) \ {id}
        BY DEF IdsWith
      <3> QED
        BY <3>1, <3>2
    <2> QED
      BY <1>2, <1>4, <2>1, <2>2
  <1>8. \A i, j \in 1..n : i = j \/ Differ(f, to[i], to[j])
    BY <1>2, <1>4 DEF Differ
  <1>9. \A p \in Q : \E i \in 1..n : Alike(f, p[2], to[i])
    BY <1>2, <1>6
  <1> HIDE DEF Q
  <1> QED
    BY <1>4, <1>5, <1>7, <1>8, <1>9 DEF IndexOf, to, Q

-----------------------------------------------------------------------------
(* QInv is an invariant *)

\* The variables, with their types named.
LEMMA Typed ==
  TypeOK <=> /\ docs \in Seq(Document)
             /\ entries \in [Fields -> Seq(Entry)]
             /\ counter \in 0..MaxDocs
  BY DEF TypeOK, Document, Entry, Ids

\* The memory of a new entry holds a number, or none, for every text.
LEMMA JunkTyped ==
  ASSUME NEW junk \in Junk
  PROVE  junk \in [Texts -> Numbers]
  <1>1. NoNum \in Numbers
    BY DEF Numbers
  <1> QED
    BY <1>1 DEF Junk

\* That documents have different ids, said of the set of documents.
LEMMA IdsOfMembers ==
  ASSUME NEW ds \in Seq(Document)
  PROVE  (\A i, j \in DOMAIN ds : ds[i].id = ds[j].id => i = j)
           <=> Once(ds) /\ \A d, e \in Members(ds) : d.id = e.id => d = e
  BY DEF Once, Members

\* Indexes that hold what they should have their type.
LEMMA IndexedNow ==
  ASSUME NEW ds, NEW es, DOMAIN es = Fields, es = [f \in Fields |-> es[f]],
         \A f \in Fields : IF IndexType[f] = "none" THEN es[f] = <<>>
                           ELSE IndexOf(f, es[f], Postings(f, Members(ds)))
  PROVE  es \in [Fields -> Seq(Entry)]
  <1>1. ASSUME NEW f \in Fields PROVE es[f] \in Seq(Entry)
    <2>1. <<>> \in Seq(Entry)
      OBVIOUS
    <2>2. IndexType[f] # "none" => es[f] \in Seq(Entry)
      BY DEF IndexOf
    <2> QED
      BY <2>1, <2>2
  <1> QED
    BY <1>1

LEMMA QInvInit == Init => QInv
  <1> SUFFICES ASSUME Init PROVE QInv
    OBVIOUS
  <1>1. docs = <<>> /\ counter = 0 /\ entries = [f \in Fields |-> <<>>]
    BY DEF Init
  <1>2. Members(docs) = {}
    BY <1>1 DEF Members
  <1>3. Indexed
    <2>1. ASSUME NEW f \in Fields PROVE IndexOf(f, <<>>, Postings(f, {}))
      <3>1. Postings(f, {}) = {} /\ <<>> \in Seq(Entry)
        BY DEF Postings
      <3> QED
        BY <3>1 DEF IndexOf
    <2> QED
      BY <1>1, <1>2, <2>1 DEF Indexed
  <1>4. TypeOK
    <2>1. MaxDocs \in Nat
      BY QueryAssumption
    <2>2. <<>> \in Seq(Entry) /\ <<>> \in Seq(Document)
      OBVIOUS
    <2> QED
      BY <1>1, <2>1, <2>2, Typed
  <1>5. IdsOnce
    BY <1>1 DEF IdsOnce
  <1> QED
    BY <1>3, <1>4, <1>5 DEF QInv

\* A document entered with the next id.
LEMMA PutKeepsQInv ==
  ASSUME QInv, NEW value \in Records, NEW junk \in Junk, Put(value, junk)
  PROVE  QInv'
  <1> DEFINE doc == [id |-> counter + 1, value |-> value]
  <1>1. /\ docs \in Seq(Document) /\ entries \in [Fields -> Seq(Entry)]
        /\ counter \in 0..MaxDocs /\ MaxDocs \in Nat
    BY Typed, QueryAssumption DEF QInv
  <1>2. /\ counter < MaxDocs /\ counter' = counter + 1
        /\ docs' = Append(docs, doc)
        /\ entries' = [f \in Fields |-> AddDoc(f, entries[f], doc, junk)]
    BY DEF Put
  <1>3. doc \in Document /\ doc.id = counter + 1
    BY <1>1, <1>2 DEF Document, Ids
  <1> HIDE DEF doc
  <1>4. docs' \in Seq(Document) /\ Members(docs') = Members(docs) \cup {doc}
    BY <1>1, <1>2, <1>3, AppendMembers
  <1>5. Indexed'
    <2> SUFFICES ASSUME NEW f \in Fields
                 PROVE  IF IndexType[f] = "none" THEN entries'[f] = <<>>
                        ELSE IndexOf(f, entries'[f], Postings(f, Members(docs')))
      BY DEF Indexed
    <2>1. entries'[f] = AddDoc(f, entries[f], doc, junk)
      BY <1>2
    <2>2. CASE IndexType[f] = "none"
      BY <2>1, <2>2 DEF QInv, Indexed, AddDoc
    <2>3. CASE IndexType[f] # "none"
      <3>1. IndexOf(f, entries[f], Postings(f, Members(docs)))
        BY <2>3 DEF QInv, Indexed
      <3>2. junk \in [Texts -> Numbers]
        BY JunkTyped
      <3>3. IndexOf(f, entries'[f],
                    PostedAll(Postings(f, Members(docs)), doc.id, Members(doc.value[f])))
        BY <1>3, <2>1, <2>3, <3>1, <3>2, AddDocEnters
      <3> QED
        BY <1>4, <2>3, <3>3, PostingsMore
    <2> QED
      BY <2>2, <2>3
  <1>6. TypeOK'
    <2>1. counter' \in 0..MaxDocs
      BY <1>1, <1>2
    <2>2. entries' \in [Fields -> Seq(Entry)]
      BY <1>2, <1>5, IndexedNow DEF Indexed
    <2> QED
      BY <1>4, <2>1, <2>2, Typed DEF TypeOK, Document, Entry, Ids
  <1>7. IdsOnce'
    <2>1. Len(docs) \in Nat /\ DOMAIN docs = 1..Len(docs)
      BY <1>1, LenProperties
    <2>2. DOMAIN docs' = 1..(Len(docs) + 1) /\ docs'[Len(docs) + 1] = doc
          /\ \A i \in 1..Len(docs) : docs'[i] = docs[i]
      BY <1>1, <1>2, <1>3, <2>1, AppendProperties
    <2>3. \A i \in 1..Len(docs) : docs[i].id <= counter /\ docs[i].id \in 1..MaxDocs
      <3>1. \A i \in 1..Len(docs) : docs[i] \in Document
        BY <1>1, ElementOfSeq
      <3>2. \A i \in 1..Len(docs) : docs[i].id <= counter
        BY <2>1 DEF QInv, IdsOnce
      <3> QED
        BY <3>1, <3>2 DEF Document, Ids
    <2>4. \A i \in DOMAIN docs' : i \in 1..Len(docs) \/ i = Len(docs) + 1
      BY <2>1, <2>2
    <2>5. \A i \in 1..Len(docs) : docs'[i].id <= counter /\ docs'[i].id # doc.id
      BY <1>1, <1>3, <2>2, <2>3
    <2>6. \A i \in DOMAIN docs' : docs'[i].id <= counter'
      BY <1>1, <1>2, <1>3, <2>2, <2>3, <2>4
    <2>7. \A i, j \in DOMAIN docs' : docs'[i].id = docs'[j].id => i = j
      BY <2>1, <2>2, <2>4, <2>5 DEF QInv, IdsOnce
    <2> QED
      BY <2>6, <2>7 DEF IdsOnce
  <1> QED
    BY <1>5, <1>6, <1>7 DEF QInv

\* An id taken out of what is posted.
Without(P, id) == {p \in P : p[1] # id}

\* A document whose fields were not all indexed is taken out again, and no trace
\* of its id stays.
LEMMA PutNotIndexedKeepsQInv ==
  ASSUME QInv, NEW value \in Records, NEW junk \in Junk, NEW done \in SUBSET Fields,
         PutNotIndexed(value, junk, done)
  PROVE  QInv'
  <1> DEFINE doc == [id |-> counter + 1, value |-> value]
  <1>1. /\ docs \in Seq(Document) /\ entries \in [Fields -> Seq(Entry)]
        /\ counter \in 0..MaxDocs /\ MaxDocs \in Nat
    BY Typed, QueryAssumption DEF QInv
  <1>2. /\ counter < MaxDocs /\ counter' = counter + 1
        /\ docs' = docs
        /\ entries' = [f \in Fields |->
             IF f \in done THEN RemoveId(AddDoc(f, entries[f], doc, junk), doc.id) ELSE entries[f]]
    BY DEF PutNotIndexed
  <1>3. doc \in Document /\ doc.id = counter + 1
    BY <1>1, <1>2 DEF Document, Ids
  <1> HIDE DEF doc
  <1>4. \A d \in Members(docs) : d.id <= counter /\ d.id \in Nat /\ d.id # doc.id
    <2>1. ASSUME NEW i \in DOMAIN docs PROVE docs[i].id <= counter /\ docs[i].id \in Nat
      <3>1. docs[i] \in Document
        BY <1>1, ElementOfSeq, LenProperties
      <3> QED
        BY <3>1 DEF QInv, IdsOnce, Document, Ids
    <2> QED
      BY <1>1, <1>3, <2>1 DEF Members
  <1>5. Indexed'
    <2> SUFFICES ASSUME NEW f \in Fields
                 PROVE  IF IndexType[f] = "none" THEN entries'[f] = <<>>
                        ELSE IndexOf(f, entries'[f], Postings(f, Members(docs)))
      BY <1>2 DEF Indexed
    <2>1. CASE f \notin done
      BY <1>2, <2>1 DEF QInv, Indexed
    <2>2. CASE f \in done /\ IndexType[f] = "none"
      <3>1. entries[f] = <<>> /\ entries'[f] = RemoveId(entries[f], doc.id)
        BY <1>2, <2>2 DEF QInv, Indexed, AddDoc
      <3> QED
        BY <2>2, <3>1 DEF RemoveId
    <2>3. CASE f \in done /\ IndexType[f] # "none"
      <3> DEFINE P == Postings(f, Members(docs))
                 Q == PostedAll(P, doc.id, Members(doc.value[f]))
      <3>1. IndexOf(f, entries[f], P)
        BY <2>3 DEF QInv, Indexed
      <3>2. IndexOf(f, AddDoc(f, entries[f], doc, junk), Q)
        BY <1>3, <2>3, <3>1, JunkTyped, AddDocEnters
      <3>3. Without(Q, doc.id) = P
        <4>1. \A p \in P : p[1] # doc.id
          BY <1>4 DEF Postings
        <4>2. \A p \in Q : p \in P \/ p[1] = doc.id
          BY DEF PostedAll
        <4>3. P \subseteq Q
          BY DEF PostedAll
        <4> HIDE DEF P, Q
        <4> QED
          BY <4>1, <4>2, <4>3 DEF Without
      <3> HIDE DEF P, Q
      <3>4. IndexOf(f, RemoveId(AddDoc(f, entries[f], doc, junk), doc.id), Without(Q, doc.id))
        BY <3>2, RemoveIdTakesOut DEF Without
      <3> QED
        BY <1>2, <2>3, <3>3, <3>4 DEF P
    <2> QED
      BY <2>1, <2>2, <2>3
  <1>6. TypeOK'
    <2>1. counter' \in 0..MaxDocs
      BY <1>1, <1>2
    <2>2. entries' \in [Fields -> Seq(Entry)]
      BY <1>2, <1>5, IndexedNow DEF Indexed
    <2> QED
      BY <1>1, <1>2, <2>1, <2>2, Typed DEF TypeOK, Document, Entry, Ids
  <1>7. IdsOnce'
    <2>1. \A i \in DOMAIN docs : docs[i].id <= counter'
      BY <1>1, <1>2, <1>4 DEF Members
    <2> QED
      BY <1>2, <2>1 DEF QInv, IdsOnce
  <1> QED
    BY <1>5, <1>6, <1>7 DEF QInv

LEMMA DeleteKeepsQInv ==
  ASSUME QInv, NEW id, Delete(id)
  PROVE  QInv'
  <1> DEFINE S == {doc \in Members(docs) : doc.id # id}
  <1>1. /\ docs \in Seq(Document) /\ entries \in [Fields -> Seq(Entry)]
        /\ counter \in 0..MaxDocs
    BY Typed DEF QInv
  <1>2. /\ docs' = Only(docs, S) /\ counter' = counter
        /\ entries' = [f \in Fields |-> RemoveId(entries[f], id)]
    BY DEF Delete
  <1>3. docs' \in Seq(Document) /\ Members(docs') = S /\ (Once(docs) => Once(docs'))
    <2>1. S = Members(docs) \cap S
      OBVIOUS
    <2> HIDE DEF S
    <2> QED
      BY <1>1, <1>2, <2>1, OnlyKeeps
  <1>4. IdsOnce'
    <2>1. Once(docs) /\ \A d, e \in Members(docs) : d.id = e.id => d = e
      BY <1>1, IdsOfMembers DEF QInv, IdsOnce
    <2>2. \A i, j \in DOMAIN docs' : docs'[i].id = docs'[j].id => i = j
      BY <1>3, <2>1, IdsOfMembers
    <2>3. \A d \in Members(docs) : d.id <= counter
      BY DEF QInv, IdsOnce, Members
    <2>4. \A i \in DOMAIN docs' : docs'[i] \in Members(docs)
      BY <1>3 DEF Members
    <2> QED
      BY <1>2, <2>2, <2>3, <2>4 DEF IdsOnce
  <1>5. Indexed'
    <2> SUFFICES ASSUME NEW f \in Fields
                 PROVE  IF IndexType[f] = "none" THEN entries'[f] = <<>>
                        ELSE IndexOf(f, entries'[f], Postings(f, Members(docs')))
      BY DEF Indexed
    <2>1. CASE IndexType[f] = "none"
      <3>1. entries[f] = <<>> /\ entries'[f] = RemoveId(entries[f], id)
        BY <1>2, <2>1 DEF QInv, Indexed
      <3> QED
        BY <2>1, <3>1 DEF RemoveId
    <2>2. CASE IndexType[f] # "none"
      <3>1. IndexOf(f, entries[f], Postings(f, Members(docs)))
        BY <2>2 DEF QInv, Indexed
      <3>2. Postings(f, S) = Without(Postings(f, Members(docs)), id)
        BY DEF Postings, Without
      <3>3. IndexOf(f, entries'[f], Without(Postings(f, Members(docs)), id))
        BY <1>2, <3>1, RemoveIdTakesOut DEF Without
      <3> HIDE DEF S
      <3> QED
        BY <1>3, <2>2, <3>2, <3>3
    <2> QED
      BY <2>1, <2>2
  <1>6. TypeOK'
    <2>1. entries' \in [Fields -> Seq(Entry)]
      BY <1>2, <1>5, IndexedNow DEF Indexed
    <2> QED
      BY <1>1, <1>2, <1>3, <2>1 DEF TypeOK, Document, Entry, Ids
  <1> QED
    BY <1>4, <1>5, <1>6 DEF QInv

LEMMA ReopenKeepsQInv ==
  ASSUME QInv, NEW junk \in Junk, Reopen(junk)
  PROVE  QInv'
  <1>1. docs \in Seq(Document) /\ counter \in 0..MaxDocs
    BY Typed DEF QInv
  <1>2. /\ docs' = docs /\ counter' = counter
        /\ entries' = [f \in Fields |-> Rebuilt(f, docs, junk)]
    BY DEF Reopen
  <1>3. Indexed'
    <2> SUFFICES ASSUME NEW f \in Fields
                 PROVE  IF IndexType[f] = "none" THEN entries'[f] = <<>>
                        ELSE IndexOf(f, entries'[f], Postings(f, Members(docs)))
      BY <1>2 DEF Indexed
    <2>1. CASE IndexType[f] = "none"
      BY <1>1, <1>2, <2>1, RebuiltNone
    <2>2. CASE IndexType[f] # "none"
      BY <1>1, <1>2, <2>2, JunkTyped, RebuiltIndexes
    <2> QED
      BY <2>1, <2>2
  <1>4. TypeOK'
    <2>1. entries' \in [Fields -> Seq(Entry)]
      BY <1>2, <1>3, IndexedNow DEF Indexed
    <2> QED
      BY <1>1, <1>2, <2>1 DEF TypeOK, Document, Entry, Ids
  <1>5. IdsOnce'
    BY <1>2 DEF QInv, IdsOnce
  <1> QED
    BY <1>3, <1>4, <1>5 DEF QInv

LEMMA QInvNext == QInv /\ [Next]_vars => QInv'
  <1> SUFFICES ASSUME QInv, [Next]_vars PROVE QInv'
    OBVIOUS
  <1>1. ASSUME NEW value \in Records, NEW junk \in Junk, Put(value, junk) PROVE QInv'
    BY <1>1, PutKeepsQInv
  <1>2. ASSUME NEW value \in Records, NEW junk \in Junk, NEW done \in SUBSET Fields,
               PutNotIndexed(value, junk, done)
        PROVE  QInv'
    BY <1>2, PutNotIndexedKeepsQInv
  <1>3. ASSUME NEW id \in 1..MaxDocs, Delete(id) PROVE QInv'
    BY <1>3, DeleteKeepsQInv
  <1>4. ASSUME NEW junk \in Junk, Reopen(junk) PROVE QInv'
    BY <1>4, ReopenKeepsQInv
  <1>5. CASE UNCHANGED vars
    BY <1>5 DEF vars, QInv, TypeOK, IdsOnce, Indexed
  <1> QED
    BY <1>1, <1>2, <1>3, <1>4, <1>5 DEF Next

\* In every reachable state the documents have different ids, none above the
\* counter, and each index holds exactly what the documents have.
THEOREM QInvHolds == Spec => []QInv
  <1>1. Init => QInv
    BY QInvInit
  <1>2. QInv /\ [Next]_vars => QInv'
    BY QInvNext
  <1> QED
    BY <1>1, <1>2, PTL DEF Spec

\* Documents, entries and the counter keep their types.
THEOREM TypeOKHolds == Spec => []TypeOK
  <1>1. QInv => TypeOK
    BY DEF QInv
  <1> QED
    BY <1>1, QInvHolds, PTL

\* There is one entry per text, and per number, whatever was put, deleted, left by
\* a failed put and rebuilt.
THEOREM OneEntryPerKeyHolds == Spec => []OneEntryPerKey
  <1>1. ASSUME QInv PROVE OneEntryPerKey
    <2> SUFFICES ASSUME NEW f \in Fields, NEW i \in DOMAIN entries[f], NEW j \in DOMAIN entries[f]
                 PROVE  i = j \/ Differ(f, entries[f][i], entries[f][j])
      BY DEF OneEntryPerKey, Differ
    <2>1. CASE IndexType[f] = "none"
      <3>1. entries[f] = <<>>
        BY <1>1, <2>1 DEF QInv, Indexed
      <3> QED
        BY <3>1
    <2>2. CASE IndexType[f] # "none"
      <3>1. IndexOf(f, entries[f], Postings(f, Members(docs)))
        BY <1>1, <2>2 DEF QInv, Indexed
      <3> QED
        BY <3>1 DEF IndexOf
    <2> QED
      BY <2>1, <2>2
  <1> QED
    BY <1>1, QInvHolds, PTL

-----------------------------------------------------------------------------
(* Lookups *)

LEMMA ConcatMembers ==
  ASSUME NEW T, NEW s \in Seq(T), NEW t \in Seq(T)
  PROVE  /\ s \o t \in Seq(T)
         /\ Members(s \o t) = Members(s) \cup Members(t)
         /\ Once(s) /\ Once(t) /\ Members(s) \cap Members(t) = {} => Once(s \o t)
  <1> DEFINE u == s \o t
             m == Len(s)
             n == Len(t)
  <1>1. /\ m \in Nat /\ n \in Nat /\ u \in Seq(T) /\ Len(u) = m + n
        /\ DOMAIN s = 1..m /\ DOMAIN t = 1..n /\ DOMAIN u = 1..(m + n)
        /\ \A i \in 1..(m + n) : u[i] = IF i <= m THEN s[i] ELSE t[i - m]
    BY LenProperties, ConcatProperties
  <1> HIDE DEF u, m, n
  <1>2. \A i \in 1..m : i \in DOMAIN u /\ u[i] = s[i]
    BY <1>1
  <1>3. \A i \in 1..n : i + m \in DOMAIN u /\ u[i + m] = t[i]
    <2> SUFFICES ASSUME NEW i \in 1..n PROVE i + m \in DOMAIN u /\ u[i + m] = t[i]
      OBVIOUS
    <2>1. i + m \in 1..(m + n) /\ ~(i + m <= m) /\ (i + m) - m = i
      BY <1>1
    <2> QED
      BY <1>1, <2>1
  <1>4. \A i \in DOMAIN u : i \in 1..m \/ (i - m \in 1..n /\ u[i] = t[i - m])
    BY <1>1
  <1>5. Members(u) = Members(s) \cup Members(t)
    <2>1. ASSUME NEW e \in Members(s) PROVE e \in Members(u)
      <3>1. PICK i \in 1..m : e = s[i]
        BY <1>1 DEF Members
      <3> QED
        BY <1>2, <3>1 DEF Members
    <2>2. ASSUME NEW e \in Members(t) PROVE e \in Members(u)
      <3>1. PICK i \in 1..n : e = t[i]
        BY <1>1 DEF Members
      <3> QED
        BY <1>3, <3>1 DEF Members
    <2>3. ASSUME NEW e \in Members(u) PROVE e \in Members(s) \/ e \in Members(t)
      <3>1. PICK i \in DOMAIN u : e = u[i]
        BY DEF Members
      <3> QED
        BY <1>1, <1>2, <1>4, <3>1 DEF Members
    <2> QED
      BY <2>1, <2>2, <2>3
  <1>6. ASSUME Once(s), Once(t), Members(s) \cap Members(t) = {} PROVE Once(u)
    <2>1. \A i \in 1..m : \A j \in 1..n : s[i] # t[j]
      BY <1>1, <1>6 DEF Members
    <2> SUFFICES ASSUME NEW i \in DOMAIN u, NEW j \in DOMAIN u, u[i] = u[j] PROVE i = j
      BY DEF Once
    <2>2. CASE i \in 1..m /\ j \in 1..m
      BY <1>1, <1>2, <1>6, <2>2 DEF Once
    <2>3. CASE i \in 1..m /\ j \notin 1..m
      BY <1>2, <1>4, <2>1, <2>3
    <2>4. CASE i \notin 1..m /\ j \in 1..m
      BY <1>2, <1>4, <2>1, <2>4
    <2>5. CASE i \notin 1..m /\ j \notin 1..m
      <3>1. i - m \in 1..n /\ j - m \in 1..n /\ t[i - m] = t[j - m]
        BY <1>4, <2>5
      <3>2. i - m = j - m
        BY <1>1, <1>6, <3>1 DEF Once
      <3> QED
        BY <1>1, <3>2
    <2> QED
      BY <2>2, <2>3, <2>4, <2>5
  <1> QED
    BY <1>1, <1>5, <1>6 DEF u

\* The entries at places share no id, and none has one twice.
Apart(es, places) ==
  /\ \A i \in DOMAIN es : Once(es[i].ids)
  /\ \A i, j \in places \cap DOMAIN es :
       i = j \/ Members(es[i].ids) \cap Members(es[j].ids) = {}

\* The ids of some entries: those of each, once if the entries share none.
LEMMA IdsAtFinds ==
  ASSUME NEW es \in Seq(Entry), NEW places
  PROVE  /\ IdsAt(es, places) \in Seq(Ids)
         /\ Apart(es, places) => Once(IdsAt(es, places))
         /\ Members(IdsAt(es, places)) = UNION {Members(es[i].ids) : i \in places \cap DOMAIN es}
  <1> DEFINE n == Len(es)
             UpTo(i) == UNION {Members(es[j].ids) : j \in places \cap (1..i)}
             X == [i \in 0..n |-> {x \in Seq(Ids) : /\ Apart(es, places) => Once(x)
                                                /\ Members(x) = UpTo(i)}]
             E(i, x) == IF i \in places THEN x \o es[i].ids ELSE x
             step == [i \in 1..n |-> [x \in Seq(Ids) |-> E(i, x)]]
             Is(h) == h = [i \in 0..n |-> IF i = 0 THEN <<>> ELSE E(i, h[i - 1])]
  <1>1. /\ n \in Nat /\ 0 \in 0..n /\ n \in 0..n
        /\ DOMAIN es = 1..n
        /\ \A i \in 1..n : es[i] \in Entry
        /\ \A i \in 0..n : i # 0 => i \in 1..n
        /\ \A i \in 1..n : i \in 0..n /\ i # 0 /\ i - 1 \in 0..n
    BY ElementOfSeq, LenProperties
  <1>2. IdsAt(es, places) = (CHOOSE h : Is(h))[n]
    BY DEF IdsAt
  <1> HIDE DEF n
  <1>3. <<>> \in X[0]
    <2>1. UpTo(0) = {} /\ <<>> \in Seq(Ids)
      OBVIOUS
    <2>2. Once(<<>>) /\ Members(<<>>) = {}
      BY DEF Once, Members
    <2> QED
      BY <1>1, <2>1, <2>2
  <1>4. ASSUME NEW i \in 1..n, NEW x \in X[i - 1] PROVE E(i, x) \in X[i] /\ step[i][x] = E(i, x)
    <2>1. x \in Seq(Ids) /\ (Apart(es, places) => Once(x)) /\ Members(x) = UpTo(i - 1)
      BY <1>1
    <2>2. es[i].ids \in Seq(Ids) /\ (Apart(es, places) => Once(es[i].ids))
      BY <1>1 DEF Entry, Apart
    <2>3. \A j \in 1..i : j = i \/ j \in 1..(i - 1)
      BY <1>1
    <2>4. i \in 1..i /\ \A j \in 1..(i - 1) : j \in 1..i /\ j \in 1..n /\ j # i
      BY <1>1
    <2>5. CASE i \in places
      <3>1. UpTo(i) = UpTo(i - 1) \cup Members(es[i].ids)
        BY <2>3, <2>4, <2>5
      <3>2. Apart(es, places) => UpTo(i - 1) \cap Members(es[i].ids) = {}
        <4> SUFFICES ASSUME Apart(es, places), NEW id \in UpTo(i - 1), id \in Members(es[i].ids)
                     PROVE  FALSE
          OBVIOUS
        <4>1. PICK j \in places \cap (1..(i - 1)) : id \in Members(es[j].ids)
          OBVIOUS
        <4>2. i \in places \cap DOMAIN es /\ j \in places \cap DOMAIN es /\ i # j
          BY <1>1, <2>4, <2>5
        <4> QED
          BY <4>1, <4>2 DEF Apart
      <3> HIDE DEF UpTo
      <3>3. /\ x \o es[i].ids \in Seq(Ids)
            /\ Apart(es, places) => Once(x \o es[i].ids)
            /\ Members(x \o es[i].ids) = UpTo(i)
        BY <2>1, <2>2, <3>1, <3>2, ConcatMembers
      <3> QED
        BY <1>1, <2>1, <2>5, <3>3
    <2>6. CASE i \notin places
      <3>1. UpTo(i) = UpTo(i - 1)
        BY <2>3, <2>4, <2>6
      <3> HIDE DEF UpTo
      <3> QED
        BY <1>1, <2>1, <2>6, <3>1
    <2> QED
      BY <2>5, <2>6
  <1> HIDE DEF X, step, E
  <1>5. PICK g : Rounds(<<>>, step, n, g) /\ \A i \in 0..n : g[i] \in X[i]
    <2>1. n \in Nat /\ \A i \in 1..n : \A x \in X[i - 1] : step[i][x] \in X[i]
      BY <1>1, <1>4
    <2> QED
      BY <1>3, <2>1, RoundsExist
  <1>6. Is(g)
    BY <1>1, <1>4, <1>5 DEF Rounds
  <1>7. PICK h : Is(h) /\ IdsAt(es, places) = h[n]
    <2> HIDE DEF Is
    <2> QED
      BY <1>2, <1>6
  <1>8. h[0] \in X[0] /\ \A i \in 1..n : h[i - 1] \in X[i - 1] => h[i] \in X[i]
    BY <1>1, <1>3, <1>4, <1>7
  <1>9. h[n] \in X[n]
    BY <1>1, <1>8, Chain
  <1>10. UpTo(n) = UNION {Members(es[i].ids) : i \in places \cap DOMAIN es}
    BY <1>1
  <1> HIDE DEF UpTo
  <1> QED
    BY <1>1, <1>7, <1>9, <1>10 DEF X

\* blob_field_matches_value, for one text of the value.
TextMatches(f, t, c) ==
  IF Type[f] = "number" THEN c.num # NoNum /\ Compares(Num[t], c.op, c.num)
  ELSE IF Type[f] = "bool" THEN c.kind = "bool" /\ t = c.text
  ELSE c.kind = "string" /\ t = c.text

LEMMA MatchesText ==
  ASSUME NEW f, NEW value, NEW c
  PROVE  Matches(f, value, c) <=> \E t \in Members(value) : TextMatches(f, t, c)
  BY DEF Matches, TextMatches, Members

\* The documents that meet a condition.
Meeting(f, c) == {i \in DOMAIN docs : Matches(f, docs[i].value[f], c)}

\* The ids found are those of the hits, said of the set of documents.
LEMMA SameIdsOfMembers ==
  ASSUME NEW found, NEW f, NEW c
  PROVE  SameIds(found, Meeting(f, c))
           <=> /\ Once(found)
               /\ Members(found) = {d.id : d \in {e \in Members(docs) : Matches(f, e.value[f], c)}}
  <1>1. {docs[i].id : i \in Meeting(f, c)}
          = {d.id : d \in {e \in Members(docs) : Matches(f, e.value[f], c)}}
    BY DEF Meeting, Members
  <1> QED
    BY <1>1 DEF SameIds, Once, Members

\* An index lookup finds the documents that meet the condition, each once, if the
\* entries it takes are those in which the texts belong that match.
LEMMA LookupFinds ==
  ASSUME QInv, NEW f \in Fields, IndexType[f] # "none", NEW c, NEW places,
         \A i \in DOMAIN entries[f] : \A t \in TextsOf(f) :
           Alike(f, t, entries[f][i]) => (TextMatches(f, t, c) <=> i \in places),
         Type[f] = "number" \/ \A i, j \in places : i = j
  PROVE  IdsAt(entries[f], places) \in Seq(Ids) /\ SameIds(IdsAt(entries[f], places), Meeting(f, c))
  <1> DEFINE es == entries[f]
             P == Postings(f, Members(docs))
             at == places \cap DOMAIN es
             found == IdsAt(es, places)
  <1>1. IndexOf(f, es, P)
    BY DEF QInv, Indexed
  <1>2. es \in Seq(Entry)
    BY <1>1 DEF IndexOf
  <1>3. \A d \in Members(docs) : d \in Document
    BY Typed, ElementOfSeq, LenProperties DEF QInv, Members
  <1>4. \A d \in Members(docs) : /\ Members(d.value[f]) \subseteq TextsOf(f)
                                 /\ Type[f] = "number" => \A s, t \in Members(d.value[f]) : s = t
    <2> SUFFICES ASSUME NEW d \in Members(docs)
                 PROVE  /\ Members(d.value[f]) \subseteq TextsOf(f)
                        /\ Type[f] = "number" => \A s, t \in Members(d.value[f]) : s = t
      OBVIOUS
    <2>1. d.value \in Records
      BY <1>3 DEF Document
    <2>2. d.value[f] \in Seq(TextsOf(f))
      BY <2>1, ValueTyped
    <2>3. Members(d.value[f]) \subseteq TextsOf(f)
      BY <2>2, ElementOfSeq, LenProperties DEF Members
    <2>4. Type[f] = "number" => \A j, k \in DOMAIN d.value[f] : j = k
      BY <2>1, ValueTyped
    <2> QED
      BY <2>3, <2>4 DEF Members
  <1>5. \A d, e \in Members(docs) : d.id = e.id => d = e
    BY Typed, IdsOfMembers DEF QInv, IdsOnce
  <1>6. \A i \in DOMAIN es : Members(es[i].ids) = {p[1] : p \in {q \in P : Alike(f, q[2], es[i])}}
    BY <1>1 DEF IndexOf, IdsWith
  <1>7. \A p \in P : \E i \in DOMAIN es : Alike(f, p[2], es[i])
    BY <1>1 DEF IndexOf
  <1>8. \A p \in P : \E d \in Members(docs) : p[1] = d.id /\ p[2] \in Members(d.value[f])
    BY DEF Postings
  <1>9. \A d \in Members(docs) : \A t \in Members(d.value[f]) : <<d.id, t>> \in P
    BY DEF Postings
  <1>10. \A i, j \in at : i = j \/ Members(es[i].ids) \cap Members(es[j].ids) = {}
    <2> SUFFICES ASSUME NEW i \in at, NEW j \in at, i # j, NEW id,
                        id \in Members(es[i].ids), id \in Members(es[j].ids)
                 PROVE  FALSE
      OBVIOUS
    <2>1. Type[f] = "number"
      OBVIOUS
    <2>2. PICK p \in P : p[1] = id /\ Alike(f, p[2], es[i])
      BY <1>6
    <2>3. PICK q \in P : q[1] = id /\ Alike(f, q[2], es[j])
      BY <1>6
    <2>4. p[2] = q[2]
      BY <1>4, <1>5, <1>8, <2>1, <2>2, <2>3
    <2>5. es[i].num = es[j].num
      BY <2>1, <2>2, <2>3, <2>4 DEF Alike
    <2>6. Differ(f, es[i], es[j])
      BY <1>1 DEF IndexOf
    <2> QED
      BY <2>1, <2>5, <2>6 DEF Differ
  <1>11. /\ found \in Seq(Ids) /\ Once(found)
         /\ Members(found) = UNION {Members(es[i].ids) : i \in at}
    <2>1. \A i \in DOMAIN es : Once(es[i].ids)
      BY <1>1 DEF IndexOf
    <2> HIDE DEF es
    <2>2. Apart(es, places)
      BY <1>10, <2>1 DEF Apart
    <2> QED
      BY <1>2, <2>2, IdsAtFinds
  <1>12. Members(found) = {d.id : d \in {e \in Members(docs) : Matches(f, e.value[f], c)}}
    <2>1. ASSUME NEW i \in at, NEW id \in Members(es[i].ids)
          PROVE  \E d \in Members(docs) : d.id = id /\ Matches(f, d.value[f], c)
      <3>1. PICK p \in P : p[1] = id /\ Alike(f, p[2], es[i])
        BY <1>6
      <3>2. PICK d \in Members(docs) : p[1] = d.id /\ p[2] \in Members(d.value[f])
        BY <1>8
      <3>3. TextMatches(f, p[2], c)
        BY <1>4, <3>1, <3>2
      <3> QED
        BY <3>1, <3>2, <3>3, MatchesText
    <2>2. ASSUME NEW d \in Members(docs), Matches(f, d.value[f], c)
          PROVE  \E i \in at : d.id \in Members(es[i].ids)
      <3>1. PICK t \in Members(d.value[f]) : TextMatches(f, t, c)
        BY <2>2, MatchesText
      <3>2. <<d.id, t>> \in P /\ t \in TextsOf(f)
        BY <1>4, <1>9
      <3>3. PICK i \in DOMAIN es : Alike(f, t, es[i])
        <4>1. <<d.id, t>>[2] = t
          OBVIOUS
        <4> HIDE DEF P
        <4> QED
          BY <1>7, <3>2, <4>1
      <3>4. i \in at
        BY <3>1, <3>2, <3>3
      <3>5. d.id \in Members(es[i].ids)
        <4>1. <<d.id, t>>[1] = d.id /\ <<d.id, t>>[2] = t
          OBVIOUS
        <4> HIDE DEF P, es
        <4> QED
          BY <1>6, <3>2, <3>3, <4>1
      <3> QED
        BY <3>4, <3>5
    <2> DEFINE hits == {e \in Members(docs) : Matches(f, e.value[f], c)}
    <2>3. ASSUME NEW id \in Members(found) PROVE id \in {d.id : d \in hits}
      <3>1. PICK i \in at : id \in Members(es[i].ids)
        BY <1>11
      <3> HIDE DEF at, es
      <3> QED
        BY <2>1, <3>1
    <2>4. ASSUME NEW d \in hits PROVE d.id \in Members(found)
      <3>1. PICK i \in at : d.id \in Members(es[i].ids)
        BY <2>2
      <3> HIDE DEF found, at, es
      <3> QED
        BY <1>11, <3>1
    <2> HIDE DEF found, hits
    <2>5. Members(found) = {d.id : d \in hits}
      BY <2>3, <2>4
    <2> QED
      BY <2>5 DEF hits
  <1> HIDE DEF found
  <1> QED
    BY <1>11, <1>12, SameIdsOfMembers DEF found

\* scan_docs_for_member finds the documents that meet the condition, each once.
LEMMA ScanFinds ==
  ASSUME QInv, NEW f, NEW c
  PROVE  /\ Scan(f, c) = Found(Scan(f, c).ids)
         /\ Scan(f, c).ids \in Seq(Ids)
         /\ SameIds(Scan(f, c).ids, Meeting(f, c))
  <1> DEFINE S == {d \in Members(docs) : Matches(f, d.value[f], c)}
             hits == Only(docs, S)
             ids == [i \in DOMAIN hits |-> hits[i].id]
  <1>1. docs \in Seq(Document)
    BY Typed DEF QInv
  <1>2. Once(docs) /\ \A d, e \in Members(docs) : d.id = e.id => d = e
    BY <1>1, IdsOfMembers DEF QInv, IdsOnce
  <1>3. hits \in Seq(Document) /\ Members(hits) = S /\ Once(hits)
    <2>1. S = Members(docs) \cap S
      OBVIOUS
    <2> HIDE DEF S
    <2> QED
      BY <1>1, <1>2, <2>1, OnlyKeeps
  <1>4. Scan(f, c) = Found(ids)
    BY DEF Scan
  <1>5. Scan(f, c).ids = ids
    BY <1>4 DEF Found
  <1> HIDE DEF hits
  <1>6. Len(hits) \in Nat /\ DOMAIN hits = 1..Len(hits) /\ \A i \in DOMAIN hits : hits[i].id \in Ids
    <2>1. Len(hits) \in Nat /\ DOMAIN hits = 1..Len(hits)
      BY <1>3, LenProperties
    <2>2. \A i \in DOMAIN hits : hits[i] \in Document
      BY <1>3, <2>1, ElementOfSeq
    <2> QED
      BY <2>1, <2>2 DEF Document
  <1>7. ids \in Seq(Ids)
    <2>1. ids \in [1..Len(hits) -> Ids]
      BY <1>6
    <2> HIDE DEF ids
    <2> QED
      BY <1>6, <2>1, SeqDef
  <1>8. Once(ids)
    <2> SUFFICES ASSUME NEW i \in DOMAIN hits, NEW j \in DOMAIN hits, hits[i].id = hits[j].id
                 PROVE  i = j
      BY DEF Once
    <2>1. hits[i] \in Members(docs) /\ hits[j] \in Members(docs)
      BY <1>3 DEF Members
    <2> QED
      BY <1>2, <1>3, <2>1 DEF Once
  <1>9. Members(ids) = {d.id : d \in S}
    <2>1. Members(ids) = {d.id : d \in Members(hits)}
      BY DEF Members
    <2> HIDE DEF ids, S
    <2> QED
      BY <1>3, <2>1
  <1> HIDE DEF ids
  <1> QED
    BY <1>4, <1>5, <1>7, <1>8, <1>9, SameIdsOfMembers

LEMMA ConditionTyped ==
  ASSUME NEW c \in Conditions
  PROVE  /\ c.kind \in {"number", "string", "bool", "null", "range"}
         /\ c.num \in Numbers
         /\ c.kind # "range" => c.op = "eq"
         /\ c.kind = "number" => c.num # NoNum
         /\ c.kind \in {"bool", "null"} => c.num = NoNum
         /\ c.kind = "string" => c.text \in Texts /\ c.num = Num[c.text]
  <1>1. CASE c \in [kind: {"number"}, op: {"eq"}, num: Numbers \ {NoNum}, text: {""}]
    BY <1>1
  <1>2. CASE c \in {[kind |-> "string", op |-> "eq", num |-> Num[t], text |-> t] : t \in Texts}
    <2>1. PICK t \in Texts : c = [kind |-> "string", op |-> "eq", num |-> Num[t], text |-> t]
      BY <1>2
    <2>2. c.kind = "string" /\ c.op = "eq" /\ c.num = Num[t] /\ c.text = t
      BY <2>1
    <2> QED
      BY <2>2, NumTyped
  <1>3. CASE c \in [kind: {"bool"}, op: {"eq"}, num: {NoNum}, text: {"true", "false"}]
    <2>1. NoNum \in Numbers
      BY DEF Numbers
    <2> QED
      BY <1>3, <2>1
  <1>4. CASE c \in [kind: {"null"}, op: {"eq"}, num: {NoNum}, text: {"null"}]
    <2>1. NoNum \in Numbers
      BY DEF Numbers
    <2> QED
      BY <1>4, <2>1
  <1>5. CASE c \in [kind: {"range"}, op: Operators, num: Numbers, text: {""}]
    BY <1>5
  <1> QED
    BY <1>1, <1>2, <1>3, <1>4, <1>5 DEF Conditions

\* Every result is the null pointer or a list; the null pointer has no ids.
LEMMA NullIsEmpty == Null.ids = <<>> /\ Null.kind = "null"
  BY DEF Null

\* find_docs_for_member: by index or by scan, a condition finds the documents
\* that meet it, each once.
LEMMA MemberFinds ==
  ASSUME QInv, NEW f \in Fields, NEW c \in Conditions, MeansTheSame(f, c)
  PROVE  LET r == FindForMember(f, c)
         IN /\ r = Null \/ r = Found(r.ids)
            /\ r.ids \in Seq(Ids)
            /\ SameIds(r.ids, Meeting(f, c))
  <1> DEFINE es == entries[f]
             r == FindForMember(f, c)
             N == {i \in DOMAIN es : es[i].num # NoNum /\ es[i].num = c.num}
             K == {i \in DOMAIN es : es[i].key = c.text}
             R == {i \in DOMAIN es : InRange(es[i], c)}
             Takes(places) ==
               \A i \in DOMAIN es : \A t \in TextsOf(f) :
                 Alike(f, t, es[i]) => (TextMatches(f, t, c) <=> i \in places)
  <1>1. Plan(f, c) \in {"scan", "number", "text", "range"}
    BY DEF Plan
  <1>2. Plan(f, c) # "scan" => IndexType[f] # "none"
    BY DEF Plan
  <1>3. Type[f] \in {"number", "text", "bool", "texts"} /\ (Type[f] # "texts" => IndexType[f] # "hashElements")
    BY QueryAssumption
  <1>4. ASSUME IndexType[f] # "none"
        PROVE  /\ es \in Seq(Entry) /\ DOMAIN es \subseteq Nat
               /\ \A i \in DOMAIN es : EntryFits(f, es[i])
               /\ \A i, j \in DOMAIN es : i = j \/ Differ(f, es[i], es[j])
    BY <1>4, LenProperties DEF QInv, Indexed, IndexOf
  <1>5. CASE Plan(f, c) = "scan"
    <2>1. r = Scan(f, c)
      BY <1>5 DEF FindForMember
    <2> HIDE DEF r
    <2> QED
      BY <2>1, ScanFinds DEF r
  <1>6. CASE Plan(f, c) = "number"
    <2>1. c.num # NoNum /\ c.kind # "range" /\ c.op = "eq" /\ IndexType[f] # "none"
      BY <1>6, ConditionTyped DEF Plan
    <2>2. N \subseteq Nat
      BY <1>4, <2>1
    <2>3. /\ Takes(N)
          /\ \A i, j \in N : i = j
      <3>1. CASE Type[f] = "number"
        <4>1. \A i, j \in N : i = j
          BY <1>4, <2>1, <3>1 DEF Differ
        <4>2. ASSUME NEW i \in DOMAIN es, NEW t \in TextsOf(f), Alike(f, t, es[i])
              PROVE  TextMatches(f, t, c) <=> i \in N
          <5>1. Num[t] = es[i].num /\ Num[t] # NoNum
            BY <3>1, <4>2 DEF Alike, TextsOf
          <5>2. TextMatches(f, t, c) <=> Num[t] = c.num
            BY <2>1, <3>1 DEF TextMatches, Compares
          <5> QED
            BY <5>1, <5>2
        <4> QED
          BY <4>1, <4>2
      <3>2. CASE Type[f] # "number"
        <4>1. Type[f] \in {"text", "bool"}
          BY <1>3, <2>1, <3>2, ConditionTyped DEF MeansTheSame
        <4>2. N = {}
          BY <1>4, <2>1, <4>1 DEF EntryFits
        <4>3. \A t : ~TextMatches(f, t, c)
          BY <2>1, <4>1, ConditionTyped DEF TextMatches, MeansTheSame
        <4> QED
          BY <4>2, <4>3
      <3> QED
        BY <3>1, <3>2
    <2>4. ByNumber(es, c.num) = N
      BY <2>2, <2>3, FirstOfOne DEF ByNumber
    <2>5. r = Found(IdsAt(es, N))
      BY <1>6, <2>4 DEF FindForMember
    <2> HIDE DEF N
    <2>6. IdsAt(es, N) \in Seq(Ids) /\ SameIds(IdsAt(es, N), Meeting(f, c))
      BY <2>1, <2>3, LookupFinds
    <2> QED
      BY <2>5, <2>6 DEF Found
  <1>7. CASE Plan(f, c) = "text"
    <2>1. c.num = NoNum /\ c.kind = "string" /\ IndexType[f] # "none" /\ Num[c.text] = NoNum
      BY <1>7, ConditionTyped DEF Plan
    <2>2. K \subseteq Nat
      BY <1>4, <2>1
    <2>3. /\ Takes(K)
          /\ \A i, j \in K : i = j
      <3>1. CASE Type[f] = "number"
        <4>1. K = {}
          BY <1>4, <2>1, <3>1 DEF EntryFits, TextsOf
        <4>2. \A t : ~TextMatches(f, t, c)
          BY <2>1, <3>1 DEF TextMatches
        <4> QED
          BY <4>1, <4>2
      <3>2. CASE Type[f] # "number"
        <4>1. Type[f] \in {"text", "texts"}
          BY <1>3, <2>1, <3>2 DEF MeansTheSame
        <4>2. \A i, j \in K : i = j
          BY <1>4, <2>1 DEF Differ
        <4>3. Takes(K)
          BY <2>1, <4>1 DEF TextMatches, Alike
        <4> QED
          BY <4>2, <4>3
      <3> QED
        BY <3>1, <3>2
    <2>4. ByKey(es, c.text) = K
      BY <2>2, <2>3, FirstOfOne DEF ByKey
    <2>5. r = Found(IdsAt(es, K))
      BY <1>7, <2>4 DEF FindForMember
    <2> HIDE DEF K
    <2>6. IdsAt(es, K) \in Seq(Ids) /\ SameIds(IdsAt(es, K), Meeting(f, c))
      BY <2>1, <2>3, LookupFinds
    <2> QED
      BY <2>5, <2>6 DEF Found
  <1>8. CASE Plan(f, c) = "range"
    <2>1. c.num # NoNum /\ c.kind = "range" /\ IndexType[f] = "value"
      BY <1>8 DEF Plan
    <2>2. /\ Takes(R)
          /\ Type[f] = "number" \/ \A i, j \in R : i = j
      <3>1. CASE Type[f] = "number"
        <4>1. ASSUME NEW i \in DOMAIN es, NEW t \in TextsOf(f), Alike(f, t, es[i])
              PROVE  TextMatches(f, t, c) <=> i \in R
          <5>1. Num[t] = es[i].num /\ Num[t] # NoNum
            BY <3>1, <4>1 DEF Alike, TextsOf
          <5>2. TextMatches(f, t, c) <=> Compares(Num[t], c.op, c.num)
            BY <2>1, <3>1 DEF TextMatches
          <5>3. InRange(es[i], c) <=> Compares(Num[t], c.op, c.num)
            BY <5>1 DEF InRange
          <5> QED
            BY <5>2, <5>3
        <4> QED
          BY <3>1, <4>1
      <3>2. CASE Type[f] # "number"
        <4>1. Type[f] = "bool"
          BY <1>3, <2>1, <3>2, QueryAssumption DEF MeansTheSame
        <4>2. R = {}
          <5> SUFFICES ASSUME NEW i \in DOMAIN es, InRange(es[i], c) PROVE FALSE
            OBVIOUS
          <5>1. es[i].num = NoNum /\ es[i].key \in Texts \cap {"true", "false"}
            BY <1>4, <2>1, <4>1 DEF EntryFits, TextsOf
          <5>2. Num[es[i].key] = NoNum
            BY <5>1, QueryAssumption
          <5> QED
            BY <5>1, <5>2 DEF InRange
        <4>3. \A t : ~TextMatches(f, t, c)
          BY <2>1, <4>1 DEF TextMatches
        <4> QED
          BY <4>2, <4>3
      <3> QED
        BY <3>1, <3>2
    <2>3. r = IF IdsAt(es, R) = <<>> THEN Null ELSE Found(IdsAt(es, R))
      BY <1>8 DEF FindForMember
    <2> HIDE DEF R
    <2>4. IdsAt(es, R) \in Seq(Ids) /\ SameIds(IdsAt(es, R), Meeting(f, c))
      BY <2>1, <2>2, LookupFinds
    <2>5. r.ids = IdsAt(es, R) /\ (r = Null \/ r = Found(r.ids))
      BY <2>3, NullIsEmpty DEF Found
    <2> QED
      BY <2>4, <2>5
  <1> QED
    BY <1>1, <1>5, <1>6, <1>7, <1>8

\* An index does not change an answer: for all fields, index types, texts and
\* conditions that mean the same to a lookup and to a scan.
THEOREM IndexAgreesWithScanHolds == Spec => []IndexAgreesWithScan
  <1>1. ASSUME QInv PROVE IndexAgreesWithScan
    BY <1>1, MemberFinds DEF IndexAgreesWithScan, Meeting
  <1> QED
    BY <1>1, QInvHolds, PTL

-----------------------------------------------------------------------------
(* Query objects: lists of ids *)

Results == [kind: {"unset", "null", "ids"}, ids: Seq(Ids)]

\* A result of a search that finds the documents at these positions, each once.
Answers(r, hits) ==
  /\ r = Null \/ r = Found(r.ids)
  /\ r.ids \in Seq(Ids)
  /\ hits \subseteq DOMAIN docs
  /\ SameIds(r.ids, hits)

LEMMA FoundTyped ==
  ASSUME NEW ids \in Seq(Ids)
  PROVE  /\ Found(ids) \in Results /\ Found(ids).ids = ids
         /\ Found(ids) # Null /\ Found(ids) # Unset
         /\ Null \in Results /\ Unset \in Results /\ Null # Unset
         /\ Null.ids = <<>> /\ Unset.ids = <<>>
  <1>1. <<>> \in Seq(Ids)
    OBVIOUS
  <1>2. Found(ids).kind = "ids" /\ Null.kind = "null" /\ Unset.kind = "unset"
    BY DEF Found, Null, Unset
  <1> QED
    BY <1>1, <1>2 DEF Found, Null, Unset, Results

\* union_doc_id_lists
LEMMA UnionKeeps ==
  ASSUME NEW T, NEW a \in Seq(T), NEW b \in Seq(T)
  PROVE  /\ Union(a, b) \in Seq(T)
         /\ Members(Union(a, b)) = Members(a) \cup Members(b)
         /\ Once(Union(a, b))
  <1> DEFINE s == a \o b
             n == Len(s)
             UpTo(i) == {s[j] : j \in 1..i}
             X == [i \in 0..n |-> {x \in Seq(T) : Once(x) /\ Members(x) = UpTo(i)}]
             E(i, x) == WithId(x, s[i])
             step == [i \in 1..n |-> [x \in Seq(T) |-> E(i, x)]]
             Is(h) == h = [i \in 0..n |-> IF i = 0 THEN <<>> ELSE E(i, h[i - 1])]
  <1>1. s \in Seq(T) /\ Members(s) = Members(a) \cup Members(b)
    BY ConcatMembers
  <1>2. Union(a, b) = (CHOOSE h : Is(h))[n]
    BY DEF Union
  <1> HIDE DEF s
  <1>3. /\ n \in Nat /\ 0 \in 0..n /\ n \in 0..n
        /\ DOMAIN s = 1..n
        /\ \A i \in 1..n : s[i] \in T
        /\ \A i \in 0..n : i # 0 => i \in 1..n
        /\ \A i \in 1..n : i \in 0..n /\ i # 0 /\ i - 1 \in 0..n
    BY <1>1, ElementOfSeq, LenProperties
  <1> HIDE DEF n
  <1>4. <<>> \in X[0]
    <2>1. UpTo(0) = {} /\ <<>> \in Seq(T)
      OBVIOUS
    <2>2. Once(<<>>) /\ Members(<<>>) = {}
      BY DEF Once, Members
    <2> QED
      BY <1>3, <2>1, <2>2
  <1>5. ASSUME NEW i \in 1..n, NEW x \in X[i - 1] PROVE E(i, x) \in X[i] /\ step[i][x] = E(i, x)
    <2>1. x \in Seq(T) /\ Once(x) /\ Members(x) = UpTo(i - 1)
      BY <1>3
    <2>2. UpTo(i) = UpTo(i - 1) \cup {s[i]}
      <3>1. \A j \in 1..i : j = i \/ j \in 1..(i - 1)
        BY <1>3
      <3>2. i \in 1..i /\ \A j \in 1..(i - 1) : j \in 1..i
        BY <1>3
      <3> QED
        BY <3>1, <3>2
    <2> HIDE DEF UpTo
    <2>3. E(i, x) \in Seq(T) /\ Once(E(i, x)) /\ Members(E(i, x)) = UpTo(i)
      BY <1>3, <2>1, <2>2, WithIdAdds
    <2> HIDE DEF E
    <2> QED
      BY <1>3, <2>1, <2>3
  <1> HIDE DEF X, step, E
  <1>6. PICK g : Rounds(<<>>, step, n, g) /\ \A i \in 0..n : g[i] \in X[i]
    <2>1. n \in Nat /\ \A i \in 1..n : \A x \in X[i - 1] : step[i][x] \in X[i]
      BY <1>3, <1>5
    <2> QED
      BY <1>4, <2>1, RoundsExist
  <1>7. Is(g)
    BY <1>3, <1>5, <1>6 DEF Rounds
  <1>8. PICK h : Is(h) /\ Union(a, b) = h[n]
    <2> HIDE DEF Is
    <2> QED
      BY <1>2, <1>7
  <1>9. h[0] \in X[0] /\ \A i \in 1..n : h[i - 1] \in X[i - 1] => h[i] \in X[i]
    BY <1>3, <1>4, <1>5, <1>8
  <1>10. h[n] \in X[n]
    BY <1>3, <1>9, Chain
  <1>11. UpTo(n) = Members(s)
    BY <1>3 DEF Members
  <1> HIDE DEF UpTo
  <1> QED
    BY <1>1, <1>3, <1>8, <1>10, <1>11 DEF X

\* Ids stand for the documents: no two have the same.
LEMMA IdsApart ==
  ASSUME QInv, NEW A, A \subseteq DOMAIN docs, NEW B, B \subseteq DOMAIN docs
  PROVE  /\ {docs[i].id : i \in A \cap B} = {docs[i].id : i \in A} \cap {docs[i].id : i \in B}
         /\ {docs[i].id : i \in A \cup B} = {docs[i].id : i \in A} \cup {docs[i].id : i \in B}
  <1>1. \A i, j \in DOMAIN docs : docs[i].id = docs[j].id => i = j
    BY DEF QInv, IdsOnce
  <1>2. {docs[i].id : i \in A \cap B} = {docs[i].id : i \in A} \cap {docs[i].id : i \in B}
    BY <1>1
  <1>3. {docs[i].id : i \in A \cup B} = {docs[i].id : i \in A} \cup {docs[i].id : i \in B}
    OBVIOUS
  <1> QED
    BY <1>2, <1>3

LEMMA SameIdsDef ==
  ASSUME NEW ids, NEW hits
  PROVE  SameIds(ids, hits) <=> Once(ids) /\ Members(ids) = {docs[i].id : i \in hits}
  BY DEF SameIds, Once, Members

\* The null pointer, and the empty list, answer that there is no document.
LEMMA NothingAnswered ==
  ASSUME NEW r, NEW hits, Answers(r, hits), r.ids = <<>>
  PROVE  hits = {}
  <1>1. Members(<<>>) = {}
    BY DEF Members
  <1>2. {docs[i].id : i \in hits} = {}
    BY <1>1, SameIdsDef DEF Answers
  <1> QED
    BY <1>2

\* One more child of $and, after the first.
LEMMA AndChildAnswers ==
  ASSUME QInv, NEW acc, NEW r, NEW A, NEW B, Answers(acc, A), Answers(r, B)
  PROVE  Answers(AndChild(acc, r), A \cap B)
  <1>1. A \cap B \subseteq DOMAIN docs /\ acc.ids \in Seq(Ids) /\ r.ids \in Seq(Ids)
    BY DEF Answers
  <1>2. CASE acc = Null \/ r = Null
    <2>1. A \cap B = {}
      BY <1>2, NullIsEmpty, NothingAnswered
    <2>2. AndChild(acc, r) = Null
      BY <1>2 DEF AndChild
    <2>3. Once(<<>>) /\ Members(<<>>) = {} /\ <<>> \in Seq(Ids)
      BY DEF Once, Members
    <2>4. SameIds(<<>>, {})
      BY <2>3, SameIdsDef
    <2> QED
      BY <2>1, <2>2, <2>3, <2>4, NullIsEmpty DEF Answers
  <1>3. CASE ~(acc = Null \/ r = Null)
    <2>1. acc # Unset
      BY <1>1, <1>3, FoundTyped DEF Answers
    <2>2. AndChild(acc, r) = Found(Intersect(acc.ids, r.ids))
      BY <1>3, <2>1 DEF AndChild
    <2> DEFINE ids == Intersect(acc.ids, r.ids)
    <2>3. Once(acc.ids) /\ Members(acc.ids) = {docs[i].id : i \in A} /\ Members(r.ids) = {docs[i].id : i \in B}
      BY SameIdsDef DEF Answers
    <2>4. ids \in Seq(Ids) /\ Members(ids) = Members(acc.ids) \cap Members(r.ids) /\ Once(ids)
      BY <1>1, <2>3, OnlyKeeps DEF Intersect
    <2> HIDE DEF ids
    <2>5. Members(ids) = {docs[i].id : i \in A \cap B}
      <3>1. {docs[i].id : i \in A \cap B} = {docs[i].id : i \in A} \cap {docs[i].id : i \in B}
        BY IdsApart DEF Answers
      <3> QED
        BY <2>3, <2>4, <3>1
    <2>6. SameIds(ids, A \cap B)
      BY <2>4, <2>5, SameIdsDef
    <2> QED
      BY <1>1, <2>2, <2>4, <2>6, FoundTyped DEF Answers, ids
  <1> QED
    BY <1>2, <1>3

\* One more child of $or, after a child with a result.
LEMMA OrChildAnswers ==
  ASSUME QInv, NEW acc, NEW r, NEW A, NEW B, Answers(acc, A), acc # Null, Answers(r, B)
  PROVE  Answers(OrChild(acc, r), A \cup B) /\ OrChild(acc, r) # Null
  <1>1. A \cup B \subseteq DOMAIN docs /\ acc.ids \in Seq(Ids) /\ r.ids \in Seq(Ids)
    BY DEF Answers
  <1>2. CASE r = Null
    <2>1. B = {}
      BY <1>2, NullIsEmpty, NothingAnswered
    <2>2. OrChild(acc, r) = acc /\ A \cup B = A
      BY <1>2, <2>1 DEF OrChild
    <2> QED
      BY <2>2
  <1>3. CASE r # Null
    <2>1. acc # Unset
      BY <1>1, FoundTyped DEF Answers
    <2>2. OrChild(acc, r) = Found(Union(acc.ids, r.ids))
      BY <1>3, <2>1 DEF OrChild
    <2> DEFINE ids == Union(acc.ids, r.ids)
    <2>3. Members(acc.ids) = {docs[i].id : i \in A} /\ Members(r.ids) = {docs[i].id : i \in B}
      BY SameIdsDef DEF Answers
    <2>4. ids \in Seq(Ids) /\ Members(ids) = Members(acc.ids) \cup Members(r.ids) /\ Once(ids)
      BY <1>1, UnionKeeps
    <2> HIDE DEF ids
    <2>5. Members(ids) = {docs[i].id : i \in A \cup B}
      <3>1. {docs[i].id : i \in A \cup B} = {docs[i].id : i \in A} \cup {docs[i].id : i \in B}
        BY IdsApart DEF Answers
      <3> QED
        BY <2>3, <2>4, <3>1
    <2>6. SameIds(ids, A \cup B)
      BY <2>4, <2>5, SameIdsDef
    <2> QED
      BY <1>1, <2>2, <2>4, <2>6, FoundTyped DEF Answers, ids
  <1> QED
    BY <1>2, <1>3

-----------------------------------------------------------------------------
(* Query objects: the loops over children and members *)

\* acc holds what an $and over the results rs has after each child.
AndLoop(acc, rs, n) ==
  /\ acc[0] = Unset
  /\ \A i \in 1..n : acc[i] = AndChild(acc[i - 1], rs[i])

OrLoop(acc, rs, n) ==
  /\ acc[0] = Unset
  /\ \A i \in 1..n : acc[i] = OrChild(acc[i - 1], rs[i])

LEMMA ChildTyped ==
  ASSUME NEW acc \in Results, NEW r \in Results
  PROVE  AndChild(acc, r) \in Results /\ OrChild(acc, r) \in Results
  <1>1. acc.ids \in Seq(Ids) /\ r.ids \in Seq(Ids)
    BY DEF Results
  <1>2. Intersect(acc.ids, r.ids) \in Seq(Ids) /\ Union(acc.ids, r.ids) \in Seq(Ids)
    BY <1>1, OnlyKeeps, UnionKeeps DEF Intersect
  <1>3. /\ Found(Intersect(acc.ids, r.ids)) \in Results
        /\ Found(Union(acc.ids, r.ids)) \in Results
        /\ Null \in Results
    BY <1>2, FoundTyped
  <1> QED
    BY <1>3 DEF AndChild, OrChild

\* Such loops exist for all results.
LEMMA LoopsExist ==
  ASSUME NEW n \in Nat, NEW rs, \A i \in 1..n : rs[i] \in Results
  PROVE  /\ \E h : h = [i \in 0..n |-> IF i = 0 THEN Unset ELSE AndChild(h[i - 1], rs[i])]
         /\ \E h : h = [i \in 0..n |-> IF i = 0 THEN Unset ELSE OrChild(h[i - 1], rs[i])]
  <1> DEFINE and == [i \in 1..n |-> [x \in Results |-> AndChild(x, rs[i])]]
             or == [i \in 1..n |-> [x \in Results |-> OrChild(x, rs[i])]]
  <1>1. \A i \in 1..n : \A x \in Results : /\ and[i][x] = AndChild(x, rs[i]) /\ and[i][x] \in Results
                                           /\ or[i][x] = OrChild(x, rs[i]) /\ or[i][x] \in Results
    BY ChildTyped
  <1>2. Unset \in Results
    <2>1. <<>> \in Seq(Ids)
      OBVIOUS
    <2> QED
      BY <2>1, FoundTyped
  <1> HIDE DEF and, or
  <1>3. \A i \in 0..n : i # 0 => i \in 1..n
    OBVIOUS
  <1>4. PICK g : Rounds(Unset, and, n, g) /\ \A i \in 1..n : g[i - 1] \in Results
    <2>1. \A i \in 1..n : \A x \in Results : and[i][x] \in Results
      BY <1>1
    <2> QED
      BY <1>2, <2>1, RoundsIn
  <1>5. g = [i \in 0..n |-> IF i = 0 THEN Unset ELSE AndChild(g[i - 1], rs[i])]
    BY <1>1, <1>3, <1>4 DEF Rounds
  <1>6. PICK k : Rounds(Unset, or, n, k) /\ \A i \in 1..n : k[i - 1] \in Results
    <2>1. \A i \in 1..n : \A x \in Results : or[i][x] \in Results
      BY <1>1
    <2> QED
      BY <1>2, <2>1, RoundsIn
  <1>7. k = [i \in 0..n |-> IF i = 0 THEN Unset ELSE OrChild(k[i - 1], rs[i])]
    BY <1>1, <1>3, <1>6 DEF Rounds
  <1> QED
    BY <1>5, <1>7

\* Every round has a result.
LEMMA LoopsTyped ==
  ASSUME NEW n \in Nat, NEW rs, \A i \in 1..n : rs[i] \in Results, NEW acc,
         AndLoop(acc, rs, n) \/ OrLoop(acc, rs, n)
  PROVE  acc[n] \in Results
  <1> DEFINE X == [i \in 0..n |-> Results]
  <1>1. 0 \in 0..n /\ n \in 0..n /\ \A i \in 1..n : i \in 0..n /\ i - 1 \in 0..n
    OBVIOUS
  <1>2. Unset \in Results
    <2>1. <<>> \in Seq(Ids)
      OBVIOUS
    <2> QED
      BY <2>1, FoundTyped
  <1>3. acc[0] \in X[0] /\ \A i \in 1..n : acc[i - 1] \in X[i - 1] => acc[i] \in X[i]
    BY <1>1, <1>2, ChildTyped DEF AndLoop, OrLoop
  <1>4. acc[n] \in X[n]
    <2> HIDE DEF X
    <2> QED
      BY <1>1, <1>3, Chain
  <1> QED
    BY <1>1, <1>4

\* An $and of at least one child finds the documents that all children find.
LEMMA AndLoopAnswers ==
  ASSUME QInv, NEW n \in Nat, n # 0, NEW rs, NEW H, NEW acc, AndLoop(acc, rs, n),
         \A i \in 1..n : Answers(rs[i], H[i])
  PROVE  Answers(acc[n], {p \in DOMAIN docs : \A i \in 1..n : p \in H[i]})
  <1> DEFINE All(k) == {p \in DOMAIN docs : \A i \in 1..k : p \in H[i]}
             S == {k \in Nat : k + 1 <= n => Answers(acc[k + 1], All(k + 1))}
  <1>1. 0 \in S
    <2>1. 1 \in 1..n /\ 1 - 1 = 0
      OBVIOUS
    <2>2. acc[1] = AndChild(Unset, rs[1]) /\ Answers(rs[1], H[1])
      BY <2>1 DEF AndLoop
    <2>3. <<>> \in Seq(Ids)
      OBVIOUS
    <2>4. Unset # Null
      BY <2>3, FoundTyped
    <2>5. acc[1] = rs[1]
      BY <2>2, <2>4, NullIsEmpty DEF AndChild
    <2>6. All(1) = H[1]
      <3>1. H[1] \subseteq DOMAIN docs
        BY <2>2 DEF Answers
      <3>2. \A i \in 1..1 : i = 1
        OBVIOUS
      <3> QED
        BY <3>1, <3>2
    <2> HIDE DEF All
    <2>7. Answers(acc[0 + 1], All(0 + 1))
      BY <2>2, <2>5, <2>6
    <2> QED
      BY <2>7
  <1>2. ASSUME NEW k \in Nat, k \in S PROVE k + 1 \in S
    <2> SUFFICES ASSUME (k + 1) + 1 <= n PROVE Answers(acc[(k + 1) + 1], All((k + 1) + 1))
      OBVIOUS
    <2>1. (k + 1) + 1 \in 1..n /\ ((k + 1) + 1) - 1 = k + 1 /\ k + 1 <= n
      OBVIOUS
    <2>2. acc[(k + 1) + 1] = AndChild(acc[k + 1], rs[(k + 1) + 1])
      BY <2>1 DEF AndLoop
    <2>3. All((k + 1) + 1) = All(k + 1) \cap H[(k + 1) + 1]
      <3>1. \A i \in 1..((k + 1) + 1) : i = (k + 1) + 1 \/ i \in 1..(k + 1)
        OBVIOUS
      <3>2. /\ (k + 1) + 1 \in 1..((k + 1) + 1)
            /\ \A i \in 1..(k + 1) : i \in 1..((k + 1) + 1)
        OBVIOUS
      <3> QED
        BY <3>1, <3>2
    <2>4. Answers(acc[k + 1], All(k + 1))
      BY <1>2, <2>1
    <2> HIDE DEF All
    <2> QED
      BY <2>1, <2>2, <2>3, <2>4, AndChildAnswers
  <1>3. Nat \subseteq S
    <2> HIDE DEF S
    <2> QED
      BY <1>1, <1>2, Induction
  <1>4. n - 1 \in Nat /\ (n - 1) + 1 = n /\ n <= n
    OBVIOUS
  <1> HIDE DEF All
  <1>5. Answers(acc[n], All(n))
    <2>1. n - 1 \in S
      <3> HIDE DEF S
      <3> QED
        BY <1>3, <1>4
    <2> QED
      BY <1>4, <2>1
  <1> QED
    BY <1>5 DEF All

\* An $or finds the documents that a child finds: as long as no child has a
\* result it has none, and then no child has found a document.
LEMMA OrLoopAnswers ==
  ASSUME QInv, NEW n \in Nat, NEW rs, NEW H, NEW acc, OrLoop(acc, rs, n),
         \A i \in 1..n : Answers(rs[i], H[i])
  PROVE  Answers(Found(acc[n].ids), {p \in DOMAIN docs : \E i \in 1..n : p \in H[i]})
  <1> DEFINE Any(k) == {p \in DOMAIN docs : \E i \in 1..k : p \in H[i]}
             Right(k) == \/ acc[k] = Unset /\ Any(k) = {}
                         \/ Answers(acc[k], Any(k)) /\ acc[k] # Null
             S == {k \in Nat : k <= n => Right(k)}
  <1>1. <<>> \in Seq(Ids)
    OBVIOUS
  <1>2. Unset # Null /\ Unset.ids = <<>>
    BY <1>1, FoundTyped
  <1>3. 0 \in S
    <2>1. Any(0) = {} /\ acc[0] = Unset
      BY DEF OrLoop
    <2> HIDE DEF Any
    <2> QED
      BY <2>1
  <1>4. ASSUME NEW k \in Nat, k \in S PROVE k + 1 \in S
    <2> SUFFICES ASSUME k + 1 <= n PROVE Right(k + 1)
      OBVIOUS
    <2>1. k + 1 \in 1..n /\ (k + 1) - 1 = k /\ k <= n
      OBVIOUS
    <2>2. acc[k + 1] = OrChild(acc[k], rs[k + 1]) /\ Answers(rs[k + 1], H[k + 1])
      BY <2>1 DEF OrLoop
    <2>3. Any(k + 1) = Any(k) \cup H[k + 1]
      <3>1. \A i \in 1..(k + 1) : i = k + 1 \/ i \in 1..k
        OBVIOUS
      <3>2. k + 1 \in 1..(k + 1) /\ \A i \in 1..k : i \in 1..(k + 1)
        OBVIOUS
      <3>3. H[k + 1] \subseteq DOMAIN docs
        BY <2>2 DEF Answers
      <3> QED
        BY <3>1, <3>2, <3>3
    <2>4. Right(k)
      BY <1>4, <2>1
    <2> HIDE DEF Any
    <2>5. CASE acc[k] = Unset /\ Any(k) = {} /\ rs[k + 1] = Null
      <3>1. acc[k + 1] = Unset
        BY <2>2, <2>5 DEF OrChild
      <3>2. H[k + 1] = {}
        BY <2>2, <2>5, NullIsEmpty, NothingAnswered
      <3> QED
        BY <2>3, <2>5, <3>1, <3>2
    <2>6. CASE acc[k] = Unset /\ Any(k) = {} /\ rs[k + 1] # Null
      <3>1. acc[k + 1] = rs[k + 1]
        BY <2>2, <2>6 DEF OrChild
      <3>2. Any(k + 1) = H[k + 1]
        BY <2>3, <2>6
      <3> QED
        BY <2>2, <2>6, <3>1, <3>2
    <2>7. CASE Answers(acc[k], Any(k)) /\ acc[k] # Null
      BY <2>2, <2>3, <2>7, OrChildAnswers
    <2> QED
      BY <2>4, <2>5, <2>6, <2>7
  <1>5. Nat \subseteq S
    <2> HIDE DEF S
    <2> QED
      BY <1>3, <1>4, Induction
  <1>6. Right(n)
    <2>1. n \in S
      <3> HIDE DEF S
      <3> QED
        BY <1>5
    <2> HIDE DEF Right
    <2> QED
      BY <2>1
  <1>7. Any(n) \subseteq DOMAIN docs
    OBVIOUS
  <1> HIDE DEF Any
  <1>8. Answers(Found(acc[n].ids), Any(n))
    <2>1. CASE acc[n] = Unset /\ Any(n) = {}
      <3>1. Once(<<>>) /\ Members(<<>>) = {}
        BY DEF Once, Members
      <3>2. SameIds(<<>>, {})
        BY <3>1, SameIdsDef
      <3> QED
        BY <1>1, <1>2, <2>1, <3>2, FoundTyped DEF Answers
    <2>2. CASE Answers(acc[n], Any(n)) /\ acc[n] # Null
      BY <2>2 DEF Answers
    <2> QED
      BY <1>6, <2>1, <2>2
  <1> QED
    BY <1>8 DEF Any

LEMMA FindByAndDef ==
  ASSUME NEW children, Len(children) \in Nat, NEW results,
         \A i \in 1..Len(children) : results[children[i]] \in Results
  PROVE  \E acc : /\ AndLoop(acc, [i \in 1..Len(children) |-> results[children[i]]], Len(children))
                  /\ FindByAnd(children, results) = acc[Len(children)]
  <1> DEFINE n == Len(children)
             rs == [i \in 1..n |-> results[children[i]]]
             Is(h) == h = [i \in 0..n |-> IF i = 0 THEN Unset
                                          ELSE AndChild(h[i - 1], results[children[i]])]
  <1>1. FindByAnd(children, results) = (CHOOSE h : Is(h))[n]
    BY DEF FindByAnd
  <1> HIDE DEF n
  <1>2. /\ n \in Nat /\ 0 \in 0..n /\ \A i \in 1..n : i \in 0..n /\ i # 0
        /\ \A i \in 0..n : i # 0 => i \in 1..n
        /\ \A i \in 1..n : rs[i] = results[children[i]] /\ rs[i] \in Results
    BY DEF n
  <1> HIDE DEF rs
  <1>3. PICK g : g = [i \in 0..n |-> IF i = 0 THEN Unset ELSE AndChild(g[i - 1], rs[i])]
    BY <1>2, LoopsExist
  <1>4. Is(g)
    BY <1>2, <1>3
  <1>5. PICK h : Is(h) /\ FindByAnd(children, results) = h[n]
    <2> HIDE DEF Is
    <2> QED
      BY <1>1, <1>4
  <1>6. AndLoop(h, rs, n)
    BY <1>2, <1>5 DEF AndLoop
  <1> QED
    BY <1>5, <1>6 DEF n, rs

LEMMA FindByOrDef ==
  ASSUME NEW children, Len(children) \in Nat, NEW results,
         \A i \in 1..Len(children) : results[children[i]] \in Results
  PROVE  \E acc : /\ OrLoop(acc, [i \in 1..Len(children) |-> results[children[i]]], Len(children))
                  /\ FindByOr(children, results) = Found(acc[Len(children)].ids)
  <1> DEFINE n == Len(children)
             rs == [i \in 1..n |-> results[children[i]]]
             Is(h) == h = [i \in 0..n |-> IF i = 0 THEN Unset
                                          ELSE OrChild(h[i - 1], results[children[i]])]
  <1>1. FindByOr(children, results) = Found((CHOOSE h : Is(h))[n].ids)
    BY DEF FindByOr
  <1> HIDE DEF n
  <1>2. /\ n \in Nat /\ 0 \in 0..n /\ \A i \in 1..n : i \in 0..n /\ i # 0
        /\ \A i \in 0..n : i # 0 => i \in 1..n
        /\ \A i \in 1..n : rs[i] = results[children[i]] /\ rs[i] \in Results
    BY DEF n
  <1> HIDE DEF rs
  <1>3. PICK g : g = [i \in 0..n |-> IF i = 0 THEN Unset ELSE OrChild(g[i - 1], rs[i])]
    BY <1>2, LoopsExist
  <1>4. Is(g)
    BY <1>2, <1>3
  <1>5. PICK h : Is(h) /\ FindByOr(children, results) = Found(h[n].ids)
    <2> HIDE DEF Is
    <2> QED
      BY <1>1, <1>4
  <1>6. OrLoop(h, rs, n)
    BY <1>2, <1>5 DEF OrLoop
  <1> QED
    BY <1>5, <1>6 DEF n, rs

LEMMA FindByMembersDef ==
  ASSUME NEW object, Len(object) \in Nat, NEW results,
         \A k \in 1..Len(object) : FindByMember(object[k], results) \in Results
  PROVE  \E acc : /\ AndLoop(acc, [k \in 1..Len(object) |-> FindByMember(object[k], results)], Len(object))
                  /\ FindByMembers(object, results) =
                       IF acc[Len(object)] = Unset THEN Null ELSE acc[Len(object)]
  <1> DEFINE n == Len(object)
             rs == [k \in 1..n |-> FindByMember(object[k], results)]
             Is(h) == h = [i \in 0..n |-> IF i = 0 THEN Unset
                                          ELSE AndChild(h[i - 1], FindByMember(object[i], results))]
             c == CHOOSE h : Is(h)
  <1>1. FindByMembers(object, results) = IF c[n] = Unset THEN Null ELSE c[n]
    BY DEF FindByMembers
  <1> HIDE DEF n
  <1>2. /\ n \in Nat /\ 0 \in 0..n /\ \A i \in 1..n : i \in 0..n /\ i # 0
        /\ \A i \in 0..n : i # 0 => i \in 1..n
        /\ \A i \in 1..n : rs[i] = FindByMember(object[i], results) /\ rs[i] \in Results
    BY DEF n
  <1> HIDE DEF rs
  <1>3. PICK g : g = [i \in 0..n |-> IF i = 0 THEN Unset ELSE AndChild(g[i - 1], rs[i])]
    BY <1>2, LoopsExist
  <1>4. Is(g)
    BY <1>2, <1>3
  <1>5. Is(c)
    <2> HIDE DEF Is
    <2> QED
      BY <1>4
  <1> HIDE DEF c
  <1>6. AndLoop(c, rs, n)
    BY <1>2, <1>5 DEF AndLoop
  <1> QED
    BY <1>1, <1>6 DEF n, rs

-----------------------------------------------------------------------------
(* Query objects: the levels *)

\* What the assumption says of one member.
LEMMA MemberShape ==
  ASSUME NEW n \in 1..Depth, NEW object \in Objects[n]
  PROVE  /\ Len(object) \in Nat /\ DOMAIN object = 1..Len(object)
         /\ \A k \in DOMAIN object :
              \/ object[k].tag = "field" /\ object[k].field \in Fields /\ object[k].cond \in Conditions
              \/ object[k].tag \in {"$and", "$or"} /\ object[k].children \in Seq(Objects[n - 1])
  <1>1. object \in Seq(Members(object))
    BY QueryObjectsAssumption
  <1>2. Len(object) \in Nat /\ DOMAIN object = 1..Len(object)
    BY <1>1, LenProperties
  <1> QED
    BY <1>2, QueryObjectsAssumption

LEMMA FindForMemberTyped ==
  ASSUME QInv, NEW f \in Fields, NEW c
  PROVE  FindForMember(f, c) \in Results
  <1>1. entries[f] \in Seq(Entry)
    BY Typed DEF QInv
  <1>2. \A places : IdsAt(entries[f], places) \in Seq(Ids)
    BY <1>1, IdsAtFinds
  <1>3. Scan(f, c) \in Results
    BY ScanFinds, FoundTyped
  <1>4. \A ids \in Seq(Ids) : Found(ids) \in Results /\ Null \in Results
    BY FoundTyped
  <1>5. Plan(f, c) \in {"scan", "number", "text", "range"}
    BY DEF Plan
  <1>6. CASE Plan(f, c) = "scan"
    BY <1>3, <1>6 DEF FindForMember
  <1>7. CASE Plan(f, c) = "number"
    BY <1>2, <1>4, <1>7 DEF FindForMember
  <1>8. CASE Plan(f, c) = "text"
    BY <1>2, <1>4, <1>8 DEF FindForMember
  <1>9. CASE Plan(f, c) = "range"
    <2> DEFINE ids == IdsAt(entries[f], {i \in DOMAIN entries[f] : InRange(entries[f][i], c)})
    <2>1. FindForMember(f, c) = IF ids = <<>> THEN Null ELSE Found(ids)
      BY <1>9 DEF FindForMember
    <2>2. ids \in Seq(Ids)
      BY <1>2
    <2> HIDE DEF ids
    <2> QED
      BY <1>4, <2>1, <2>2
  <1> QED
    BY <1>5, <1>6, <1>7, <1>8, <1>9

\* Every query object has a result, the plain ones and the others.
LEMMA FindByMembersTyped ==
  ASSUME QInv, NEW n \in 1..Depth, NEW object \in Objects[n],
         NEW results \in [Objects[n - 1] -> Results]
  PROVE  /\ \A k \in 1..Len(object) : FindByMember(object[k], results) \in Results
         /\ FindByMembers(object, results) \in Results
  <1>1. ASSUME NEW k \in 1..Len(object) PROVE FindByMember(object[k], results) \in Results
    <2> DEFINE m == object[k]
    <2>1. \/ m.tag = "field" /\ m.field \in Fields /\ m.cond \in Conditions
          \/ m.tag \in {"$and", "$or"} /\ m.children \in Seq(Objects[n - 1])
      BY MemberShape
    <2> HIDE DEF m
    <2>2. CASE m.tag = "field" /\ m.field \in Fields
      BY <2>2, FindForMemberTyped DEF FindByMember, m
    <2>3. CASE m.tag \in {"$and", "$or"} /\ m.children \in Seq(Objects[n - 1])
      <3> DEFINE l == Len(m.children)
                 rs == [i \in 1..l |-> results[m.children[i]]]
      <3>1. l \in Nat /\ \A i \in 1..l : results[m.children[i]] \in Results
        BY <2>3, ElementOfSeq, LenProperties
      <3>2. \A i \in 1..l : rs[i] \in Results
        BY <3>1
      <3>3. CASE m.tag = "$and"
        <4>1. PICK acc : AndLoop(acc, rs, l) /\ FindByAnd(m.children, results) = acc[l]
          BY <3>1, FindByAndDef
        <4> HIDE DEF l, rs
        <4>2. acc[l] \in Results
          BY <3>1, <3>2, <4>1, LoopsTyped
        <4> QED
          BY <3>3, <4>1, <4>2 DEF FindByMember, m
      <3>4. CASE m.tag = "$or"
        <4>1. PICK acc : OrLoop(acc, rs, l) /\ FindByOr(m.children, results) = Found(acc[l].ids)
          BY <3>1, FindByOrDef
        <4> HIDE DEF l, rs
        <4>2. acc[l] \in Results
          BY <3>1, <3>2, <4>1, LoopsTyped
        <4>3. Found(acc[l].ids) \in Results
          BY <4>2, FoundTyped DEF Results
        <4> QED
          BY <3>4, <4>1, <4>3 DEF FindByMember, m
      <3> QED
        BY <2>3, <3>3, <3>4
    <2> QED
      BY <2>1, <2>2, <2>3
  <1> DEFINE l == Len(object)
             rs == [k \in 1..l |-> FindByMember(object[k], results)]
  <1>2. l \in Nat
    BY MemberShape
  <1>3. PICK acc : /\ AndLoop(acc, rs, l)
                   /\ FindByMembers(object, results) = IF acc[l] = Unset THEN Null ELSE acc[l]
    BY <1>1, <1>2, FindByMembersDef
  <1>4. \A k \in 1..l : rs[k] \in Results
    BY <1>1
  <1> HIDE DEF l, rs
  <1>5. acc[l] \in Results
    BY <1>2, <1>3, <1>4, LoopsTyped
  <1>6. Null \in Results
    <2>1. <<>> \in Seq(Ids)
      OBVIOUS
    <2> QED
      BY <2>1, FoundTyped
  <1> QED
    BY <1>1, <1>3, <1>5, <1>6

\* find_docs_by_query, level by level.
LEMMA FindByQueryDef ==
  ASSUME QInv
  PROVE  /\ \A n \in 0..Depth : FindByQuery[n] \in [Objects[n] -> Results]
         /\ \A n \in 1..Depth :
              FindByQuery[n] = [object \in Objects[n] |-> FindByMembers(object, FindByQuery[n - 1])]
  <1> DEFINE E(n, x) == [object \in Objects[n] |-> FindByMembers(object, x)]
             X == [n \in 0..Depth |-> [Objects[n] -> Results]]
             step == [n \in 1..Depth |-> [x \in X[n - 1] |-> E(n, x)]]
             Is(h) == h = [n \in 0..Depth |-> IF n = 0 THEN <<>> ELSE E(n, h[n - 1])]
  <1>1. FindByQuery = CHOOSE h : Is(h)
    BY DEF FindByQuery
  <1>2. /\ Depth \in Nat /\ Objects[0] = {} /\ 0 \in 0..Depth
        /\ \A n \in 1..Depth : n \in 0..Depth /\ n - 1 \in 0..Depth /\ n # 0
        /\ \A n \in 0..Depth : n # 0 => n \in 1..Depth
    BY QueryObjectsAssumption
  <1>3. <<>> \in X[0]
    <2>1. <<>> \in [{} -> Results]
      OBVIOUS
    <2> QED
      BY <1>2, <2>1
  <1>4. ASSUME NEW n \in 1..Depth, NEW x \in X[n - 1] PROVE E(n, x) \in X[n] /\ step[n][x] = E(n, x)
    <2>1. x \in [Objects[n - 1] -> Results]
      BY <1>2
    <2>2. \A object \in Objects[n] : FindByMembers(object, x) \in Results
      BY <2>1, FindByMembersTyped
    <2> QED
      BY <1>2, <2>2
  <1>5. \A n \in 0..Depth : X[n] = [Objects[n] -> Results]
    OBVIOUS
  <1> HIDE DEF X, step, E
  <1>6. PICK g : Rounds(<<>>, step, Depth, g) /\ \A n \in 0..Depth : g[n] \in X[n]
    <2>1. \A n \in 1..Depth : \A x \in X[n - 1] : step[n][x] \in X[n]
      BY <1>4
    <2> QED
      BY <1>2, <1>3, <2>1, RoundsExist
  <1>7. Is(g)
    BY <1>2, <1>4, <1>6 DEF Rounds
  <1>8. Is(FindByQuery)
    <2> HIDE DEF Is
    <2> QED
      BY <1>1, <1>7
  <1>9. /\ FindByQuery[0] = <<>>
        /\ \A n \in 1..Depth : FindByQuery[n] = E(n, FindByQuery[n - 1])
    BY <1>2, <1>8
  <1>10. \A n \in 0..Depth : FindByQuery[n] \in X[n]
    <2> DEFINE h == FindByQuery
    <2>1. h[0] \in X[0] /\ \A n \in 1..Depth : h[n - 1] \in X[n - 1] => h[n] \in X[n]
      BY <1>2, <1>3, <1>4, <1>9
    <2> HIDE DEF h
    <2>2. \A n \in 0..Depth : h[n] \in X[n]
      BY <1>2, <2>1, Chain
    <2> QED
      BY <2>2 DEF h
  <1> QED
    BY <1>5, <1>9, <1>10 DEF E

LEMMA HitsDef ==
  \A n \in 1..Depth : Hits[n] = [object \in Objects[n] |-> HitsOf(object, Hits[n - 1])]
  <1> DEFINE E(n, x) == [object \in Objects[n] |-> HitsOf(object, x)]
             X == [n \in 0..Depth |-> [Objects[n] -> SUBSET DOMAIN docs]]
             step == [n \in 1..Depth |-> [x \in X[n - 1] |-> E(n, x)]]
             Is(h) == h = [n \in 0..Depth |-> IF n = 0 THEN <<>> ELSE E(n, h[n - 1])]
  <1>1. Hits = CHOOSE h : Is(h)
    BY DEF Hits
  <1>2. /\ Depth \in Nat /\ Objects[0] = {} /\ 0 \in 0..Depth
        /\ \A n \in 1..Depth : n \in 0..Depth /\ n - 1 \in 0..Depth /\ n # 0
        /\ \A n \in 0..Depth : n # 0 => n \in 1..Depth
    BY QueryObjectsAssumption
  <1>3. <<>> \in X[0]
    <2>1. <<>> \in [{} -> SUBSET DOMAIN docs]
      OBVIOUS
    <2> QED
      BY <1>2, <2>1
  <1>4. ASSUME NEW n \in 1..Depth, NEW x \in X[n - 1] PROVE E(n, x) \in X[n] /\ step[n][x] = E(n, x)
    <2>1. \A object \in Objects[n] : HitsOf(object, x) \in SUBSET DOMAIN docs
      BY DEF HitsOf
    <2> QED
      BY <1>2, <2>1
  <1> HIDE DEF X, step, E
  <1>5. PICK g : Rounds(<<>>, step, Depth, g) /\ \A n \in 0..Depth : g[n] \in X[n]
    <2>1. \A n \in 1..Depth : \A x \in X[n - 1] : step[n][x] \in X[n]
      BY <1>4
    <2> QED
      BY <1>2, <1>3, <2>1, RoundsExist
  <1>6. Is(g)
    BY <1>2, <1>4, <1>5 DEF Rounds
  <1>7. Is(Hits)
    <2> HIDE DEF Is
    <2> QED
      BY <1>1, <1>6
  <1>8. \A n \in 1..Depth : Hits[n] = E(n, Hits[n - 1])
    BY <1>2, <1>7
  <1> QED
    BY <1>8 DEF E

LEMMA PlainDef ==
  /\ Plain[0] = {}
  /\ \A n \in 1..Depth : Plain[n] = {object \in Objects[n] : PlainOver(object, Plain[n - 1])}
  <1> DEFINE E(n, x) == {object \in Objects[n] : PlainOver(object, x)}
             X == [n \in 0..Depth |-> SUBSET Objects[n]]
             step == [n \in 1..Depth |-> [x \in X[n - 1] |-> E(n, x)]]
             Is(h) == h = [n \in 0..Depth |-> IF n = 0 THEN {} ELSE E(n, h[n - 1])]
  <1>1. Plain = CHOOSE h : Is(h)
    BY DEF Plain
  <1>2. /\ Depth \in Nat /\ 0 \in 0..Depth
        /\ \A n \in 1..Depth : n \in 0..Depth /\ n - 1 \in 0..Depth /\ n # 0
        /\ \A n \in 0..Depth : n # 0 => n \in 1..Depth
    BY QueryObjectsAssumption
  <1>3. {} \in X[0]
    BY <1>2
  <1>4. ASSUME NEW n \in 1..Depth, NEW x \in X[n - 1] PROVE E(n, x) \in X[n] /\ step[n][x] = E(n, x)
    BY <1>2
  <1> HIDE DEF X, step, E
  <1>5. PICK g : Rounds({}, step, Depth, g) /\ \A n \in 0..Depth : g[n] \in X[n]
    <2>1. \A n \in 1..Depth : \A x \in X[n - 1] : step[n][x] \in X[n]
      BY <1>4
    <2> QED
      BY <1>2, <1>3, <2>1, RoundsExist
  <1>6. Is(g)
    BY <1>2, <1>4, <1>5 DEF Rounds
  <1>7. Is(Plain)
    <2> HIDE DEF Is
    <2> QED
      BY <1>1, <1>6
  <1>8. Plain[0] = {} /\ \A n \in 1..Depth : Plain[n] = E(n, Plain[n - 1])
    BY <1>2, <1>7
  <1> QED
    BY <1>8 DEF E

-----------------------------------------------------------------------------
(* Query objects: what they find *)

\* The documents that one member describes.
MemberHits(m, hits) ==
  {i \in DOMAIN docs :
     \/ m.tag = "field" /\ Matches(m.field, docs[i].value[m.field], m.cond)
     \/ m.tag = "$and" /\ \A j \in DOMAIN m.children : i \in hits[m.children[j]]
     \/ m.tag = "$or" /\ \E j \in DOMAIN m.children : i \in hits[m.children[j]]}

LEMMA AnswersTyped ==
  ASSUME NEW r, NEW hits, Answers(r, hits)
  PROVE  r \in Results /\ r # Unset
  BY FoundTyped DEF Answers

\* A member finds what it describes when the objects nested in it do.
LEMMA MemberAnswers ==
  ASSUME QInv, NEW m, NEW plain, NEW results, NEW hits,
         \A object \in plain : Answers(results[object], hits[object]),
         \/ /\ m.tag = "field" /\ m.field \in Fields /\ m.cond \in Conditions
            /\ MeansTheSame(m.field, m.cond)
         \/ /\ m.tag \in {"$and", "$or"} /\ m.children \in Seq(plain)
            /\ m.tag = "$and" => m.children # <<>>
  PROVE  Answers(FindByMember(m, results), MemberHits(m, hits))
  <1>1. CASE /\ m.tag = "field" /\ m.field \in Fields /\ m.cond \in Conditions
             /\ MeansTheSame(m.field, m.cond)
    <2> DEFINE r == FindForMember(m.field, m.cond)
    <2>1. /\ r = Null \/ r = Found(r.ids)
          /\ r.ids \in Seq(Ids)
          /\ SameIds(r.ids, Meeting(m.field, m.cond))
      BY <1>1, MemberFinds
    <2>2. MemberHits(m, hits) = Meeting(m.field, m.cond)
      BY <1>1 DEF MemberHits, Meeting
    <2>3. Meeting(m.field, m.cond) \subseteq DOMAIN docs
      BY DEF Meeting
    <2>4. FindByMember(m, results) = r
      BY <1>1 DEF FindByMember
    <2> HIDE DEF r
    <2> QED
      BY <2>1, <2>2, <2>3, <2>4 DEF Answers
  <1>2. CASE /\ m.tag \in {"$and", "$or"} /\ m.children \in Seq(plain)
             /\ m.tag = "$and" => m.children # <<>>
    <2> DEFINE l == Len(m.children)
               rs == [i \in 1..l |-> results[m.children[i]]]
               H == [i \in 1..l |-> hits[m.children[i]]]
    <2>1. /\ l \in Nat /\ DOMAIN m.children = 1..l
          /\ \A i \in 1..l : m.children[i] \in plain
      BY <1>2, ElementOfSeq, LenProperties
    <2>2. \A i \in 1..l : Answers(results[m.children[i]], hits[m.children[i]])
      BY <2>1
    <2>3. \A i \in 1..l : results[m.children[i]] \in Results
      BY <2>2, AnswersTyped
    <2>4. \A i \in 1..l : Answers(rs[i], H[i])
      BY <2>2
    <2>5. CASE m.tag = "$and"
      <3>1. PICK acc : AndLoop(acc, rs, l) /\ FindByAnd(m.children, results) = acc[l]
        BY <2>1, <2>3, FindByAndDef
      <3>2. l # 0
        BY <1>2, <2>5, EmptySeq
      <3>3. MemberHits(m, hits) = {p \in DOMAIN docs : \A i \in 1..l : p \in H[i]}
        BY <2>1, <2>5 DEF MemberHits
      <3>4. FindByMember(m, results) = acc[l]
        BY <2>5, <3>1 DEF FindByMember
      <3> HIDE DEF l, rs, H
      <3>5. Answers(acc[l], {p \in DOMAIN docs : \A i \in 1..l : p \in H[i]})
        BY <2>1, <2>4, <3>1, <3>2, AndLoopAnswers
      <3> QED
        BY <3>3, <3>4, <3>5
    <2>6. CASE m.tag = "$or"
      <3>1. PICK acc : OrLoop(acc, rs, l) /\ FindByOr(m.children, results) = Found(acc[l].ids)
        BY <2>1, <2>3, FindByOrDef
      <3>2. MemberHits(m, hits) = {p \in DOMAIN docs : \E i \in 1..l : p \in H[i]}
        BY <2>1, <2>6 DEF MemberHits
      <3>3. FindByMember(m, results) = Found(acc[l].ids)
        BY <2>6, <3>1 DEF FindByMember
      <3> HIDE DEF l, rs, H
      <3>4. Answers(Found(acc[l].ids), {p \in DOMAIN docs : \E i \in 1..l : p \in H[i]})
        BY <2>1, <2>4, <3>1, OrLoopAnswers
      <3> QED
        BY <3>2, <3>3, <3>4
    <2> QED
      BY <1>2, <2>5, <2>6
  <1> QED
    BY <1>1, <1>2

\* A plain object finds what it describes when the plain objects a level down do.
LEMMA ObjectAnswers ==
  ASSUME QInv, NEW n \in 1..Depth, NEW object \in Plain[n],
         \A nested \in Plain[n - 1] : Answers(FindByQuery[n - 1][nested], Hits[n - 1][nested])
  PROVE  Answers(FindByQuery[n][object], Hits[n][object])
  <1> DEFINE results == FindByQuery[n - 1]
             hits == Hits[n - 1]
             l == Len(object)
             rs == [k \in 1..l |-> FindByMember(object[k], results)]
             H == [k \in 1..l |-> MemberHits(object[k], hits)]
  <1>1. object \in Objects[n] /\ PlainOver(object, Plain[n - 1])
    BY PlainDef
  <1>2. n - 1 \in 0..Depth
    BY QueryObjectsAssumption
  <1>3. results \in [Objects[n - 1] -> Results]
    BY <1>2, FindByQueryDef
  <1>4. FindByQuery[n][object] = FindByMembers(object, results)
    BY <1>1, FindByQueryDef
  <1>5. Hits[n][object] = HitsOf(object, hits)
    BY <1>1, HitsDef
  <1>6. /\ l \in Nat /\ DOMAIN object = 1..l
        /\ \A k \in 1..l :
             \/ object[k].tag = "field" /\ object[k].field \in Fields /\ object[k].cond \in Conditions
             \/ object[k].tag \in {"$and", "$or"} /\ object[k].children \in Seq(Objects[n - 1])
    BY <1>1, MemberShape
  <1>7. \A nested \in Plain[n - 1] : Answers(results[nested], hits[nested])
    OBVIOUS
  <1> HIDE DEF results, hits
  <1>8. ASSUME NEW k \in 1..l
        PROVE  Answers(FindByMember(object[k], results), MemberHits(object[k], hits))
    <2> DEFINE m == object[k]
               P == Plain[n - 1]
    <2>1. \/ m.tag = "field" /\ MeansTheSame(m.field, m.cond)
          \/ /\ m.tag \in {"$and", "$or"} /\ m.children \in Seq(P)
             /\ m.tag = "$and" => m.children # <<>>
      BY <1>1, <1>6 DEF PlainOver
    <2>2. m.tag = "field" => m.field \in Fields /\ m.cond \in Conditions
      BY <1>6
    <2>3. \A nested \in P : Answers(results[nested], hits[nested])
      BY <1>7
    <2> HIDE DEF m, P
    <2>4. Answers(FindByMember(m, results), MemberHits(m, hits))
      BY <2>1, <2>2, <2>3, MemberAnswers
    <2> QED
      BY <2>4 DEF m
  <1>9. l # 0
    <2>1. object \in Seq(Members(object)) /\ object # <<>>
      BY <1>1, QueryObjectsAssumption DEF PlainOver
    <2> QED
      BY <2>1, EmptySeq
  <1>10. \A k \in 1..l : FindByMember(object[k], results) \in Results
    BY <1>8, AnswersTyped
  <1>11. PICK acc : /\ AndLoop(acc, rs, l)
                    /\ FindByMembers(object, results) = IF acc[l] = Unset THEN Null ELSE acc[l]
    BY <1>6, <1>10, FindByMembersDef
  <1>12. \A k \in 1..l : Answers(rs[k], H[k])
    BY <1>8
  <1>13. HitsOf(object, hits) = {p \in DOMAIN docs : \A k \in 1..l : p \in H[k]}
    <2>1. \A k \in 1..l : H[k] = MemberHits(object[k], hits)
      OBVIOUS
    <2> HIDE DEF H
    <2> QED
      BY <1>6, <2>1 DEF HitsOf, MemberHits
  <1> HIDE DEF l, rs, H
  <1>14. Answers(acc[l], {p \in DOMAIN docs : \A k \in 1..l : p \in H[k]})
    BY <1>6, <1>9, <1>11, <1>12, AndLoopAnswers
  <1>15. acc[l] # Unset
    BY <1>14, AnswersTyped
  <1> QED
    BY <1>4, <1>5, <1>11, <1>13, <1>14, <1>15

LEMMA QueriesAnswer ==
  ASSUME QInv
  PROVE  \A n \in 1..Depth : \A object \in Plain[n] : Answers(FindByQuery[n][object], Hits[n][object])
  <1> DEFINE Right(n) == \A object \in Plain[n] : Answers(FindByQuery[n][object], Hits[n][object])
             S == {n \in Nat : n <= Depth => Right(n)}
  <1>1. Right(0)
    BY PlainDef
  <1>2. ASSUME NEW n \in 1..Depth, Right(n - 1) PROVE Right(n)
    BY <1>2, ObjectAnswers
  <1>3. Depth \in Nat
    BY QueryObjectsAssumption
  <1> HIDE DEF Right
  <1>4. ASSUME NEW n \in Nat, n \in S PROVE n + 1 \in S
    <2> SUFFICES ASSUME n + 1 <= Depth PROVE Right(n + 1)
      OBVIOUS
    <2>1. n + 1 \in 1..Depth /\ (n + 1) - 1 = n /\ n <= Depth
      BY <1>3
    <2>2. Right(n)
      BY <1>4, <2>1
    <2> QED
      BY <1>2, <2>1, <2>2
  <1>5. 0 \in S
    BY <1>1
  <1>6. Nat \subseteq S
    <2> HIDE DEF S
    <2> QED
      BY <1>4, <1>5, Induction
  <1>7. \A n \in 1..Depth : n \in Nat /\ n <= Depth
    BY <1>3
  <1>8. \A n \in 1..Depth : Right(n)
    BY <1>6, <1>7
  <1> QED
    BY <1>8 DEF Right

\* A query finds the documents it describes, each once: for query objects of
\* every depth and width over all conditions that mean the same to a lookup and
\* to a scan, with no empty object and no empty $and in them.
THEOREM QueriesMeanWhatTheySayHolds == Spec => []QueriesMeanWhatTheySay
  <1>1. ASSUME QInv PROVE QueriesMeanWhatTheySay
    BY <1>1, QueriesAnswer DEF QueriesMeanWhatTheySay, Answers
  <1> QED
    BY <1>1, QInvHolds, PTL
=============================================================================
