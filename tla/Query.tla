-------------------------------- MODULE Query ---------------------------------
(***************************************************************************)
(* Index lookups and scans of one collection (apxdb_collection.c): how a   *)
(* document enters the index of a field, and which documents a condition   *)
(* on a field finds with the index and without it.                         *)
(*                                                                         *)
(* An index keeps its keys as texts.  For the number types it also keeps   *)
(* the number, and looks for it first: different texts may be equal        *)
(* numbers (0 and -0, integers beyond 2^53 that are one double).  A value  *)
(* of a field is the sequence of its texts: <<>> for null and for an empty *)
(* list, one for a plain value, any number of them for a list of strings.  *)
(***************************************************************************)
EXTENDS Integers, Sequences

CONSTANTS
  Fields,     \* the fields of the schema
  Type,       \* Type[f]: a number type, text, bool, or a list of text
  IndexType,  \* IndexType[f]: the declared index, or "none"
  Texts,      \* the texts that occur as values and keys
  Num,        \* Num[t]: the number strtod reads in all of t, or NoNum
  NoNum,      \* not a number
  MaxDocs     \* bound: the document counter stops here

ASSUME QueryAssumption ==
  /\ Type \in [Fields -> {"number", "text", "bool", "texts"}]
  /\ IndexType \in [Fields -> {"none", "value", "hash", "hashElements"}]
  /\ \A f \in Fields : IndexType[f] # "none" =>
                         (IndexType[f] = "hashElements" <=> Type[f] = "texts")
  /\ Num \in [Texts -> Int \cup {NoNum}]
  /\ \A t \in Texts \cap {"true", "false"} : Num[t] = NoNum
  /\ MaxDocs \in Nat

VARIABLES
  docs,     \* the documents, in order
  entries,  \* entries[f]: the entries of the index on f, in order
  counter   \* the number of the last document

vars == <<docs, entries, counter>>

Values(f) ==
  {<<>>} \cup
  IF Type[f] = "number" THEN {<<t>> : t \in {x \in Texts : Num[x] # NoNum}}
  ELSE IF Type[f] = "bool" THEN {<<t>> : t \in Texts \cap {"true", "false"}}
  ELSE IF Type[f] = "text" THEN {<<t>> : t \in Texts}
  ELSE {<<t>> : t \in Texts} \cup (Texts \X Texts)

Records == {r \in [Fields -> UNION {Values(f) : f \in Fields}] : \A f \in Fields : r[f] \in Values(f)}

Numbers == {Num[t] : t \in Texts} \cup {NoNum}

Members(s) == {s[k] : k \in DOMAIN s}

\* The elements of s that are in S, in their order.
Only(s, S) ==
  LET kept[i \in 0..Len(s)] ==
        IF i = 0 THEN <<>> ELSE IF s[i] \in S THEN Append(kept[i - 1], s[i]) ELSE kept[i - 1]
  IN kept[Len(s)]

Init ==
  /\ docs = <<>>
  /\ entries = [f \in Fields |-> <<>>]
  /\ counter = 0

-----------------------------------------------------------------------------
(***************************************************************************)
(* Entering a document into an index.  Positions are sets, empty when the  *)
(* search of the array finds nothing.                                      *)
(***************************************************************************)
FirstOf(places) == {i \in places : \A j \in places : i <= j}

ByKey(es, t) == FirstOf({i \in DOMAIN es : es[i].key = t})
ByNumber(es, n) == FirstOf({i \in DOMAIN es : es[i].num # NoNum /\ es[i].num = n})

\* Slip in EntryFor: the number is not looked for.
EntryByText(f, es, t) == ByKey(es, t)

\* The entry to which add_index_key adds a document with key t.
EntryFor(f, es, t) ==
  IF Type[f] = "number" /\ ByNumber(es, Num[t]) # {} THEN ByNumber(es, Num[t]) ELSE ByKey(es, t)

\* Slips in WithId: the id is added without a look for it; it is read from the
\* counter after the next document took its number.
WithIdAgain(ids, id) == Append(ids, id)
WithNextId(ids, id) == Append(ids, id + 1)

\* add_doc_id_to_entry
WithId(ids, id) == IF \E k \in DOMAIN ids : ids[k] = id THEN ids ELSE Append(ids, id)

\* The number of a new entry.  An element index does not assign it: junk.
NumberOf(f, t, junk) ==
  IF IndexType[f] = "hashElements" THEN junk[t] ELSE IF Type[f] = "number" THEN Num[t] ELSE NoNum

\* add_index_key for one key.
AddKey(f, es, id, t, junk) ==
  LET at == EntryFor(f, es, t)
  IN IF at = {} THEN Append(es, [key |-> t, num |-> NumberOf(f, t, junk), ids |-> <<id>>])
     ELSE [i \in DOMAIN es |-> IF i \in at THEN [es[i] EXCEPT !.ids = WithId(@, id)] ELSE es[i]]

\* add_index_key for one key after the other.
AddKeys(f, es, id, keys, junk) ==
  LET after[i \in 0..Len(keys)] ==
        IF i = 0 THEN es ELSE AddKey(f, after[i - 1], id, keys[i], junk)
  IN after[Len(keys)]

\* index_document on one field.
AddDoc(f, es, doc, junk) ==
  IF IndexType[f] = "none" THEN es ELSE AddKeys(f, es, doc.id, doc.value[f], junk)

\* rebuild_indexes on one field: index_document for one document after the other.
Rebuilt(f, ds, junk) ==
  LET after[i \in 0..Len(ds)] == IF i = 0 THEN <<>> ELSE AddDoc(f, after[i - 1], ds[i], junk)
  IN after[Len(ds)]

\* remove_doc_from_indexes on one field: an entry stays when its last id goes.
RemoveId(es, id) == [i \in DOMAIN es |-> [es[i] EXCEPT !.ids = Only(@, Members(@) \ {id})]]

-----------------------------------------------------------------------------
\* Whatever the memory of the new entries holds.
Junk ==
  IF \E f \in Fields : IndexType[f] = "hashElements" THEN [Texts -> Numbers]
  ELSE {[t \in Texts |-> NoNum]}

Put(value, junk) ==
  LET doc == [id |-> counter + 1, value |-> value] IN
  /\ counter < MaxDocs
  /\ counter' = counter + 1
  /\ docs' = Append(docs, doc)
  /\ entries' = [f \in Fields |-> AddDoc(f, entries[f], doc, junk)]

\* index_document gives up in the indexes not in done; the document is taken out.
PutNotIndexed(value, junk, done) ==
  LET doc == [id |-> counter + 1, value |-> value] IN
  /\ counter < MaxDocs
  /\ counter' = counter + 1
  /\ entries' = [f \in Fields |->
       IF f \in done THEN RemoveId(AddDoc(f, entries[f], doc, junk), doc.id) ELSE entries[f]]
  /\ UNCHANGED docs

Delete(id) ==
  /\ \E i \in DOMAIN docs : docs[i].id = id
  /\ docs' = Only(docs, {doc \in Members(docs) : doc.id # id})
  /\ entries' = [f \in Fields |-> RemoveId(entries[f], id)]
  /\ UNCHANGED counter

\* The collection is saved and loaded in a new session: the load rebuilds every
\* index from the documents.
Reopen(junk) ==
  /\ entries' = [f \in Fields |-> Rebuilt(f, docs, junk)]
  /\ UNCHANGED <<docs, counter>>

Next ==
  \/ \E value \in Records, junk \in Junk : Put(value, junk)
  \/ \E value \in Records, junk \in Junk, done \in SUBSET Fields : PutNotIndexed(value, junk, done)
  \/ \E id \in 1..MaxDocs : Delete(id)
  \/ \E junk \in Junk : Reopen(junk)

Spec == Init /\ [][Next]_vars

-----------------------------------------------------------------------------
(***************************************************************************)
(* Conditions on a field.  A condition has a kind: the type of the JSON    *)
(* value, or "range" for an object with the one member op; the number that *)
(* parse_numeric_value reads in it or in the operand of op; and its text.  *)
(***************************************************************************)
Operators == {"gt", "gte", "lt", "lte", "eq"}

Conditions ==
  [kind: {"number"}, op: {"eq"}, num: Numbers \ {NoNum}, text: {""}]
  \cup {[kind |-> "string", op |-> "eq", num |-> Num[t], text |-> t] : t \in Texts}
  \cup [kind: {"bool"}, op: {"eq"}, num: {NoNum}, text: {"true", "false"}]
  \cup [kind: {"null"}, op: {"eq"}, num: {NoNum}, text: {"null"}]
  \cup [kind: {"range"}, op: Operators, num: Numbers, text: {""}]

\* compare_numeric_operator
Compares(x, op, y) ==
  CASE op = "gt" -> x > y
    [] op = "gte" -> x >= y
    [] op = "lt" -> x < y
    [] op = "lte" -> x <= y
    [] op = "eq" -> x = y

\* blob_field_matches_value: whether a document with this value meets condition c.
Matches(f, value, c) ==
  \E k \in DOMAIN value :
    IF Type[f] = "number"
    THEN c.num # NoNum /\ Compares(Num[value[k]], c.op, c.num)
    ELSE IF Type[f] = "bool" THEN c.kind = "bool" /\ value[k] = c.text
    ELSE c.kind = "string" /\ value[k] = c.text

\* The result of a search: "ids", or "null" for the null pointer that stands for
\* an error and, after a range lookup, for no document.
Null == [kind |-> "null", ids |-> <<>>]
Found(ids) == [kind |-> "ids", ids |-> ids]

\* scan_docs_for_member
Scan(f, c) ==
  LET hits == Only(docs, {doc \in Members(docs) : Matches(f, doc.value[f], c)})
  IN Found([i \in DOMAIN hits |-> hits[i].id])

\* Slip in Plan: an equality condition with a number is looked up by its text.
PlanByText(f, c) ==
  IF IndexType[f] = "none" THEN "scan"
  ELSE IF c.kind = "range" THEN IF IndexType[f] = "value" /\ c.num # NoNum THEN "range" ELSE "scan"
  ELSE IF c.kind = "string" THEN "text" ELSE IF c.num # NoNum THEN "number" ELSE "scan"

\* determine_query_plan, with the two lookups of INDEX_EXACT told apart.
Plan(f, c) ==
  IF IndexType[f] = "none" THEN "scan"
  ELSE IF c.kind = "range" THEN IF IndexType[f] = "value" /\ c.num # NoNum THEN "range" ELSE "scan"
  ELSE IF c.num # NoNum THEN "number" ELSE IF c.kind = "string" THEN "text" ELSE "scan"

\* The ids of the entries at these positions, in the order of the entries.
IdsAt(es, places) ==
  LET upTo[i \in 0..Len(es)] ==
        IF i = 0 THEN <<>> ELSE IF i \in places THEN upTo[i - 1] \o es[i].ids ELSE upTo[i - 1]
  IN upTo[Len(es)]

\* Whether collect_docs_by_range takes an entry: by its number or, when it has
\* none, by the number in its text.
InRange(entry, c) ==
  LET n == IF entry.num # NoNum THEN entry.num ELSE Num[entry.key]
  IN n # NoNum /\ Compares(n, c.op, c.num)

\* find_docs_for_member
FindForMember(f, c) ==
  LET es == entries[f] IN
  CASE Plan(f, c) = "scan" -> Scan(f, c)
    [] Plan(f, c) = "number" -> Found(IdsAt(es, ByNumber(es, c.num)))
    [] Plan(f, c) = "text" -> Found(IdsAt(es, ByKey(es, c.text)))
    [] Plan(f, c) = "range" ->
         LET ids == IdsAt(es, {i \in DOMAIN es : InRange(es[i], c)})
         IN IF ids = <<>> THEN Null ELSE Found(ids)

-----------------------------------------------------------------------------
\* Every variable has its type.
TypeOK ==
  /\ docs \in Seq([id: 1..MaxDocs, value: Records])
  /\ entries \in [Fields -> Seq([key: Texts, num: Numbers, ids: Seq(1..MaxDocs)])]
  /\ counter \in 0..MaxDocs

(***************************************************************************)
(* Where lookup and scan do not mean the same: on an index that holds no   *)
(* numbers (or, for lists, unassigned ones) a condition in which a number  *)
(* can be read is looked up as one, and on one of Booleans a string is     *)
(* looked up as a key.                                                     *)
(***************************************************************************)
MeansTheSame(f, c) ==
  \/ IndexType[f] = "none"
  \/ Type[f] = "number"
  \/ Type[f] = "bool" /\ c.kind # "string"
  \/ Type[f] = "text" /\ (c.kind = "string" => c.num = NoNum)
                      /\ (c.kind = "range" /\ IndexType[f] = "value" => c.num = NoNum)
  \/ Type[f] = "texts" /\ (c.kind \in {"string", "number"} => c.num = NoNum)

SameIds(found, hits) ==
  /\ {found[k] : k \in DOMAIN found} = {docs[i].id : i \in hits}
  /\ \A j, k \in DOMAIN found : found[j] = found[k] => j = k

\* An index does not change an answer: a condition finds the documents that a
\* scan finds, each once (apxdb_count_documents counts the ids), in whatever
\* order keys were added, deleted, left by a failed put and rebuilt.
IndexAgreesWithScan ==
  \A f \in Fields : \A c \in Conditions :
    MeansTheSame(f, c) =>
      SameIds(FindForMember(f, c).ids, {i \in DOMAIN docs : Matches(f, docs[i].value[f], c)})

\* One entry per text, and per number, so that the first entry found has all
\* documents with the key.
OneEntryPerKey ==
  \A f \in Fields : \A i, j \in DOMAIN entries[f] :
    \/ i = j
    \/ /\ entries[f][i].key # entries[f][j].key
       /\ Type[f] = "number" => entries[f][i].num # entries[f][j].num
=============================================================================
