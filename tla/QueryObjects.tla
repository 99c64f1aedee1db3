----------------------------- MODULE QueryObjects -----------------------------
(***************************************************************************)
(* Query objects (find_docs_by_query in apxdb_collection.c): conditions on *)
(* fields, $and and $or over lists of query objects, nested.  A query      *)
(* object is the sequence of its members; a member has a tag and either a  *)
(* field with a condition or the children.                                 *)
(*                                                                         *)
(* The code tells an error, a range lookup that found nothing and an empty *)
(* query object from one another nowhere: all are the null pointer.        *)
(***************************************************************************)
EXTENDS Query

CONSTANTS
  Depth,   \* bound: how deep the query objects are nested
  Objects  \* Objects[n]: the query objects that are asked, nested at most n deep

Condition(f, c) == [tag |-> "field", field |-> f, cond |-> c]
And(children) == [tag |-> "$and", children |-> children]
Or(children) == [tag |-> "$or", children |-> children]

ASSUME QueryObjectsAssumption ==
  /\ Depth \in Nat
  /\ DOMAIN Objects = 0..Depth
  /\ Objects[0] = {}
  /\ \A n \in 1..Depth : \A object \in Objects[n] :
       /\ object \in Seq(Members(object))
       /\ \A k \in DOMAIN object :
            LET m == object[k] IN
            \/ m.tag = "field" /\ m.field \in Fields /\ m.cond \in Conditions
            \/ m.tag \in {"$and", "$or"} /\ m.children \in Seq(Objects[n - 1])

\* intersect_doc_id_lists
Intersect(a, b) == Only(a, Members(b))

\* union_doc_id_lists: the ids of one list after the other, each once.
Union(a, b) ==
  LET both == a \o b
      upTo[i \in 0..Len(both)] ==
        IF i = 0 THEN <<>> ELSE WithId(upTo[i - 1], both[i])
  IN upTo[Len(both)]

\* The result so far, before any: result == NULL with nothing wrong.
Unset == [kind |-> "unset", ids |-> <<>>]

\* Slip in OrChild: a child without a result ends the whole $or.
OrChildStrict(acc, r) ==
  IF acc = Null \/ r = Null THEN Null
  ELSE IF acc = Unset THEN r ELSE Found(Union(acc.ids, r.ids))

\* One more child of $or: a null pointer is passed over.
OrChild(acc, r) ==
  IF r = Null THEN acc
  ELSE IF acc = Unset THEN r ELSE Found(Union(acc.ids, r.ids))

\* One more child of $and, or member of an object: a null pointer ends it all.
AndChild(acc, r) ==
  IF acc = Null \/ r = Null THEN Null
  ELSE IF acc = Unset THEN r ELSE Found(Intersect(acc.ids, r.ids))

\* $and: one child after the other, from the results of the nested objects.
FindByAnd(children, results) ==
  LET acc[i \in 0..Len(children)] ==
        IF i = 0 THEN Unset ELSE AndChild(acc[i - 1], results[children[i]])
  IN acc[Len(children)]

\* $or: a list, empty when no child has a result.
FindByOr(children, results) ==
  LET acc[i \in 0..Len(children)] ==
        IF i = 0 THEN Unset ELSE OrChild(acc[i - 1], results[children[i]])
  IN Found(acc[Len(children)].ids)

FindByMember(m, results) ==
  IF m.tag = "field" THEN FindForMember(m.field, m.cond)
  ELSE IF m.tag = "$and" THEN FindByAnd(m.children, results)
  ELSE FindByOr(m.children, results)

\* An object: one member after the other.  The null pointer also when no member
\* gave a result.
FindByMembers(object, results) ==
  LET acc[i \in 0..Len(object)] ==
        IF i = 0 THEN Unset ELSE AndChild(acc[i - 1], FindByMember(object[i], results))
      all == acc[Len(object)]
  IN IF all = Unset THEN Null ELSE all

\* find_docs_by_query, which calls itself for nested objects.
FindByQuery ==
  LET find[n \in 0..Depth] ==
        IF n = 0 THEN <<>>
        ELSE LET nested == find[n - 1]
             IN [object \in Objects[n] |-> FindByMembers(object, nested)]
  IN find

-----------------------------------------------------------------------------
\* The positions of the documents that a query object describes, from those of
\* the objects nested in it.
HitsOf(object, hits) ==
  {i \in DOMAIN docs :
     \A k \in DOMAIN object :
       LET m == object[k] IN
       \/ m.tag = "field" /\ Matches(m.field, docs[i].value[m.field], m.cond)
       \/ m.tag = "$and" /\ \A j \in DOMAIN m.children : i \in hits[m.children[j]]
       \/ m.tag = "$or" /\ \E j \in DOMAIN m.children : i \in hits[m.children[j]]}

Hits ==
  LET hits[n \in 0..Depth] ==
        IF n = 0 THEN <<>>
        ELSE LET nested == hits[n - 1] IN [object \in Objects[n] |-> HitsOf(object, nested)]
  IN hits

\* The query objects with no empty object and no empty $and in them, and no
\* condition that means something else to a lookup than to a scan.
PlainOver(object, nested) ==
  /\ object # <<>>
  /\ \A k \in DOMAIN object :
       LET m == object[k] IN
       \/ m.tag = "field" /\ MeansTheSame(m.field, m.cond)
       \/ /\ m.tag \in {"$and", "$or"}
          /\ m.children \in Seq(nested)
          /\ m.tag = "$and" => m.children # <<>>

Plain ==
  LET plain[n \in 0..Depth] ==
        IF n = 0 THEN {}
        ELSE LET nested == plain[n - 1] IN {object \in Objects[n] : PlainOver(object, nested)}
  IN plain

\* A query finds the documents it describes, each once, however its conditions
\* are nested, although a range lookup inside that finds nothing looks like an
\* error: $or passes over it and goes on, $and and the object itself give up.  To
\* apxdb_find_documents and apxdb_count_documents the null pointer, with a count
\* of 0, is an empty answer.
QueriesMeanWhatTheySay ==
  \A n \in 1..Depth :
    LET found == FindByQuery[n]
        hits == Hits[n]
    IN \A object \in Plain[n] : SameIds(found[object].ids, hits[object])
=============================================================================
