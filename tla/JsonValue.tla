------------------------------- MODULE JsonValue -------------------------------
(***************************************************************************)
(* JSON values (src/src/native/apxdb_json.h) and the lookup of a member.   *)
(* A string is the sequence of its characters, a number is counted in      *)
(* quarters, so that it may have a fraction; int says that it was written  *)
(* without one.                                                            *)
(***************************************************************************)
EXTENDS Integers, Sequences

Unit == 4  \* numbers are counted in quarters

JNull == [type |-> "null"]
JBool(b) == [type |-> "bool", bool |-> b]
JNumber(n, int) == [type |-> "number", num |-> n, int |-> int]
JString(s) == [type |-> "string", text |-> s]
JArray(vs) == [type |-> "array", values |-> vs]
JObject(ms) == [type |-> "object", members |-> ms]
JMember(name, v) == [name |-> name, value |-> v]

\* apxdb_json_object_get: the values of the members with this name, of which
\* the first counts.
ObjectGet(object, name) ==
  LET places == {i \in DOMAIN object.members : object.members[i].name = name}
  IN IF places = {} THEN JNull
     ELSE object.members[CHOOSE i \in places : \A j \in places : i <= j].value
=============================================================================
