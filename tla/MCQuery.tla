------------------------------- MODULE MCQuery -------------------------------
(***************************************************************************)
(* Instances of QueryObjects for TLC.                                      *)
(***************************************************************************)
EXTENDS QueryObjects

LOCAL INSTANCE TLC

\* A number with a value index and a Boolean with a hash index.  0 and -0 are
\* two texts of one number; true is none.
ScalarTexts == {"0", "-0", "7", "true"}
ScalarNum == [t \in ScalarTexts |-> IF t = "7" THEN 7 ELSE IF t = "true" THEN NoNum ELSE 0]
ScalarType == [f \in Fields |-> IF f = "flag" THEN "bool" ELSE "number"]
ScalarIndex == [f \in Fields |-> IF f = "flag" THEN "hash" ELSE "value"]

\* Conditions answered by an exact lookup, by a range that finds something, by
\* one that never does, and by a scan.
Exact == Condition("n", [kind |-> "number", op |-> "eq", num |-> 0, text |-> ""])
Bounded(op, n) == Condition("n", [kind |-> "range", op |-> op, num |-> n, text |-> ""])
Flagged == Condition("flag", [kind |-> "bool", op |-> "eq", num |-> NoNum, text |-> "true"])

Atoms == {Exact, Bounded("lte", 7), Bounded("gt", 7), Flagged}
Simple == {<<a>> : a \in Atoms} \cup {<<a, Flagged>> : a \in Atoms}
Lists == {<<a>> : a \in Simple} \cup (Simple \X Simple)
Compound == {And(l) : l \in Lists} \cup {Or(l) : l \in Lists}
Nested == {Or(<<<<m>>, <<Exact>>>>) : m \in Compound} \cup {And(<<<<m>>, <<Flagged>>>>) : m \in Compound}

\* Objects without nested ones, with lists of those, and with lists of these; the
\* empty object and the empty $and are asked too, though not Plain.
ScalarDepth == 3
Deep ==
  {<<m>> : m \in Compound \cup {And(<<>>), Or(<<>>)}}
  \cup {<<m, a>> : m \in Compound, a \in {Exact, Bounded("gt", 7)}}
  \cup {<<a, m>> : m \in Compound, a \in {Exact, Bounded("gt", 7)}}
ScalarObjects ==
  0 :> {} @@ 1 :> Simple \cup {<<>>} @@ 2 :> Simple \cup Deep @@ 3 :> {<<m>> : m \in Nested}
NoObjects == 0 :> {}

\* Strings and lists of strings; some look like numbers.
WordTexts == {"7", "a"}
WordNum == [t \in WordTexts |-> IF t = "7" THEN 7 ELSE NoNum]
WordType == [f \in Fields |-> IF f = "tags" THEN "texts" ELSE "text"]
WordIndex == [f \in Fields |-> IF f = "tags" THEN "hashElements" ELSE "value"]
=============================================================================
