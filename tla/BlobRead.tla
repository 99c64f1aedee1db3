------------------------------- MODULE BlobRead -------------------------------
(***************************************************************************)
(* What is made of the payloads in a blob                                  *)
(* (src/src/native/apxdb_collection.c): the JSON text of a document, and   *)
(* whether a payload meets a query.                                        *)
(***************************************************************************)
EXTENDS Blob

LOCAL INSTANCE SequencesExt

-----------------------------------------------------------------------------
(***************************************************************************)
(* JSON text from payloads.  A text that cannot be built is Refused.       *)
(***************************************************************************)
Quoted(s) == << <<"\"">> >> \o FlattenSeq([k \in DOMAIN s |-> Escape(s[k])]) \o << <<"\"">> >>
Keyword(word) == << <<word>> >>
Comma(text) == IF Len(text) = 1 THEN <<>> ELSE Keyword(",")

\* A string element of a list is copied with the length in front of it; its
\* first byte is the length and the second ends the text.
ElementText(cells) == IF LoadU32(cells, 0) = 0 THEN <<>> ELSE <<"^">>

\* append_json_from_payload and append_json_object_from_blob
RECURSIVE ValueText(_, _), ListText(_, _), ObjectText(_, _)
ValueText(field, cells) ==
  CASE field.type \in NumberTypes ->
         IF Len(cells) < ScalarSize(field.type) THEN Refused
         ELSE LET n == Load(cells, 0, field.type, ScalarSize(field.type))
              IN Written(<< <<"number", n, n % Unit = 0>> >>)
    [] field.type = "bool" ->
         IF Len(cells) < 1 THEN Refused
         ELSE Written(Keyword(IF Load(cells, 0, "bool", 1) # 0 THEN "true" ELSE "false"))
    [] field.type = "string" ->
         IF Len(cells) < 4 \/ Len(cells) < 4 + LoadU32(cells, 0) THEN Refused
         ELSE LET chars == Slice(cells, 4, LoadU32(cells, 0))
              IN Written(Quoted([k \in DOMAIN chars |-> chars[k][2]]))
    [] field.type = "embedded" ->
         IF HoldsBlob(cells) THEN ObjectText(field.sub, NestedBlob(cells)) ELSE Refused
    [] field.type = "list" -> IF Len(cells) < 4 THEN Refused ELSE ListText(field, cells)

\* The text so far with one more part, and with its last character.
WithPart(text, start, part) ==
  IF text.ok /\ part.ok THEN Written(text.cells \o Comma(text.cells) \o start \o part.cells)
  ELSE Refused
Ended(text, bracket) == IF text.ok THEN Written(text.cells \o Keyword(bracket)) ELSE Refused

\* The bytes of one element of a list.
ListElementText(field, cells) ==
  CASE field.of = "string" -> Written(Quoted(ElementText(cells)))
    [] field.of = "embedded" -> ObjectText(field.sub, cells)
    [] OTHER -> ValueText(ElementField(field), cells)

\* The next element lies at at.
NextElement(acc, field, cells, at, size) ==
  IF at > Len(cells) \/ at + size > Len(cells) THEN [acc EXCEPT !.text = Refused]
  ELSE [at |-> at + size,
        text |-> WithPart(acc.text, <<>>, ListElementText(field, Slice(cells, at, size)))]

ListText(field, cells) ==
  LET Element(acc, k) ==
        IF ~acc.text.ok THEN acc
        ELSE IF Prefixed(field.of)
        THEN NextElement(acc, field, cells, acc.at + 4, LoadU32(cells, acc.at))
        ELSE NextElement(acc, field, cells, acc.at, ScalarSize(field.of))
  IN Ended(FoldLeft(Element, [at |-> 4, text |-> Written(Keyword("["))],
                    [k \in 1..LoadU32(cells, 0) |-> k]).text, "]")

\* One more member of the object written so far.
WithMember(text, field, value) == WithPart(text, Quoted(field.name) \o Keyword(":"), value)
NullText == Written(Keyword("null"))
EntryText(field, p) == IF p.ok THEN ValueText(field, p.cells) ELSE NullText

ObjectText(schema, blob) ==
  LET Member(acc, i) ==
        IF i > LoadU32(blob, 8) THEN Refused
        ELSE WithMember(acc, schema[i], EntryText(schema[i], EntryPayload(schema, blob, i)))
  IN Ended(FoldLeft(Member, Written(Keyword("{")), [i \in DOMAIN schema |-> i]), "}")

RowFieldText(field, p) == IF p.ok \/ field.nullable THEN EntryText(field, p) ELSE Refused

\* build_document_json_from_blob of a collection with layout l.  A layout with
\* another number of fields is not used.
RowText(l, schema, blob) ==
  LET Member(acc, i) ==
        WithMember(acc, schema[i],
          IF RowNull(l, schema, blob, i) THEN NullText
          ELSE RowFieldText(schema[i], RowCells(l, schema, blob, i)))
  IN IF l.count # Len(schema) THEN ObjectText(schema, blob)
     ELSE Ended(FoldLeft(Member, Written(Keyword("{")), [i \in DOMAIN schema |-> i]), "}")

-----------------------------------------------------------------------------
(***************************************************************************)
(* Queries.                                                                *)
(***************************************************************************)
\* blob_field_matches_value, blob_embedded_object_matches, blob_list_contains
RECURSIVE CellsMatch(_, _, _), ListContains(_, _, _)
PayloadMatches(p, q) == p.ok /\ CellsMatch(p.field, p.cells, q)
CellsMatch(field, cells, q) ==
  CASE field.type \in NumberTypes -> NumberCellsMeet(field, cells, q)
    [] field.type = "bool" ->
         Len(cells) >= 1 /\ q.type = "bool" /\ (Load(cells, 0, "bool", 1) # 0) = q.bool
    [] field.type = "string" ->
         /\ q.type = "string"
         /\ Len(cells) >= 4
         /\ LoadU32(cells, 0) = Len(q.text)
         /\ Slice(cells, 4, Len(q.text)) = [k \in DOMAIN q.text |-> <<"char", q.text[k], 1>>]
    [] field.type = "embedded" ->
         /\ q.type = "object"
         /\ HoldsBlob(cells)
         /\ \A k \in DOMAIN q.members :
              PayloadMatches(PathPayload(field.sub, NestedBlob(cells), <<q.members[k].name>>),
                             q.members[k].value)
    [] field.type = "list" -> Len(cells) >= 4 /\ ListContains(field, cells, q)

ListContains(field, cells, q) ==
  LET Past(acc, at, size) ==
        IF at > Len(cells) \/ at + size > Len(cells) THEN [acc EXCEPT !.done = TRUE]
        ELSE [acc EXCEPT !.at = at + size,
                         !.hit = CellsMatch(ElementField(field), Slice(cells, at, size), q)]
      Element(acc, k) ==
        IF acc.done \/ acc.hit THEN acc
        ELSE IF Prefixed(field.of) THEN Past(acc, acc.at + 4, LoadU32(cells, acc.at))
        ELSE Past(acc, acc.at, ScalarSize(field.of))
  IN FoldLeft(Element, [done |-> FALSE, hit |-> FALSE, at |-> 4],
              [k \in 1..LoadU32(cells, 0) |-> k]).hit
=============================================================================
