--------------------------------- MODULE Rows ---------------------------------
(***************************************************************************)
(* The documents of a collection down to the bytes: RowStore over the      *)
(* parser, the writers and the readers of JsonText, Blob and BlobRead.     *)
(* The configuration gives each operator that RowStore and RowFormat leave *)
(* open the definition of its name here: ParseText is Parse, Valid is      *)
(* ValidObject, PlainBlob is SerializeBlob, FieldSize is PayloadSize,      *)
(* WriteField is SerializeField, OtherCellsMeet is CellsMatch.             *)
(***************************************************************************)
EXTENDS RowStore, BlobRead

ASSUME RowsAssumption == ByteMax \in Nat

-----------------------------------------------------------------------------
\* apxdb_get_document: the text from the blob when there is a layout, the text
\* of the put when there is none or the blob gives no text.
GetDocument(doc) ==
  LET built == UNION {{t.cells : t \in {x \in {RowText(l, Fields, doc.blob)} : x.ok}} : l \in Layouts}
  IN IF built = {} THEN doc.text ELSE CHOOSE t \in built : TRUE

-----------------------------------------------------------------------------
(***************************************************************************)
(* What a document means: the value of every field of the schema, as the   *)
(* field's type holds it.                                                  *)
(***************************************************************************)
RECURSIVE MeantValue(_, _), MeantObject(_, _)
MeantValue(field, v) ==
  CASE v.type = "null" -> JNull
    [] field.type \in NumberTypes ->
         LET n == CHOOSE x \in StoredNumber(field, v) : TRUE IN JNumber(n, n % Unit = 0)
    [] field.type = "embedded" -> MeantObject(field.sub, v)
    [] field.type = "list" ->
         JArray([k \in DOMAIN v.values |-> MeantValue(ElementField(field), v.values[k])])
    [] OTHER -> v

MeantObject(schema, v) ==
  JObject([i \in DOMAIN schema |->
    JMember(schema[i].name, MeantValue(schema[i], ObjectGet(v, schema[i].name)))])

Meant(doc) == MeantObject(Fields, Parse(doc.text).value)

\* Whether a value meets a query; a null meets none.
RECURSIVE Meets(_, _, _)
Meets(field, v, q) ==
  CASE v.type = "null" -> FALSE
    [] field.type \in NumberTypes -> NumberMeets(v.num, q)
    [] field.type = "embedded" ->
         /\ q.type = "object"
         /\ \A k \in DOMAIN q.members : \E i \in FieldIndex(field.sub, q.members[k].name) :
              Meets(field.sub[i], v.members[i].value, q.members[k].value)
    [] field.type = "list" -> \E k \in DOMAIN v.values : Meets(ElementField(field), v.values[k], q)
    [] OTHER -> v = q

\* The field a path leads to and the value there, in an object of the schema.
RECURSIVE ValueAt(_, _, _)
ValueAt(schema, v, path) ==
  LET i == FirstIn(FieldIndex(schema, Head(path))) IN
  IF Len(path) = 1 \/ v.members[i].value.type # "object"
  THEN [field |-> schema[i], value |-> IF Len(path) = 1 THEN v.members[i].value ELSE JNull]
  ELSE ValueAt(schema[i].sub, v.members[i].value, Tail(path))

MeetsAt(meant, path, q) ==
  LET at == ValueAt(Fields, meant, path) IN Meets(at.field, at.value, q)

-----------------------------------------------------------------------------
(***************************************************************************)
(* Properties.                                                             *)
(***************************************************************************)

\* What a row cannot give back: the strings of a list, which come with their
\* lengths, and the objects of one.
WritesLists == \E i \in DOMAIN Fields : Fields[i].type = "list" /\ Prefixed(Fields[i].of)

\* A document that is read is the one that was put, in every field, whether its
\* text is kept or written anew from the row, nulls, missing members, escapes,
\* lists and the fall back on the old text included.
ReadsBack ==
  Readable /\ ~(Layouts # {} /\ WritesLists) =>
    \A i \in DOMAIN docs :
      LET again == Parse(GetDocument(docs[i]))
      IN again.ok /\ MeantObject(Fields, again.value) = Meant(docs[i])

\* The queries of a path that mean the same to the code and to the reader: all
\* but those on the objects of a list.
Scannable(path) ==
  \A f \in FieldAt(Fields, path) : f.type = "list" => f.of # "embedded"

\* A scan finds the documents whose field, or field of an embedded object,
\* meets the query, in rows as in blobs without a layout.
ScanFinds ==
  Readable =>
    \A i \in DOMAIN docs :
      LET meant == Meant(docs[i]) IN
      \A path \in Paths[schemaOf[Name]], q \in Queries :
        Scannable(path) => (Found(docs[i], path, q) <=> MeetsAt(meant, path, q))

\* A layout that suits the schema: the same fields, storage of the right size.
Suits(l, schema) ==
  /\ l.count = Len(schema)
  /\ \A i \in DOMAIN schema :
       /\ schema[i].type \in {"string", "list", "embedded"} => l.variable[i]
       /\ l.variable[i] \/ l.size[i] = ScalarSize(schema[i].type)

\* Every field of the schema has a member, and so in the objects below.
RECURSIVE Complete(_, _)
Complete(schema, v) ==
  \A i \in DOMAIN schema :
    /\ FieldIndex(v.members, schema[i].name) # {}
    /\ LET value == ObjectGet(v, schema[i].name) IN
       schema[i].type = "embedded" /\ value # JNull => Complete(schema[i].sub, value)

\* The documents that can be written if they are valid: every member is there,
\* an enum is not given by its name, nor a date by a text that is no number, and
\* of embedded objects there is one, without a layout, that has no more fields
\* than the document.
Embedded(schema) == {i \in DOMAIN schema : schema[i].type = "embedded"}
CanWrite(schema, v) ==
  /\ Complete(schema, v)
  /\ \A i \in DOMAIN schema :
       LET value == ObjectGet(v, schema[i].name) IN
       /\ schema[i].type = "enum" => schema[i].strategy # "name" \/ value = JNull
       /\ schema[i].type = "datetime" => value = JNull \/ NumericValue(value) # {}
       /\ schema[i].type = "list" => schema[i].of # "embedded" \/ value = JNull \/ value.values = <<>>
       /\ schema[i].type = "embedded" =>
            value = JNull \/ (/\ Layouts = {}
                              /\ Embedded(schema) = {i}
                              /\ Embedded(schema[i].sub) = {}
                              /\ Len(schema[i].sub) <= Len(schema))

\* A document the validation accepts is stored, not refused half-way, whatever
\* its fields hold: the size computed first is enough for what is written.
ValidIsStored ==
  Usable /\ puts = 0 /\ (\A l \in Layouts : Suits(l, Fields)) =>
    \A k \in DOMAIN Offered : \A text \in Offered[k][schemaOf[Name]] :
      LET v == Parse(text) IN
      v.ok /\ ValidObject(Fields, v.value) /\ CanWrite(Fields, v.value) =>
        BlobUnder(layoutOf[Name], Fields, v.value).ok
=============================================================================
