--------------------------------- MODULE Blob ---------------------------------
(***************************************************************************)
(* Documents as bytes (src/src/native/apxdb_collection.c): what a document *)
(* must be like to be accepted, how the payload of a field is written, and *)
(* how a document is written into a blob without a layout.  RowFormat has  *)
(* the cells, the header and the row of a layout.                          *)
(***************************************************************************)
EXTENDS JsonText, RowFormat

LOCAL INSTANCE SequencesExt

CONSTANT ByteMax  \* UINT8_MAX

Junk == <<"junk">>     \* malloc

-----------------------------------------------------------------------------
(***************************************************************************)
(* Numbers, as sets that are empty when there is none.                     *)
(***************************************************************************)
\* parse_integer_value
IntegerValue(v) ==
  CASE v.type = "number" -> IF v.int THEN {v.num} ELSE {}
    [] OTHER -> {n \in NumericValue(v) : n % Unit = 0}

\* The cast of a double to float, which keeps half of the fractions.
Single(n) == n - (n % 2)

\* The number that is stored for v, as a set: compute_field_payload_size and
\* serialize_field_payload both refuse the value when there is none.
StoredNumber(field, v) ==
  CASE field.type = "byte" -> {n \in IntegerValue(v) : n >= 0 /\ n <= ByteMax * Unit}
    [] field.type = "short" -> {n \in IntegerValue(v) : Int32(n)}
    [] field.type \in {"int", "enum"} -> IntegerValue(v)
    [] field.type = "datetime" -> {Truncated(n) : n \in NumericValue(v)}
    [] field.type = "float" -> IF v.type = "number" THEN {Single(v.num)} ELSE {}
    [] field.type = "double" -> IF v.type = "number" THEN {v.num} ELSE {}
    [] field.type = "bool" -> IF v.type = "bool" THEN {IF v.bool THEN 1 ELSE 0} ELSE {}

-----------------------------------------------------------------------------
(***************************************************************************)
(* Validation: validate_json_object and what it calls.                     *)
(***************************************************************************)
ElementField(field) == [field EXCEPT !.type = field.of]

ValidEnum(field, v) ==
  CASE field.strategy = "name" -> v.type = "string" /\ \E i \in DOMAIN field.names : field.names[i] = v.text
    [] field.strategy = "value" ->
         v.type = "number" /\ v.int /\ \E i \in DOMAIN field.values : field.values[i] * Unit = v.num
    [] field.strategy = "ordinal" ->
         v.type = "number" /\ v.int /\ v.num >= 0 /\ v.num < Len(field.values) * Unit

RECURSIVE ValidValue(_, _), ValidObject(_, _)
ValidValue(field, v) ==
  IF v.type = "null" THEN field.nullable
  ELSE CASE field.type = "byte" -> v.type = "number" /\ v.int /\ v.num >= 0 /\ v.num <= ByteMax * Unit
         [] field.type = "short" -> v.type = "number" /\ v.int /\ Int32(v.num)
         [] field.type = "int" -> v.type = "number" /\ v.int
         [] field.type \in {"float", "double"} -> v.type = "number"
         [] field.type = "bool" -> v.type = "bool"
         [] field.type = "string" -> v.type = "string"
         [] field.type = "datetime" -> v.type \in {"number", "string"}
         [] field.type = "embedded" -> ValidObject(field.sub, v)
         [] field.type = "enum" -> ValidEnum(field, v)
         [] field.type = "list" ->
              v.type = "array" /\ \A i \in DOMAIN v.values : ValidValue(ElementField(field), v.values[i])

ValidObject(schema, v) ==
  /\ v.type = "object"
  /\ \A i \in DOMAIN schema : ValidValue(schema[i], ObjectGet(v, schema[i].name))

-----------------------------------------------------------------------------
(***************************************************************************)
(* Writing without a layout: the header, and the payloads one after        *)
(* another.  The size is computed first.                                   *)
(***************************************************************************)
Prefixed(type) == type \in {"string", "embedded"}

RECURSIVE PayloadSize(_, _), BlobSize(_, _)
PayloadSize(field, v) ==
  IF v.type = "null" THEN IF field.nullable THEN 0 ELSE Bad
  ELSE CASE field.type = "string" -> IF v.type = "string" THEN 4 + Len(v.text) ELSE Bad
         [] field.type = "embedded" ->
              IF v.type = "object" /\ BlobSize(field.sub, v) # Bad THEN 4 + BlobSize(field.sub, v) ELSE Bad
         [] field.type = "list" ->
              IF v.type # "array" THEN Bad
              ELSE FoldLeft(LAMBDA total, e :
                     LET size == PayloadSize(ElementField(field), e)
                     IN IF total = Bad \/ size = Bad THEN Bad
                        ELSE total + size + IF Prefixed(field.of) THEN 4 ELSE 0, 4, v.values)
         [] OTHER -> IF StoredNumber(field, v) = {} THEN Bad ELSE ScalarSize(field.type)

\* compute_document_blob_size: the header is counted in.
BlobSize(schema, v) ==
  FoldLeft(LAMBDA total, field :
    LET size == PayloadSize(field, ObjectGet(v, field.name))
    IN IF total = Bad \/ size = Bad THEN Bad ELSE total + size, HeaderSize(schema), schema)

\* The payload of an embedded object, from its blob.
Embedding(nested, room) ==
  IF ~nested.ok \/ room < 4 + Len(nested.cells) THEN Refused
  ELSE Written(U32(Len(nested.cells)) \o nested.cells)

\* serialize_field_payload and serialize_document_blob.  room is buffer_size.
RECURSIVE SerializeField(_, _, _), SerializeList(_, _, _), SerializeBlob(_, _)
SerializeField(field, v, room) ==
  CASE v.type = "null" -> IF field.nullable THEN Written(<<>>) ELSE Refused
    [] field.type = "string" ->
         IF v.type # "string" \/ room < 4 + Len(v.text) THEN Refused
         ELSE Written(U32(Len(v.text)) \o [k \in DOMAIN v.text |-> <<"char", v.text[k], 1>>])
    [] field.type = "embedded" ->
         IF v.type # "object" THEN Refused ELSE Embedding(SerializeBlob(field.sub, v), room)
    [] field.type = "list" ->
         IF v.type # "array" \/ room < 4 THEN Refused ELSE SerializeList(field, v.values, room)
    [] OTHER ->
         IF StoredNumber(field, v) = {} \/ room < ScalarSize(field.type) THEN Refused
         ELSE LET n == CHOOSE x \in StoredNumber(field, v) : TRUE
              IN Written(Bytes(field.type, n, ScalarSize(field.type)))

\* Slip in ElementPrefix: the prefix counts itself.
ElementPrefixAll(field, size) == IF Prefixed(field.of) THEN U32(size + 4) ELSE <<>>

\* The size in front of an element of a list.
ElementPrefix(field, size) == IF Prefixed(field.of) THEN U32(size) ELSE <<>>

\* What is left of room for an element behind its prefix, and the list with the
\* element, or what was written of it, at its end.
LeftFor(room, acc, prefix) == room - Len(acc.cells) - Len(prefix)
WithElement(acc, prefix, element) ==
  IF element.ok THEN Written(acc.cells \o prefix \o element.cells) ELSE Refused

ListElement(acc, field, e, size, room) ==
  LET prefix == ElementPrefix(field, size) IN
  IF ~acc.ok \/ size = Bad \/ LeftFor(room, acc, prefix) < size THEN Refused
  ELSE WithElement(acc, prefix, SerializeField(ElementField(field), e, LeftFor(room, acc, prefix)))

SerializeList(field, values, room) ==
  FoldLeft(LAMBDA acc, e : ListElement(acc, field, e, PayloadSize(ElementField(field), e), room),
           Written(U32(Len(values))), values)

\* The blob is the header once more than its computed size: the rest stays as
\* malloc left it.
WithField(acc, null, at, written) ==
  IF ~acc.ok \/ (~null /\ ~written.ok) THEN [acc EXCEPT !.ok = FALSE]
  ELSE IF null THEN [acc EXCEPT !.entries = Append(@, Entry(0, 0, 1))]
  ELSE [acc EXCEPT !.entries = Append(@, Entry(at, Len(written.cells), 0)),
                   !.payload = @ \o written.cells]

BlobEnd(schema, body, all) ==
  IF ~all.ok THEN Refused
  ELSE Written(Header(schema, all.entries) \o all.payload \o Filled(Junk, body - Len(all.payload)))

\* body is what the blob has room for behind its header.
BlobOf(schema, v, body) ==
  LET Field(acc, field) ==
        LET value == ObjectGet(v, field.name) IN
        WithField(acc, value.type = "null", HeaderSize(schema) + Len(acc.payload),
                  SerializeField(field, value, body - Len(acc.payload)))
  IN IF body = Bad THEN Refused
     ELSE BlobEnd(schema, body,
                  FoldLeft(Field, [ok |-> TRUE, entries |-> <<>>, payload |-> <<>>], schema))

SerializeBlob(schema, v) == BlobOf(schema, v, BlobSize(schema, v))
=============================================================================
