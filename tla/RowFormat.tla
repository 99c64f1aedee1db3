------------------------------- MODULE RowFormat -------------------------------
(***************************************************************************)
(* A document as a row (src/src/native/apxdb_collection.c): a header with  *)
(* one entry per field, the fixed part that RowLayout lays out, and the    *)
(* payloads of the variable fields.  How a row is written, and what the    *)
(* two ways of reading find in it: by the entries of the header, and by    *)
(* the layout.                                                             *)
(*                                                                         *)
(* A field of an apxdb_schema_t is a record: name, type, nullable, the     *)
(* element type of a list (of), the schema of an embedded object or of the *)
(* elements of a list (sub), and the enum's strategy, names and values.    *)
(* A blob is a sequence of cells, one per byte.  A cell says which value   *)
(* it is a byte of, so a value is only read back where it was written.     *)
(*                                                                         *)
(* The payload of one field, which may hold objects and lists to any       *)
(* depth, is a parameter here; Blob defines how it is written.             *)
(***************************************************************************)
EXTENDS JsonValue, RowLayout

CONSTANTS
  Int32Max,           \* INT32_MAX; INT32_MIN is -Int32Max - 1
  NumberOf,           \* the numeral strtod and strtoll read in a string, in quarters
  FieldSize(_, _),    \* compute_field_payload_size of a field and a value
  WriteField(_, _, _) \* serialize_field_payload of a field and a value, into so much room

-----------------------------------------------------------------------------
\* Cells.
Bytes(kind, v, w) == [k \in 1..w |-> <<kind, v, k>>]
Filled(cell, w) == [k \in 1..w |-> cell]
Zero == <<"zero">>     \* calloc

Slice(cells, at, w) == SubSeq(cells, at + 1, at + w)

\* The value of kind written at this place: 0 where nothing was written into
\* cleared memory, and no value at all anywhere else.
NoValue == -1000
Load(cells, at, kind, w) ==
  LET read == Slice(cells, at, w) IN
  IF read = Filled(Zero, w) THEN 0
  ELSE IF Len(read) = w /\ read[1][1] = kind /\ read = Bytes(kind, read[1][2], w) THEN read[1][2]
  ELSE NoValue

U32(n) == Bytes("u32", n, 4)
LoadU32(cells, at) == Load(cells, at, "u32", 4)

Overlay(row, at, cells) ==
  [k \in DOMAIN row |-> IF k - at \in DOMAIN cells THEN cells[k - at] ELSE row[k]]

-----------------------------------------------------------------------------
(***************************************************************************)
(* Numbers.  parse_numeric_value gives the number as a set: empty when it  *)
(* fails.                                                                  *)
(***************************************************************************)
NumericValue(v) ==
  CASE v.type = "number" -> {v.num}
    [] v.type = "string" /\ v.text \in DOMAIN NumberOf -> {NumberOf[v.text]}
    [] OTHER -> {}

\* The cast of a double to an integer type: towards zero.
Truncated(n) == IF n >= 0 THEN n - (n % Unit) ELSE -((-n) - ((-n) % Unit))

Int32(n) == n >= -(Int32Max + 1) * Unit /\ n <= Int32Max * Unit

Integers8 == {"int", "datetime", "enum"}
NumberTypes == {"byte", "short", "float", "double"} \cup Integers8

\* scalar_type_size
ScalarSize(type) ==
  CASE type \in {"byte", "bool"} -> 1
    [] type \in {"short", "float"} -> 4
    [] type \in Integers8 \cup {"double"} -> 8
    [] OTHER -> 0

-----------------------------------------------------------------------------
(***************************************************************************)
(* The header: magic, version, number of fields, one entry per field.      *)
(* Bad is a size that cannot be computed.                                  *)
(***************************************************************************)
EntrySize == 12
HeaderSize(schema) == 12 + EntrySize * Len(schema)
Bad == -1

\* What a writer leaves: whether it succeeded, and the cells it wrote.
Refused == [ok |-> FALSE, cells |-> <<>>]
Written(cells) == [ok |-> TRUE, cells |-> cells]

Entry(offset, size, null) == U32(offset) \o U32(size) \o Bytes("u8", null, 1) \o Filled(Zero, 3)
Joined(entries) ==
  [k \in 1..(EntrySize * Len(entries)) |->
     entries[((k - 1) \div EntrySize) + 1][((k - 1) % EntrySize) + 1]]
Header(schema, entries) ==
  Bytes("magic", 0, 4) \o U32(1) \o U32(Len(schema)) \o Joined(entries)

-----------------------------------------------------------------------------
(***************************************************************************)
(* Writing: header, the fixed part of the row in cleared memory, the       *)
(* payloads of the variable fields.                                        *)
(***************************************************************************)
\* The bit of field i: the number of nullable fields before it.
NullBit(schema, i) == Cardinality({j \in 1..(i - 1) : schema[j].nullable})

BitsOf(cell) == IF cell[1] = "bits" THEN cell[2] ELSE {}
WithBit(row, b) == [row EXCEPT ![b \div 8 + 1] = <<"bits", BitsOf(@) \cup {b % 8}, 1>>]

\* Slip in RowBase: the header is not counted.
RowBaseBare(l, schema) == l.rowFixed

\* compute_document_blob_size_with_layout: what every row of the layout takes,
\* and with it the payloads of the variable fields.
RowBase(l, schema) == HeaderSize(schema) + l.rowFixed

SizeWith(total, variable, field, value) ==
  IF total = Bad \/ ~variable \/ value.type = "null" THEN total
  ELSE IF FieldSize(field, value) = Bad THEN Bad ELSE total + FieldSize(field, value)

RowSize(l, schema, v) ==
  LET upTo[i \in 0..Len(schema)] ==
        IF i = 0 THEN RowBase(l, schema)
        ELSE SizeWith(upTo[i - 1], l.variable[i], schema[i], ObjectGet(v, schema[i].name))
  IN upTo[Len(schema)]

\* Slip in Slot: the place is counted from the blob.
SlotFromBlob(at, cells, header) == U32(at) \o U32(Len(cells))

\* The two numbers in the slot of a variable field: the place of its payload,
\* counted from the row, and its size.
Slot(at, cells, header) == U32(at - header) \o U32(Len(cells))

\* What the loop over the fields has after some of them.
Partial(entries, payload, row) == [ok |-> TRUE, entries |-> entries, payload |-> payload, row |-> row]

\* serialize_document_blob_with_layout: one field, given what its writer left,
\* the whole, and the end.  room is what the row has for variable payloads.
WithNull(acc, schema, i) ==
  Partial(Append(acc.entries, Entry(0, 0, 1)), acc.payload,
          IF schema[i].nullable THEN WithBit(acc.row, NullBit(schema, i)) ELSE acc.row)

WithVariable(acc, l, schema, i, cells) ==
  LET at == HeaderSize(schema) + l.rowFixed + Len(acc.payload) IN
  Partial(Append(acc.entries, Entry(at, Len(cells), 0)), acc.payload \o cells,
          Overlay(acc.row, l.offset[i], Slot(at, cells, HeaderSize(schema))))

WithFixed(acc, l, schema, i, cells) ==
  Partial(Append(acc.entries, Entry(HeaderSize(schema) + l.offset[i], Len(cells), 0)), acc.payload,
          Overlay(acc.row, l.offset[i], cells))

WithRowField(acc, l, schema, i, null, written) ==
  IF null THEN WithNull(acc, schema, i)
  ELSE IF ~written.ok \/ (~l.variable[i] /\ Len(written.cells) # l.size[i]) THEN Refused
  ELSE IF l.variable[i] THEN WithVariable(acc, l, schema, i, written.cells)
  ELSE WithFixed(acc, l, schema, i, written.cells)

\* The row before field 1, and after each field.
Cleared(l) == Partial(<<>>, <<>>, Filled(Zero, l.rowFixed))

RowField(acc, l, schema, v, room, i) ==
  LET value == ObjectGet(v, schema[i].name)
      left == IF l.variable[i] THEN room - Len(acc.payload) ELSE l.size[i]
  IN IF ~acc.ok THEN acc
     ELSE WithRowField(acc, l, schema, i, value.type = "null", WriteField(schema[i], value, left))

RowAfter(l, schema, v, room) ==
  LET after[i \in 0..Len(schema)] ==
        IF i = 0 THEN Cleared(l) ELSE RowField(after[i - 1], l, schema, v, room, i)
  IN after

RowEnd(schema, room, all) ==
  IF ~all.ok THEN Refused
  ELSE Written(Header(schema, all.entries) \o all.row \o all.payload
               \o Filled(Zero, room - Len(all.payload)))

RowRoom(l, schema, size) == size - HeaderSize(schema) - l.rowFixed
RowOf(l, schema, v, size) ==
  IF l.count # Len(schema) \/ size = Bad THEN Refused
  ELSE RowEnd(schema, RowRoom(l, schema, size),
              RowAfter(l, schema, v, RowRoom(l, schema, size))[Len(schema)])

SerializeRow(l, schema, v) == RowOf(l, schema, v, RowSize(l, schema, v))

-----------------------------------------------------------------------------
(***************************************************************************)
(* Reading by the entries of the header.                                   *)
(***************************************************************************)
NoPayload == [ok |-> FALSE]
Payload(field, cells) == [ok |-> TRUE, field |-> field, cells |-> cells]

\* get_schema_field_index, as a set
FieldIndex(schema, name) == {i \in DOMAIN schema : schema[i].name = name}
FirstIn(S) == CHOOSE i \in S : \A j \in S : i <= j

\* get_blob_field_entry and the payload it points to.
EntryPayload(schema, blob, i) ==
  LET at == 12 + EntrySize * (i - 1) IN
  IF i > LoadU32(blob, 8) \/ Load(blob, at + 8, "u8", 1) # 0 THEN NoPayload
  ELSE Payload(schema[i], Slice(blob, LoadU32(blob, at), LoadU32(blob, at + 4)))

NamedPayload(schema, blob, name) ==
  IF FieldIndex(schema, name) = {} THEN NoPayload
  ELSE EntryPayload(schema, blob, FirstIn(FieldIndex(schema, name)))

\* The blob inside the payload of an embedded object.
HoldsBlob(cells) == Len(cells) >= 4 /\ Len(cells) >= 4 + LoadU32(cells, 0)
NestedBlob(cells) == Slice(cells, 4, LoadU32(cells, 0))

\* The payload of the next name on a path, in the object of the last one.
Further(p, name) ==
  IF p.ok /\ p.field.type = "embedded" /\ HoldsBlob(p.cells)
  THEN NamedPayload(p.field.sub, NestedBlob(p.cells), name) ELSE NoPayload

\* get_blob_field_payload: path is the sequence of the names between the dots.
PathPayload(schema, blob, path) ==
  LET walk[k \in 1..Len(path)] ==
        IF k = 1 THEN NamedPayload(schema, blob, path[1]) ELSE Further(walk[k - 1], path[k])
  IN walk[Len(path)]

-----------------------------------------------------------------------------
(***************************************************************************)
(* Reading by the layout.                                                  *)
(***************************************************************************)
RowHeld(l, schema, blob) == Len(blob) >= HeaderSize(schema) + l.rowFixed

\* The bitmap of the layout has a bit for field i of the schema.
HasBit(l, schema, i) == NullBit(schema, i) \div 8 < l.bitmap

\* is_blob_field_null_with_layout
RowNull(l, schema, blob, i) ==
  LET b == NullBit(schema, i) IN
  /\ schema[i].nullable
  /\ RowHeld(l, schema, blob)
  /\ HasBit(l, schema, i)
  /\ b % 8 \in BitsOf(blob[HeaderSize(schema) + b \div 8 + 1])

\* get_blob_payload_for_field_with_layout
RowCells(l, schema, blob, i) ==
  LET header == HeaderSize(schema)
      place == LoadU32(blob, header + l.offset[i])
      size == LoadU32(blob, header + l.offset[i] + 4)
  IN IF ~RowHeld(l, schema, blob) \/ l.offset[i] + l.size[i] > l.rowFixed THEN NoPayload
     ELSE IF ~l.variable[i] THEN Payload(schema[i], Slice(blob, header + l.offset[i], l.size[i]))
     ELSE IF size = 0 \/ place + size > Len(blob) - header THEN NoPayload
     ELSE Payload(schema[i], Slice(blob, header + place, size))

\* get_blob_field_payload_with_layout: no path, nothing for a null, and nothing
\* for a nullable field that has no bit.
RowPayload(l, schema, blob, path) ==
  LET places == FieldIndex(schema, path[1])
      i == FirstIn(places)
  IN IF \/ Len(path) > 1
        \/ places = {}
        \/ i > l.count
        \/ schema[i].nullable /\ ~HasBit(l, schema, i)
        \/ RowNull(l, schema, blob, i)
     THEN NoPayload ELSE RowCells(l, schema, blob, i)

\* get_collection_blob_field_payload: ls holds the layout, if there is one.
FieldPayload(ls, schema, blob, path) ==
  IF \E l \in ls : RowPayload(l, schema, blob, path).ok
  THEN RowPayload(CHOOSE l \in ls : TRUE, schema, blob, path)
  ELSE PathPayload(schema, blob, path)

-----------------------------------------------------------------------------
(***************************************************************************)
(* Queries on a number.  A query is a JSON value; an object with one       *)
(* member is an operator and its operand.                                  *)
(***************************************************************************)
Compares(x, op, y) ==
  CASE op = "gt" -> x > y
    [] op = "gte" -> x >= y
    [] op = "lt" -> x < y
    [] op = "lte" -> x <= y
    [] op = "eq" -> x = y
    [] OTHER -> FALSE

\* Whether number n meets query q: the operator form, or equality.
NumberMeets(n, q) ==
  IF q.type = "object"
  THEN Len(q.members) = 1
       /\ \E y \in NumericValue(q.members[1].value) : Compares(n, q.members[1].name[1], y)
  ELSE n \in NumericValue(q)

\* blob_field_matches_value, of a number
NumberCellsMeet(field, cells, q) ==
  /\ Len(cells) >= ScalarSize(field.type)
  /\ NumberMeets(Load(cells, 0, field.type, ScalarSize(field.type)), q)
=============================================================================
