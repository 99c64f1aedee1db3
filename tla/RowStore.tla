-------------------------------- MODULE RowStore --------------------------------
(***************************************************************************)
(* Documents of one collection as the client sees them: put as JSON text,  *)
(* kept as a blob, with a layout or without, queried by scans over the     *)
(* blobs, on the GPU over a cached column of integers, and carried over a  *)
(* close by the file.                                                      *)
(*                                                                         *)
(* Composed of the registries, which decide the layout a collection has,   *)
(* and of the format of rows.  What goes into values nested to any depth   *)
(* is a parameter; JsonText, Blob and BlobRead define it, and Rows puts    *)
(* them together.  Ids, indexes, transactions and failures of the disk are *)
(* in CollectionStore.                                                     *)
(***************************************************************************)
EXTENDS SchemaRegistry, RowFormat

CONSTANTS
  ParseText(_),              \* apxdb_json_parse: whether it succeeds, and the value
  Valid(_, _),               \* validate_json_object of the fields and a value
  PlainBlob(_, _),           \* serialize_document_blob of the fields and a value
  OtherCellsMeet(_, _, _),   \* blob_field_matches_value, but of a number
  Name,      \* the name of the collection
  SchemaOf,  \* SchemaOf[s]: the fields of the apxdb_schema_t s
  Offered,   \* Offered[k][s]: the texts offered as the k-th put under s
  Paths,     \* Paths[s]: the field paths that queries name
  Queries,   \* the JSON values that queries ask for
  NoFile,    \* the collection has no file
  MinDocs,   \* kGpuQueryMinDocs
  MaxPuts    \* bound: documents put in a behaviour

\* The layouts that collections have, by the schema each was built from.
Built == [s \in CollectionSchemas |-> BuildLayout(FieldsOf[s])]

\* What is put: serialize_document_blob_with_layout, or serialize_document_blob.
BlobUnder(u, schema, v) ==
  IF u = NoLayout THEN PlainBlob(schema, v) ELSE SerializeRow(Built[u], schema, v)

\* The texts offered under schema s that parse and are valid.
Accepted(s) ==
  {text \in UNION {Offered[k][s] : k \in DOMAIN Offered} :
     ParseText(text).ok /\ Valid(SchemaOf[s], ParseText(text).value)}

ASSUME RowStoreAssumption ==
  /\ Name \in Names
  /\ MinDocs \in Nat \ {0}
  /\ MaxPuts \in Nat
  /\ Int32Max \in Nat
  /\ SchemaOf \in [Schemas -> {SchemaOf[s] : s \in Schemas}]
  /\ \A s \in Schemas : Len(SchemaOf[s]) \in Nat /\ DOMAIN SchemaOf[s] = 1..Len(SchemaOf[s])
  /\ \A s \in Schemas : \A path \in Paths[s] : Len(path) \in Nat \ {0}

\* The operands of queries on numbers are numbers, whatever else they are.
ASSUME QueriesAssumption ==
  \A q \in Queries :
    /\ NumericValue(q) \subseteq Int
    /\ q.type = "object" /\ Len(q.members) = 1 => NumericValue(q.members[1].value) \subseteq Int

\* The room a field's payload can be given in a row of layout l.
Rooms(l, schema, v) == 0..RowRoom(l, schema, RowSize(l, schema, v)) \cup {l.size[i] : i \in DOMAIN schema}

\* Of the fields of an accepted document: a null is where one may be, a payload
\* has a size unless it cannot be written, and its writer leaves bytes and keeps
\* within its room.
ASSUME WriterAssumption ==
  \A s \in Schemas : \A text \in Accepted(s) : \A i \in DOMAIN SchemaOf[s] :
    LET v == ParseText(text).value
        field == SchemaOf[s][i]
        value == ObjectGet(v, field.name)
    IN /\ value.type = "null" => field.nullable
       /\ FieldSize(field, value) \in Nat \cup {Bad}
       /\ \A u \in CollectionSchemas :
            Built[u].count = Len(SchemaOf[s]) =>
              \A room \in Rooms(Built[u], SchemaOf[s], v) :
                LET w == WriteField(field, value, room) IN
                w.ok => /\ Len(w.cells) \in 0..room
                        /\ w.cells = [k \in 1..Len(w.cells) |-> w.cells[k]]

VARIABLES
  open,     \* the database is open, with a directory
  gpu,      \* g_gpu_available: the Metal backend is active
  docs,     \* the documents: text, blob, and the layout it was written under
  loaded,   \* the file was read
  columns,  \* gpu_column_caches: per path the integers, as sets of at most one
  file,     \* the file: schema and documents
  puts      \* documents put so far

rowVars == <<open, gpu, docs, loaded, columns, file, puts>>
vars == <<registryVars, rowVars>>

NoColumns == [path \in {} |-> <<>>]

Init ==
  /\ RegistryInit
  /\ open = FALSE
  /\ gpu = FALSE
  /\ docs = <<>>
  /\ loaded = FALSE
  /\ columns = NoColumns
  /\ file = NoFile
  /\ puts = 0

-----------------------------------------------------------------------------
(***************************************************************************)
(* Lifecycle.                                                              *)
(***************************************************************************)
Blanked == docs' = <<>> /\ loaded' = FALSE /\ columns' = NoColumns

\* apxdb_open with init_gpu_backend; found: the GPU is enabled, and there is a
\* Metal device that works.
Open(found) ==
  /\ ~open
  /\ open' = TRUE
  /\ gpu' = found
  /\ UNCHANGED <<registryVars, docs, loaded, columns, file, puts>>

\* apxdb_close: the documents go to the file as they are, blobs and all; a
\* collection that was not read leaves its file alone.
Close ==
  /\ open
  /\ open' = FALSE
  /\ gpu' = FALSE
  /\ file' = IF schemaOf[Name] # NoSchema /\ loaded
             THEN [schema |-> schemaOf[Name], docs |-> docs] ELSE file
  /\ CloseRegistries
  /\ Blanked
  /\ UNCHANGED puts

\* The registry calls of the client.  Registering a schema or a collection does
\* nothing to documents; a collection that goes takes its documents along.
RegistryCall ==
  \/ /\ \/ \E s \in Schemas : SchemaRegister(s) \/ RegisterCollection(s)
        \/ \E s \in CollectionSchemas, built \in BOOLEAN : RegisterSchema(s, built)
        \/ SchemaUnregisterAll
        \/ UnregisterAllSchemas
     /\ UNCHANGED rowVars
  \/ UnregisterCollections /\ Blanked /\ UNCHANGED <<open, gpu, file, puts>>

-----------------------------------------------------------------------------
(***************************************************************************)
(* Document calls.                                                         *)
(***************************************************************************)
\* What a call does through a layout that was freed is not defined; the model
\* follows it no further.
Usable == open /\ schemaOf[Name] # NoSchema /\ layoutOf[Name] # Freed

Fields == SchemaOf[schemaOf[Name]]

\* The layout of the collection: a set, empty when it has none.
Layouts == IF layoutOf[Name] = NoLayout THEN {} ELSE {Built[layoutOf[Name]]}

\* ensure_collection_loaded: the documents after it, as a set that is empty
\* when the load fails.  The signature is that of the apxdb_schema_t.
Loaded ==
  IF loaded \/ file = NoFile THEN {docs}
  ELSE IF file.schema = schemaOf[Name] THEN {file.docs} ELSE {}

\* Slips in ColumnsAfterPut and ColumnsAfterDelete: the columns stay.
ColumnsKept == columns
ColumnsKeptToo == columns

\* invalidate_gpu_column_caches, in append_document and apxdb_delete_document.
ColumnsAfterPut == NoColumns
ColumnsAfterDelete == NoColumns

\* apxdb_put_document that returns an id: the text parses, the document is
\* valid and can be written.  For a member that is missing both writers read a
\* variable that is out of scope: what they find is the null it held, or
\* something they refuse, as the compiler has it.  Here it is the null; a put
\* that is refused changes nothing but what Access does.
Put(text) ==
  /\ Usable
  /\ puts < MaxPuts
  /\ LET v == ParseText(text)
         blob == BlobUnder(layoutOf[Name], Fields, v.value)
     IN /\ v.ok
        /\ Valid(Fields, v.value)
        /\ blob.ok
        /\ \E ds \in Loaded :
             docs' = Append(ds, [text |-> text, blob |-> blob.cells, under |-> layoutOf[Name]])
  /\ loaded' = TRUE
  /\ columns' = ColumnsAfterPut
  /\ puts' = puts + 1
  /\ UNCHANGED <<registryVars, open, gpu, file>>

\* apxdb_delete_document of the k-th document.
Delete(k) ==
  /\ Usable
  /\ \E ds \in Loaded :
       /\ k \in DOMAIN ds
       /\ docs' = [i \in 1..(Len(ds) - 1) |-> IF i < k THEN ds[i] ELSE ds[i + 1]]
  /\ loaded' = TRUE
  /\ columns' = ColumnsAfterDelete
  /\ UNCHANGED <<registryVars, open, gpu, file, puts>>

\* Every call that reads: the documents are loaded first.
Access ==
  /\ Usable
  /\ ~loaded
  /\ docs' \in Loaded
  /\ loaded' = TRUE
  /\ UNCHANGED <<registryVars, open, gpu, columns, file, puts>>

\* apxdb_schema_find_field_path: the field, as a set.
HoldsFields(f) == "embedded" \in {f.type, IF f.type = "list" THEN f.of ELSE ""}
Named(schema, name) == {schema[i] : i \in FieldIndex(schema, name)}
FieldAt(schema, path) ==
  LET walk[k \in 1..Len(path)] ==
        IF k = 1 THEN Named(schema, path[1])
        ELSE UNION {Named(f.sub, path[k]) : f \in {g \in walk[k - 1] : HoldsFields(g)}}
  IN walk[Len(path)]

\* One value of build_gpu_column_cache: through the entries, whatever the layout.
ColumnValue(doc, path) ==
  LET p == PathPayload(Fields, doc.blob, path) IN
  IF ~p.ok \/ p.field.type # "int" \/ Len(p.cells) < 8 THEN {}
  ELSE {n \in {Load(p.cells, 0, "int", 8)} : Int32(n)}

\* scan_docs_for_member goes to the GPU: an integer field, enough documents.
OnGpu(path) ==
  /\ gpu
  /\ Len(docs) >= MinDocs
  /\ \E f \in FieldAt(Fields, path) : f.type = "int"

\* A query on an integer field that comes to the GPU and has no column yet.
BuildColumn(path) ==
  /\ Usable
  /\ loaded
  /\ OnGpu(path)
  /\ path \notin DOMAIN columns
  /\ columns' = [p \in DOMAIN columns \cup {path} |->
       IF p = path THEN [i \in DOMAIN docs |-> ColumnValue(docs[i], path)] ELSE columns[p]]
  /\ UNCHANGED <<registryVars, open, gpu, docs, loaded, file, puts>>

Next ==
  \/ \E found \in BOOLEAN : Open(found)
  \/ Close
  \/ RegistryCall
  \/ \E s \in Schemas \cap {schemaOf[Name]} : \E k \in {puts + 1} \cap DOMAIN Offered :
       \E text \in Offered[k][s] : Put(text)
  \/ \E k \in 1..MaxPuts : Delete(k)
  \/ Access
  \/ \E s \in Schemas \cap {schemaOf[Name]} : \E path \in Paths[s] : BuildColumn(path)

Spec == Init /\ [][Next]_vars
-----------------------------------------------------------------------------
(***************************************************************************)
(* Answers.                                                                *)
(***************************************************************************)
\* blob_field_matches_value
CellsMeet(field, cells, q) ==
  IF field.type \in NumberTypes THEN NumberCellsMeet(field, cells, q)
  ELSE OtherCellsMeet(field, cells, q)

\* The scan over the blobs: the places of the documents that meet the query.
Found(doc, path, q) ==
  LET p == FieldPayload(Layouts, Fields, doc.blob, path)
  IN p.ok /\ CellsMeet(p.field, p.cells, q)

CpuScan(path, q) == {i \in DOMAIN docs : Found(docs[i], path, q)}

\* parse_numeric_query_op
GpuOperator(q) ==
  IF q.type = "object" /\ Len(q.members) = 1
  THEN [op |-> q.members[1].name[1], operand |-> q.members[1].value]
  ELSE [op |-> "eq", operand |-> q]

\* documentCompute: which values of a column meet the operator; those that are
\* not valid meet none.
KernelHits(column, op, threshold) ==
  {i \in DOMAIN column : \E n \in column[i] : Compares(n, op, threshold)}

\* gpu_scan_numeric_docs: the operand is cast to an int32_t.
GpuScan(path, q) ==
  LET o == GpuOperator(q)
  IN UNION {KernelHits(columns[path], o.op, Truncated(y)) : y \in NumericValue(o.operand)}

\* scan_docs_for_member: no hit on the GPU is a null pointer, and the scan goes
\* over the blobs after all.
Scan(path, q) ==
  IF OnGpu(path) /\ path \in DOMAIN columns /\ GpuScan(path, q) # {}
  THEN GpuScan(path, q) ELSE CpuScan(path, q)

-----------------------------------------------------------------------------
(***************************************************************************)
(* Properties.                                                             *)
(***************************************************************************)

\* Every variable has its type.
TypeOK ==
  /\ RegistryTypeOK
  /\ open \in BOOLEAN
  /\ gpu \in BOOLEAN
  /\ loaded \in BOOLEAN
  /\ puts \in 0..MaxPuts
  /\ \A i \in DOMAIN docs : docs[i].under \in CollectionSchemas \cup {NoLayout}
  /\ \A path \in DOMAIN columns : Len(columns[path]) = Len(docs)

\* The documents are in the format the collection reads: a row of its layout,
\* or a blob without one.  The file carries blobs over to a session whose
\* layout may differ, and nothing in it tells.
Readable == Usable /\ \A i \in DOMAIN docs : docs[i].under = layoutOf[Name]

\* A query the GPU compares as the CPU does: the operand is a whole int32_t.
Whole(q) ==
  \A y \in NumericValue(GpuOperator(q).operand) : y % Unit = 0 /\ Int32(y)

\* Every nullable field of the schema has a bit in the row.  Registering a
\* collection does not compare its schema with the layout of its name; a null
\* without a bit of its own is written over what lies behind the bitmap.
BitsFit(l, schema) ==
  \A i \in DOMAIN schema : schema[i].nullable => HasBit(l, schema, i)

\* The GPU changes no answer: a scan that may go over a cached column finds
\* what the scan over the blobs finds, as long as the integers fit the column,
\* whatever was put, deleted and reloaded since the column was built.  The
\* column is read by the entries of the header, and the scan reads by the layout.
GpuAgreesWithCpu ==
  Readable /\ (\A l \in Layouts : BitsFit(l, Fields)) =>
    \A path \in DOMAIN columns, q \in Queries :
      Whole(q) /\ (\A i \in DOMAIN docs : ColumnValue(docs[i], path) # {} \/ ~Found(docs[i], path, q))
        => Scan(path, q) = CpuScan(path, q)
=============================================================================
