# ApxDB: models, checks and proofs

ApxDB is a small document store for Flutter: a C library (`src/src/native`)
under a Dart FFI wrapper (`src/lib/src/apxdb_ffi.dart`). This directory holds
TLA+ models of it, the TLC runs that check them on small instances, and TLAPS
proofs for all instances. `PROJECT.json` maps every definition to the lines it
stands for.

## 1. Inventory

| Component | State | Operations | Modelled in |
|---|---|---|---|
| Native lifecycle (`apxdb.c`) | `g_state`, `g_storage_directory` | `apxdb_initialize`, `apxdb_open`, `apxdb_close`, `apxdb_shutdown` | `NativeLifecycle` |
| Document store of the Dart API (`apxdb.c`) | `g_documents`, `g_document_counter` | create (JSON, bytes), get, find | `DartClient` |
| Dart wrapper (`apxdb_ffi.dart`) | `_isOpen`, one per isolate | `open`, `close`, document calls | `DartClient` |
| Collection engine (`apxdb_collection.c`) | registry, documents, indexes, dirty and loaded flags, id counter, write transaction | register, add index, transactions, put, delete, get, find, count | `CollectionStore` |
| Collection files (`apxdb_collection.c`) | `<dir>/<name>.apxdb`, `<name>.idx` | save, load, save all, load all | `CollectionStore` |
| Query engine (`apxdb_collection.c`) | index entries with text and numeric keys | plans, index lookups, ranges, scans, `$and`, `$or` | `Query`, `QueryObjects` |
| CSV importer (`apxdb_import_csv.c`) | its own control flow | infer a schema, open, register, put rows, commit, close | `CsvImport` |
| Threads in the engine (`apxdb_collection.c`) | the atomic id counter, the pointer to the active transaction | take an id, raise the counter, begin, commit, roll back, free, unregister all | `EngineThreads` |
| Schema registry and layouts (`apxdb_schema.c`) | two registries of schemas, one of layouts, the layout pointer of each collection | register, find, build a layout, unregister | `SchemaRegistry`, `RowLayout` |
| Blob serialisation (`apxdb_collection.c`) | none: bytes of a document | validate, size, write, find a field, match, JSON text from a blob | `RowFormat`, `Blob`, `BlobRead` |
| JSON parser (`apxdb_json.c`) | none | parse a text | `JsonValue`, `JsonText` |
| GPU scan (`apxdb_collection.c`, `apxdb.c`, `shaders/metal`) | cached columns of integers, whether a backend is there | build a column, scan it, invalidate | `RowStore` (Metal) |
| Legacy `apxdb.cpp`, benchmarks, tests, platform stubs | | | no (section 7) |

How they interact. The Dart wrapper calls the native document store under
`g_mutex`. The collection engine is a second store in the same library, used
from C; it shares with the first only the storage directory, which `open` sets
and `close` clears. `close` saves every dirty collection to the directory and
drops the whole engine state. Collections are loaded lazily: the first document
call after an open reads `<dir>/<name>.apxdb`. A save writes a temporary file
and renames it over the data file, then does the same for the index file.

What is hard. Three flags (`dirty`, `loaded`, the directory) decide which file
is read or written when; every one of them can be set by a call that then
fails. Two files are replaced one after the other. Errors are dropped in
several places (`fclose`, `save_all` in `close`, the write of a rebuilt index).
Failed calls leave things behind: a partial load keeps documents, a failed put
has already taken an id and touched indexes. Index answers must equal scan
answers although keys are kept both as text and as numbers. The size of a
blob is computed by one recursion, its bytes are written by a second, and four
readers walk it, each by arithmetic of its own, with a layout and without. Layouts
are freed by one call while collections point to them. The engine takes no lock,
yet isolates are threads of one process. Each isolate has an
opinion of its own on whether the library is open. `PROJECT.json` lists the
hazards with their lines.

What makes the components correct:

* lifecycle and wrapper: at most one isolate owns the database, it is open
  while one does, a close completes;
* engine: ids are fresh; indexes name exactly the documents that have a key; a
  collection that was not read is not written; what close passes over needs no
  saving; everything together behaves like a plain store (`SessionStore`);
* files: a file is replaced only by one of the same schema;
* query engine: with an index a query finds what a scan finds;
* registries: a layout is there exactly for the schemas that are, its rows have
  room for every field, and no collection keeps a layout that close freed;
* blobs: what is valid can be stored, what was stored reads back as it was put,
  and a scan, on the CPU or on the GPU, finds what a reader would;
* threads: ids are distinct and above those of the files, the pointer to the
  active transaction dangles only where `free_collections` has freed the block and not
  yet written `NULL`, who began a transaction can end it;
* importer: a file only grows at its end, whatever fails.

## 2. Modules

| Module | What it is |
|---|---|
| `NativeLifecycle` | The ways the four lifecycle calls change `g_state` and the directory; used by both clients below. |
| `CollectionStore` | The engine and its files, one action per API call, plus the end of the process. |
| `SessionStore` | The abstract store the engine implements: open, put, delete, save, discard, leave. |
| `StoreRefinement` | The mapping: the live documents are those in memory once loaded, those of the file before. |
| `EngineThreads` | The id counter and the active transaction, one shared access at a time. |
| `RowLayout` | The layout of a row: bitmap, offsets, slots. |
| `SchemaRegistry` | The registries of schemas and layouts, and the collections that take a layout from them. |
| `JsonValue` | JSON values, and the lookup of a member. |
| `RowFormat` | A document as a row: header, bitmap, slots, payloads; reading by the entries and by the layout. The payload of one field is a parameter. |
| `RowStore` | One collection with its registries, documents as blobs, file and GPU columns, over `SchemaRegistry` and `RowFormat`; parser, validation and what nests are parameters. |
| `JsonText` | The parser, the escapes. |
| `Blob`, `BlobRead` | What nests: validation, sizes and writing of payloads; matching, text. |
| `Rows` | `RowStore` with `JsonText`, `Blob` and `BlobRead` for its parameters, and what documents mean. |
| `CollectionStore_proofs` | Types, ids and indexes of `CollectionStore`. |
| `StoreDurability_proofs` | What `CollectionStore` keeps in its files, and that it implements `SessionStore`. |
| `RowStore_proofs` | Layouts, registries, rows and the store of rows (`RowLayout`, `SchemaRegistry`, `RowFormat`, `RowStore`). |
| `Query_proofs` | Indexes, lookups and query objects (`Query`, `QueryObjects`). |
| `EngineThreads_proofs`, `DartClient_proofs`, `CsvImport_proofs` | Theorems about the module each is named after. |
| `Iteration_proofs` | Induction over the naturals, and what a loop computes: lemmas for the others. |
| `Query` | Index entries, and the documents a condition on one field finds with an index and without. |
| `QueryObjects` | Query objects with `$and` and `$or` over `Query`. |
| `CsvImport` | The importer as a client of `CollectionStore`, with kills at every point. |
| `DartClient` | The wrapper in several isolates over one native library. |
| `MCStore`, `MCQuery`, `MCImport`, `MCDart`, `MCRows`, `MCThreads` | Instances for TLC: symmetry sets, value tables and query sets. |

Definitions whose comment begins with "Slip in X" are not part of a model. Each
is X with a plausible mistake; with it in X's place the property listed with it
under "mutants" in `PROJECT.json` fails, which shows that the property watches
that code.

### NativeLifecycle

Every call holds `g_mutex` from its first test to its last assignment, so it is
one step. `OPENING` is visible to nobody and `CLOSING` is never assigned.
`apxdb_open` fails in two ways: no directory (`FAILED`, nothing cleaned up) and
no memory (`FAILED` after `cleanup_partial_open`). Only `apxdb_close` and
`apxdb_shutdown` leave `FAILED`.

### CollectionStore

The state is `g_collections` (order of registration), `coll` (the
`apxdb_collection_t` of each name), the id counter, whether a write transaction
is active, the two kinds of files per directory, and `heap`, which becomes
"damaged" on a double free: from there on nothing is defined and only the end
of the process follows.

* A document is its number and, per field, the set of its index keys: none for
  null, one for a plain value, several for a list under an element index.
* What a load can lead to is a set of outcomes (`LoadOutcomes`): success with
  the index file taken or the index rebuilt, a schema that differs, a stop
  after n documents (which stay in memory), a rebuild that gives up on a
  document, a double free. `EnsureOutcomes` puts the early returns of
  `ensure_collection_loaded` before it. Every document call begins with it.
* `SaveEnds` are the ways a save ends; `DataSaved`, `IndexSaved` say what the
  two files are then, `SaveFails` what the caller sees.
* `Crash` ends the process, between two calls or inside the saves of a close:
  renamed files survive, the last one perhaps without its index file.

Faults are constants: `noData` (nothing replaced), `noIndex` (index file not
replaced), `torn` (the result of `fclose` is dropped, a short file replaces the
good one), `read` (reading or allocating fails in a load), `key` (an index key
cannot be built). Two Boolean constants describe the client. `EarlyUse`: it
uses collections before `apxdb_open`, which marks them loaded. `Transfers`: it
saves to, or loads from, other directories than the open one. The engine has no
guard against either, and with them some properties do not hold: a collection
used early is not read after open and its file is replaced at the next save; an
export clears the dirty flag, so that close passes over the collection. The
runs that check durability keep both FALSE and so state for which client they
hold; the safety proofs hold for all four clients.

### CsvImport

The steps of `import_csv_to_apxdb`, each a call of the engine: open, register
`testdb`, begin, one put per row, commit or rollback, close. A rollback undoes
nothing, so a failed import saves the rows it put. The process can die at any
step. Imports follow one another, from files of different schemas.

### DartClient

`ApxDB.open` and `ApxDB.close` are three steps each: the test of `_isOpen`, the
native call, the assignment. Document calls do not look at `_isOpen`. A hot
restart resets an isolate's statics and leaves the library alone.

### Query and QueryObjects

`Query` refines the picture `CollectionStore` has of an index (a key has a set
of ids) to what the code keeps: an array of entries, each with the text of its
key, perhaps a number, and a list of ids. A put goes through the keys of a
field and for each looks for an entry first by number, then by text; a delete
takes the id out of every entry and leaves empty entries behind; a load builds
the entries again. A put that cannot be indexed has touched some of the indexes
(`PutNotIndexed`). An element index does not assign whether its new entries
have a number (`Junk`: any value).

A condition is answered by one of four plans (`Plan`): exact by number, exact by
text, range, scan. `Matches` is what a scan accepts; `IndexAgreesWithScan`
compares every plan with it. The two do not mean the same everywhere, and
`MeansTheSame` says where not:

* a string that reads as a number (`"7"`, `"inf"`) is looked up by number, and
  an index of strings has no numbers: found without the index, not with it;
* a range over a string field finds documents through a value index, whose
  texts are read as numbers, and nothing in a scan;
* a string condition on a Boolean field matches the key `"true"` in an index
  and nothing in a scan;
* a condition with a number on an element index compares with unassigned memory.

Loops over documents, keys and entries are recursive functions over their rounds,
which is the form the proofs can reason about.

In `QueryObjects` a query object is the sequence of its members, and `Objects[n]` are
the objects that are asked, nested at most `n` deep; `FindByQuery` gives the results of
one level from those of the level below, as the code does by calling itself. A
search returns ids or the null pointer, which stands for an
error, for a range that found nothing and for a query object without members.
`OrChild` passes over it, `AndChild` gives up on it; `QueriesMeanWhatTheySay`
shows that the answers are right all the same. Empty objects and an empty `$and`
find nothing, whatever is in the collection. They are asked in the run, but the
property is about the other objects (`Plain`), as no document says what they
mean. A
text that does not parse is not a query object either:
`apxdb_find_documents` then returns every document and `apxdb_count_documents`
-1.

### EngineThreads

`CollectionStore` is the engine as one thread sees it. `EngineThreads` is about
the two globals every writer meets, with one shared access per step:

* the counter, which is atomic: `build_document_id` adds to it and takes what it
  gets; `update_document_counter_from_id` loads it, and as long as it is below
  the id of the file exchanges it. It is an `int32_t` here and goes round.
  (It is declared `atomic_int_fast32_t` and exchanged with an `int32_t`, which
  compiles only where the two are as wide, as on macOS and iOS.)
* the pointer, which is not: `apxdb_put_document` and `apxdb_begin_write_txn` read it
  and then the flag behind it; a begin that goes on allocates a block, and installs
  it in a step of its own. Commit and rollback read the flag, read the pointer,
  clear the flag, clear the pointer; `apxdb_free_transaction` reads the pointer,
  clears it if it is its own, and frees the block; `free_collections` reads the
  pointer, frees what it found, and only then clears the pointer. `malloc` may
  return an address that was freed, or nothing, and the flag of a freed block may
  read either way. (`apxdb_delete_document` reads like a put and takes no id.)

Between any two of these steps the other threads go on. `pc[t]` says which access
comes next: `put` and `test` are before the flag is read, `publish` before a begin
installs, `own`, `end` and `clear` inside a commit, `unpoint` and `free` inside a free,
`release`, `unset` and `reset` inside `apxdb_collection_unregister_all`.

The code reads the pointer twice in one condition (2024, 1844, 4401 and 4402); the
model reads it once, which is what an optimizing compiler makes of a variable that is
not atomic, and the flag later. History variables say when guarantees end:
`wrapped`, and the reset by `apxdb_collection_unregister_all` (both start `ids` anew
in effect), `stale` (the pointer was written since a thread read it), `raced` (a
thread wrote it on a stale view), `stranded` (`free_collections` freed the block
behind a handle) and `misused`: a call went on with its block freed under it (a
commit that writes the flag, a begin that installs), or a block was freed a second
time (by its holder, or by an unregister that found it freed). After that nothing
is defined: the calls that use the pointer stop, and the process ends
(`ProcessEnds`). A client starts no call with a stranded handle, but the block may go
while a call is under way, at any step of it.

So the properties of the pointer are as strong as the code allows. Between
`free(g_active_transaction)` (`apxdb_collection.c:4402`) and the `NULL` in the next line
the pointer leads to a freed block, and a begin or a put that reads it there looks
into freed memory on a value that is current: `InWindow(b)` names that window, and
`DanglesInWindow` and `ReadsInWindow` say that there is no other, except for reads
that are stale. `EndsOfItsOwn` says when a transaction can be ended by its holder:
without a lock, two begins that overlap both succeed and the first transaction can never
be ended, and a free that overlaps a begin takes back the transaction of the other.

### RowLayout and SchemaRegistry

A layout (`apxdb_build_collection_layout`) is a bitmap of one bit per nullable
field, then the fields in order, 8 bytes for the slot of a variable field. The two
registries of collection schemas and layouts are filled together
(`apxdb_register_schema` takes the schema back when the layout cannot be
allocated); ids and names are unique in both. A collection looks its layout up by
name once, when it is registered. `apxdb_unregister_all_schemas` frees layouts that
collections may point to (`Freed`); close frees the collections first.

### JsonValue, RowFormat, JsonText, Blob, BlobRead

Pure operators. A text is a sequence of tokens, a numeral or keyword one token, the
characters of strings one each, so that escapes are modelled by what they do. A
blob is a sequence of cells, one per byte, and a cell knows of which value it is
which byte: a value that is written in one place and looked for in another is not
found by luck.

What the code does with the fields of one document is a loop, and what it does with
objects and lists inside them is recursion. `RowFormat` has the loops, as recursive
functions over the fields: the row with a layout (`SerializeRow`), the payload of a
path by the entries of the header (`PathPayload`) and by the layout (`RowPayload`),
and which one a reader takes (`FieldPayload`). The size and the bytes of one payload
(`FieldSize`, `WriteField`) are parameters there. `Blob` has the recursions of the
writer, validation, size and bytes, each with its own arithmetic and refusals, and
the blob without a layout (`SerializeBlob`). `BlobRead` matches query values, also
inside lists and embedded objects, and makes the JSON text from a row.

For a member that is missing, both writers keep a pointer to a local variable after
its block ended (`apxdb_collection.c` 251, 308, 699). Compiled with gcc, it still
holds the null at `-O0` (the build command of the README has no `-O`), and from
`-O1` on the put is refused. The model has both: a null that is stored, and a put
that changes nothing.

### RowStore and Rows

One collection, with layouts and without, as its client sees it: texts
are put, kept as blobs, read back, scanned, deleted, written to the file by close
and loaded by a later session, while the client registers and unregisters schemas,
layouts and collections in any order. Each step is a step of `SchemaRegistry` or
leaves its variables alone (`RegistriesImplemented`, section 5). `gpu` is decided
at open; `columns` are the cached columns of integers. A scan over an integer field
goes to the column when there are enough documents, and over the blobs when the GPU
finds nothing. Ids, indexes, transactions and disk failures are in
`CollectionStore`.

`RowStore` leaves open what goes into nested values: `ParseText`, `Valid`,
`PlainBlob`, `OtherCellsMeet`, and the two parameters of `RowFormat`. `Rows.cfg`
gives them the definitions of `JsonText`, `Blob` and `BlobRead`, so TLC runs all of
it together; `Rows` adds no action. `WriterAssumption` is what `RowStore` asks of
them: a null is only where one may be, a size is a natural number, and a writer
stays within its room. TLC evaluates it for every text, field, layout and room of
the run.

The properties compare with `Meant`, the value of each field as its type holds it,
computed from the text alone. Where the code does not keep them, the restriction is
named in the property: `Readable` (documents were written under the layout they
are read with), `WritesLists`, `Scannable`, `CanWrite`; section 6 says what happens
there.

## 3. Runs

| Run | States | What it shows |
|---|---|---|
| `StoreSession` | 13 030 | Two collections, one directory, failing saves, crashes; a client that stays in its directory. `CleanAgreesWithFile`: what close passes over needs no saving. `CloseIsDurable`: with no write error, close keeps everything. `ImplementsSessionStore`: the refinement. `NoDoubleFree`. |
| `StoreFaults` | 60 552 | One collection with an index, two schemas, all five faults together. `IndexSound`, `IndexStaysComplete`: no wrong and no lost index answer. `IdsFresh`. `SchemaKept`: a file is replaced only under its own schema. |
| `StoreTransfers` | 179 948 | Two directories, files cut short, a client that works before open and copies files between directories: `IdsFresh`, `DirtyOnlyIfLoaded`. |
| `StoreIndexFile` | violation | `IndexFileUsed`: the loader never takes an index file (section 6). |
| `QueryScalars` | 1 481 | A number with a value index (0 and -0 among its values) and a Boolean with a hash index: `IndexAgreesWithScan`, `OneEntryPerKey`; about a thousand query objects: `QueriesMeanWhatTheySay`. |
| `QueryTexts` | 55 163 | A string with a value index, a list of strings with an element index, unassigned numbers: `IndexAgreesWithScan`. |
| `ImportRows` | 1 832 | Imports one after another, two schemas, failing loads and index keys, kills: `ImportAppends`, `ReportedRowsAreSaved`, `FailedImportKeepsRows`. |
| `ImportReport` | violation | `ReportedRowsAreSaved` with a save that fails (section 6). |
| `DartIsolates` | 31 275 | Two isolates, opens, closes, documents, hot restarts: `OneOwner`, `CreatedIsKept`, `FailedUntilRestart`, `CloseCompletes`. |
| `Rows` | 102 008 | Three schemas, layouts, JSON texts with escapes, nulls, missing, doubled and unknown members, close and reopen: `ReadsBack`, `ScanFinds`, `GpuAgreesWithCpu`, `ValidIsStored`; the registries: `RegistriesAgree`, `LayoutsFit`, `LayoutsOutliveCollections`. |
| `EngineThreads` | 688 233 | Two threads: `IdsDistinct`, `RaisesHold`, `RaiseEnds` of the counter; `DanglesInWindow`, `HandlesLive`, `EndsOfItsOwn`, `ReadsInWindow` of the transaction. |
| `DartFind` | violation | `FindsCreated` (section 6). |

Bounds. `MaxId`, the number of documents a process hands out, is 2 or 3 in the
store: an id clash needs two documents, a load that stops in the middle needs a
file of two, the loss of order needs three. Two collections are needed where
one call goes over all (`SaveAll`, `LoadAll`, `Close`), and for nothing else:
collections share only the counter, the transaction and the registry. Two keys
of one field are enough, since an entry is treated without regard to the others.
Two directories are needed for transfers only. In the importer, `MaxId` 4 gives
two imports of two rows each. `MaxDocs` is 3 in the query runs: one document
under each of three texts, or an entry that is emptied by a delete and used
again. `0`, `-0` and `7` are two texts of one number and another number; a fourth
text is no number. Two isolates are enough for one to act between the test and
the native call of the other. In `Rows` two documents are put: a column that is
stale differs from the documents after a second put or a delete. `MinDocs` is 1,
`ByteMax` 3 and `Int32Max` 5 in place of 128, 255 and 2^31-1; numbers are counted in
quarters, so that fractions are there to truncate, and a float keeps halves. The
plain schema has ten fields, nine of them nullable, so its bitmap has two bytes. In
`EngineThreads` `Int32Max` 3 and two ids let the counter wrap after a raise to 3; two
blocks let an address be freed by one thread and given to the other; one reset is
enough to strand a handle in the middle of any call and to free a block its holder
frees too. That two threads inside `free_collections` find the same transaction takes
two resets: TLC was run with `MaxResets` 2 as well (1 389 236 states, no error), and
the theorems of section 5 hold for any number. No run leaves deadlock unchecked: process end and
restart can always happen, and a query client can always reopen.

Symmetry is declared for collections, keys and directories in `MCStore`, and
for keys and schemas in `MCImport`; no definition tells their members apart,
and no liveness is checked there. `DartIsolates` and `EngineThreads` have a
liveness property and declare none.

Each property has a mutant in `PROJECT.json`: a definition of the model replaced
by its slip, with which TLC finds the property violated in the same run.

## 4. Fairness

Safety runs use none. `FairSpec` of `DartClient` has weak fairness of `GoesOn(i)`
for each isolate: a call of `open` or `close`, once begun, goes through its native
call to its assignment. The calls are synchronous Dart code and native code
under a mutex that each holder releases without waiting for anything else, so
an isolate that began one runs it to the end. Nothing is assumed about the start
of calls, about document calls or about restarts; a hot restart also ends a call.
`CloseCompletes` rests on this and on `OneOwner`: were the database closed
under an isolate, its close would return an error and leave `_isOpen` set.

`FairSpec` of `EngineThreads` has weak fairness of `Exchange(t)`: a thread inside
the loop of `update_document_counter_from_id` is scheduled, and
`atomic_compare_exchange_weak` does not fail for no reason for ever (one spurious
failure is a stuttering step). Nothing else is assumed. That the loop ends
(`RaiseEnds`) is then up to the code: a failed exchange rereads the counter, and
others can change it only finitely often within the bounds before the process ends,
and the loop with it.

## 5. Proofs

All theorems are about all values of the constants that meet the assumptions of
their modules.

### The engine: types, ids, indexes

`CollectionStore_proofs` proves, for all sets of collections, directories,
fields, keys and schemas, all sets of faults, all bounds and all four client
profiles:

| Theorem | Statement |
|---|---|
| `TypeCorrect` | `Spec => []TypeOK` |
| `FreshIds` | `Spec => []IdsFresh`: the next id is none the collection holds |
| `SoundIndexes` | `Spec => []IndexSound`: an index entry names a document that has the key |
| `UnreadStaysClean` | `Spec => []DirtyOnlyIfLoaded`: what was not read is not written |
| `Inductive` | `Spec => []IInv` |

They use `StoreAssumption` (`NoSchema` is no schema, the profile constants are
Booleans, the faults among the five kinds, `MaxId` a natural) and
`NoDirAssumption`.

The inductive invariant `IInv` adds to `TypeOK`, for each collection, `Good`:
`Numbered` (no id exceeds the counter), `Distinct` (no two documents share an
id), `Sound`, and dirty only if loaded. `IndexSound` alone is not inductive: a
delete takes one document out of the array and the id out of every entry, and
without `Distinct` another document of that id would stay behind with its keys
gone, or a put could give an old id new keys. `Distinct` in turn needs `Numbered`
for puts, and for loads that `append_document` refuses an id that is there
(`NoClash`); about what files hold nothing is needed, since the load
checks the ids it appends itself. `HeaderRejected` proves that the loader takes no
index file; without it soundness would depend on files of earlier processes.

The argument goes in two layers. Lemmas about one collection and a counter
(`LoadGood`, `EnsureGood`, `PutGood`, `PutNotIndexedGood`, `DeleteGood`,
`GivenUpGood`) show that each helper keeps `Good`. Lemmas about actions
(`PutsKeep`, `DeleteKeeps`, `LoadAllKeeps`, `LifecycleKeeps`, and so on) put them
into the state with `CollectionChanged` and `AllChanged`. `NextIInv` goes through
the actions; each theorem follows by `PTL`.

### The engine: files

`StoreDurability_proofs` is about the client. `~Transfers`: it stays with the files
of the open directory; `Careful`: it also opens first (`~EarlyUse`); `Durable`: no
file is cut short unnoticed either (`"torn" \notin Faults`); `Calm`: `~Transfers`, and
nothing fails but writes that leave the old file. Each is needed: the runs have
counterexamples without it.

| Theorem | Statement |
|---|---|
| `IndexesStayComplete` | `~Transfers => (Spec => IndexStaysComplete)` |
| `FilesKeepSchema` | `Careful => (Spec => SchemaKept)` |
| `CleanIsSaved` | `Durable => (Spec => []CleanAgreesWithFile)` |
| `CloseSaves` | `Durable => (Spec => CloseIsDurable)` |
| `NothingFreedTwice` | `Calm => (Spec => []NoDoubleFree)` |
| `StaysKept` | `~Transfers => (Spec => []SInv)` |
| `EngineImplementsStore` | `Durable => (Spec => ImplementsSessionStore)` |

`SInv` adds to `IInv` how each collection fits its file (`Fit`): one that is not
loaded holds the beginning of its file, left by a load that stopped; one that is
loaded has the schema of its file and, when clean, its contents; none is loaded while
no directory is open. The beginning matters for `IndexesStayComplete` and the
refinement: a second load after a stop either meets its own first document and
fails (`AgainOnlyEmpty`) or starts from nothing, so what a load gives is the file
and nothing else. Three facts about a call (`CallEnsures`, `CallFit`, `CallsKept`)
do the work for every document call, `FilesWritten` for every step that writes files.
The proof of the refinement has one lemma per action, each of which names the
abstract step or stutter: `PutView` and `DeleteView`, `SaveAllSteps` for saves,
`LeaveView` for close and crash, `DiscardView` for unregistering.

### The importer

`CsvImport_proofs` takes the importer as the client of the engine it is:
`ImportIsClient` shows that each of its steps is a step of `CollectionStore`, so that
`SInv` holds along an import, and it neither transfers nor works before open.

| Theorem | Statement |
|---|---|
| `ImportsAppend` | `Durable => (ImportSpec => ImportAppends)` |
| `FailedImportsKeepRows` | `Durable => (ImportSpec => []FailedImportKeepsRows)` |
| `ReportsAreTrue` | `Durable /\ "noData" \notin Faults => (ImportSpec => []ReportedRowsAreSaved)` |

`JInv` adds what ties memory to file while the directory is open (`Growing`): the file
is as the import found it; the table, once loaded, holds the file's documents and
then the rows, and with a row it is dirty. The last part is what makes the close
write (`TableSaved`), together with the registry holding nothing but the table:
`apxdb_save_all_collections` stops at the first failure, and no other collection
can fail before it. `ImportReport` shows that the condition on "noData" is needed.

### Queries

`Query_proofs` proves, for any fields, types, indexes, texts, numbers they read as,
and any contents of unassigned memory:

| Theorem | Statement |
|---|---|
| `QInvHolds` | `Spec => []QInv` |
| `TypeOKHolds` | `Spec => []TypeOK` |
| `OneEntryPerKeyHolds` | `Spec => []OneEntryPerKey` |
| `IndexAgreesWithScanHolds` | `Spec => []IndexAgreesWithScan` |
| `QueriesMeanWhatTheySayHolds` | `Spec => []QueriesMeanWhatTheySay` |

What an index holds is a set of postings, pairs of an id and a text: those of all
keys of all documents. `IndexOf(f, es, P)` says that the entries `es` hold just the
postings `P`: each entry fits the field, has each of its ids once, and has the ids of
the texts that are `Alike` its key (the same text or, on a number field, the same
number); no two entries are alike; each posting has an entry. `QInv` is `TypeOK`,
`IdsOnce` (no two documents share an id, none is above the counter) and `IndexOf` for
every indexed field and the postings of the documents.

`IndexAgreesWithScan` is not inductive without it. An answer by number comes from the
first entry of that number, so it is whole only if no second entry has it, and the
next put keeps that only if each key finds the entry it belongs to; that an entry has
no id of another document is what makes a delete (which looks at ids, not at keys) and
a put that was given up (`PutNotIndexed`, which takes out what it had entered) leave the
index of the documents that remain. `AddKeyEnters` is the central lemma: adding one key
turns the index of `P` into that of `P` and one more posting. `AddKeysEnter`,
`AddDocEnters` and `RebuiltIndexes` carry it through the loops, `RemoveIdTakesOut` is
its counterpart for deletes. `LookupFinds` reads the answer off: a lookup
at positions whose entries hold the documents that meet a condition finds these, each
once.

For query objects, `Answers(r, hits)` says that a result has the ids of the documents
at `hits`, each once, and is never the null pointer unless `hits` is empty.
`AndChildAnswers` and `OrChildAnswers` show that one more child keeps it,
`AndLoopAnswers` and `OrLoopAnswers` that a loop over any number of children does
(before the first child with a result an `$or` is `Unset` and has passed over children
without hits only), `ObjectAnswers` goes up one level, and `QueriesAnswer` is the
induction over the depth. An `$and` needs its first child, which is why the empty
one is outside `Plain`.

The library's induction theorems take an operator, which the provers cannot
instantiate. `Iteration_proofs` therefore proves induction for sets (`Induction`, from
the least element of a set of naturals), that a recursive function over the rounds of a
loop exists (`RoundsExist`), and that what each round keeps holds after all
(`Chain`). The recursive functions of `RowLayout`, `Query` and `QueryObjects` are
treated with these.

### Rows

`RowStore_proofs` proves, for any schemas, collection schemas, texts, paths and
queries, any parser, validation and writers that meet `WriterAssumption`, and any
thresholds:

| Theorem | Statement |
|---|---|
| `RowsReadAsEntries` | in the row of an accepted document whose bitmap has the bits (`BitsFit`), the layout gives of each path what the entries of the header give |
| `RowsGiveBack` | every field of such a row is read back: nothing for a null, otherwise the bytes its writer left (of several fields of one name, the first) |
| `RegistriesImplemented` | `Spec => RegistrySpec`: the store of rows is a client of the registries |
| `RegistriesUnderRows` | `Spec => []RegistriesAgree /\ []LayoutsFit /\ LayoutsOutliveCollections` |
| `RowsAlwaysKept` | `Spec => []RowsKept` |
| `RowsTypeCorrect` | `Spec => []TypeOK` |
| `DocumentsAlwaysGiveBack` | `Spec => []DocumentsGiveBack`: so is every field of every document that is read under the layout it was written with |
| `GpuAlwaysAgrees` | `Spec => []GpuAgreesWithCpu` |

A row says where a variable field is twice, counted from the blob in its entry and
from the row in its slot, and twice that a field is null, in the entry and in the
bitmap. The column of the GPU is built by the one and the scan goes by the other, so
that the GPU changes no answer needs that both lead to the same bytes. The writer
fills header, fixed part and payloads in one loop; `RowInvariant` says what is there
after `j` fields: of each of them an entry (`EntryCells`) that holds, in a slot or
in the fixed part, what the layout will look for (`HeldAt`), and of each nullable one
its bit. That a later field leaves the earlier ones alone (`HeldStays`) is where the
layout comes in: `EveryRowFits` keeps fields and bitmap apart. `NullAdded`,
`FixedAdded` and `VariableAdded` are the three ways to add a field, `RowFieldKeeps`
puts them together, and `RowHolds` is the induction. `BlobCells` and `EntryLoads` then
find the parts in the finished blob, and `EntryAgrees` compares the two readers field
by field.

That both readers find the same does not say that it is what was put. `KeptSoFar`, the
other half of `RowInvariant`, does: the bytes the writer of each field left are at
the place its entry has (`KeptAt`), and stay there while later fields are written
(`KeptStays`, `KeptAdded`). `SliceIs` and `EntryGivesBack` cut them out of the blob
again. TLC was run with `DocumentsGiveBack` on the instance of `Rows`. The bitmap has bits for the nullable fields of the collection schema; the
bits set are for those of the document schema, and nothing in the code compares the
two. Hence `BitsFit`: without it a bit lands in a field.

`RowsKept` adds to the types that each document, in memory and in the file, is what a
writer left of a text accepted under the schema it is kept with (`DocsKept`,
`FileKept`), that of a collection that was not loaded nothing is in memory
(`NothingUnloaded`), and that each cached column holds what the documents hold now
(`Fresh`). `GpuAgreesWithCpu` is not inductive without them: it says nothing of a
column between two scans, nor of the documents in a file. `Fresh` needs
`NothingUnloaded`, since a load replaces the documents and drops no column, and since
a collection may be registered anew under another schema; both happen only while
nothing is in memory. TLC was run with `RowsKept` on the instance of `Rows` before
it was proved. From `RowsKept`, `DocumentReads` gives the one payload, `ColumnFinds`
compares the kernel with the scan at one document, and `QueriesAgree` the two readings
of a query.

### Threads, layouts, registries, the wrapper

`EngineThreads_proofs` proves every safety property of the run for any number of
threads and blocks and any `INT32_MAX`. `CounterInv` adds that no id is above the
counter and that a loop goes on only while what it read is below its value;
`PointerInv` adds `CallsOK`, what each thread knows where it is (`CallOK`): a thread that
begins holds nothing, and the block a thread is about to free is not the one the
pointer leads to; as long as nobody wrote the pointer since a call read it, it still
is what the call read, and a call that is about to write it finds no transaction
that was begun (`NoneBegun`), its own and a released one apart. None of the three
properties is inductive without it: an install keeps `EndsOfItsOwn` only because the
flag it read was down, or the block freed and so nobody's. The steps fall into those
that only move a call (`MovesKeepPointer`), those that clear the pointer
(`ClearsKeepPointer`), and those that write a handle or its block, one lemma each.
Everything about the pointer is proved up to the first use of a freed block.

`RowStore_proofs` also proves `EveryRowFits` for sequences of any length, the
agreement of the registries, that every layout fits, that a layout pointer is to a
layout of the collection's own name, and that only `apxdb_unregister_all_schemas`
leaves one dangling.

`DartClient_proofs` proves the four safety properties of the wrapper from `DInv`: the
stage of each call agrees with `_isOpen` and what the library returned, ids do not
repeat, and what an owner created is in the store. `OneOwner` is not inductive
without the stages: a call that returned OK but has not assigned `_isOpen` owns the
database already.

### Assumptions

`StoreAssumption`, `NoDirAssumption` and `NoFileAssumption` (the mark for "no file" is
no content of a file), `TableAssumption`, `ThreadsAssumption`, `RegistryAssumption`, `RowStoreAssumption`, and those
of `DartClient`: kinds of constants and distinct marks, no claims about behaviour.
`QueryAssumption` says in addition that lists have element indexes and no other field
has one (`apxdb_add_index` takes other declarations, but `add_index_key` then refuses
every value of the field), and that `true` and `false`, where they occur as texts,
read as no number (`strtod`). `QueryObjectsAssumption` says what a query object is, level by
level. `QueriesAssumption` says that the numbers queries ask for are integers (of quarters),
and `WriterAssumption` what the writers of payloads do, which `Blob` defines. TLC evaluates
each in a run.

### Only model-checked

`CloseCompletes` and `RaiseEnds` are liveness under fairness and beyond the provers.
`ReadsBack`, `ScanFinds` and `ValidIsStored` compare what the parser, the writers and
the readers make of values nested to any depth (`JsonText`, `Blob`, `BlobRead`). These
are RECURSIVE operators, for which the SMT backend of the provers is not available, and
what they compute for every input takes induction over the values. What of `ReadsBack`
is about rows is proved (`DocumentsAlwaysGiveBack`): each payload comes back byte for
byte; left to TLC is that the bytes of a payload mean the value. For the same
reason `WriterAssumption` is not proved of `Blob` but evaluated.

## 6. Where code and documents disagree

* `StoreIndexFile`: `save_collection_index_file` writes the schema signature
  before the collection name, as `apxdb_index_test.c:123` describes the format;
  `load_collection_index_file` reads it there for version 2 only, and the
  version written is 3. No index file is ever taken; each load rebuilds. This
  also hides a hazard: the data file is replaced before the index file, and were
  the header read as written, an index file left behind by a crash between the
  two would be accepted and documents missing from it would not be found. The
  mutant of `IndexStaysComplete` is exactly this repair.
* `ImportReport`: `transition_to_closed` drops the result of
  `apxdb_save_all_collections`, so the importer says "imported N rows" and exits
  with success though they were not saved.
* `DartFind`: `findDocument(id)` returns the first document whose id is `id` or
  whose text contains it.

Further limits of the engine that the models state as restrictions: an export
(`apxdb_save_collection` to another directory) clears the dirty flag; a
collection used before `apxdb_open` is taken as loaded and its file replaced;
an index added to a loaded collection does not hold the documents already there; a
load that runs out of memory inside `append_document` frees a blob twice (the
fault "read", with which `NoDoubleFree` is not checked); a retry after a partial
load meets the same double free.

Limits of blobs, found by writing `Rows` and stated as restrictions of its
properties. `README.md:52-62` lists lists, embedded objects and enum names among the
supported types.

* An embedded object never fits under a layout: its header is counted twice. Without
  one it fits while the bytes that are left over elsewhere last (12 and 12 per
  field). A list of embedded objects can be stored under a layout only when
  empty, and a query on one matches nothing.
* A list of strings under a layout reads back with the length of each string as
  part of its text; queries see the strings right.
* An enum given by its name passes validation and is refused by the writer, which
  wants an integer; so is a date given as a text that is no number.
* Under a layout, members that the schema does not name are gone when a document
  is read, and a null inside a list makes the row's text invalid, whereupon the text
  of the put is returned.
* The writer escapes control characters as `\u00XX`, which the parser refuses.
* The signature of a file is of the schema, not of the layout. Documents written
  without a layout and opened with one, or under another, are misread; nothing in
  the file tells.
* The GPU scan truncates a threshold to an integer (`gt 1.5`) and leaves out
  integers wider than 32 bits; a collection answers otherwise from 128 documents on.

## 7. Not modelled

* Races on the documents, indexes and columns of a collection. They are data races
  on plain memory, undefined, and nothing follows from the code after one.
  `CollectionStore` is the engine used by one thread at a time, which is how the
  importer, the tests and the benchmarks use it; `EngineThreads` has what is left of
  the guarantees where threads do meet.
* The Vulkan backend. Its host binds values, valid, result and parameters in this
  order (`apxdb.c:745-790`), the shader (`compute.comp` and the embedded SPIR-V) has
  values, matches and parameters: it reads its threshold from memory nobody wrote,
  and writes a mask nobody reads. What it answers depends on fresh device memory;
  usually nothing, and the scan on the CPU hides it. The set-up calls of both
  backends are I/O.
* The byte layout of the files, CSV text and the inference of a schema from it,
  numerals character by character: data.
* The diagnostics and metrics of queries. (Without `APXDB_ENABLE_DIAGNOSTICS`
  `apxdb_collection.c` does not compile: `set_last_query_plan` is defined twice.)
* That the nullable flag of a layout may differ from the schema's: nothing in the
  code compares the two. The instance for TLC has them agree; the theorems allow them to
  differ as far as the bitmap has bits enough (`BitsFit`).
* The width of `uint32_t` in sizes and offsets: sums of a layout and of a blob are
  taken in the naturals, so `LayoutsFit` and `EveryRowFits` say nothing of a row of
  4 GiB or more.
* The length bytes inside the text of a list's strings: that the text contains them
  is modelled, what they look like is not (`WritesLists` keeps such lists out of
  `ReadsBack`).
* Loss of power. A crash ends the process; what was renamed stays.
* `apxdb.cpp` (in no build file), benchmarks, tests, platform stubs: no state of
  their own.

## 8. Plan

Done: all modules of section 2 and the theorems of section 5. Left, by value:

1. `SaveFile`: one save as its steps (temporary file, close, rename, index file),
   shown to implement the single step of `CollectionStore`.
2. `Rows` with two collections and layouts that do not suit the schema, to say what
   exactly survives a session under another layout.
3. The induction over nested values that `ReadsBack` and `WriterAssumption` would take,
   with values given by depth as the query objects are in `QueryObjects`.
