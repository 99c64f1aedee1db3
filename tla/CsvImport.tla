------------------------------ MODULE CsvImport ------------------------------
(***************************************************************************)
(* The CSV importer (src/src/native/apxdb_import_csv.c): a process that    *)
(* opens a directory, registers one collection under the schema it inferred*)
(* from the CSV file, puts a document per row in one write transaction,    *)
(* and closes.  It is a client of CollectionStore: every step but the      *)
(* reading of rows is a call of the engine.  Imports follow one another,   *)
(* each in a process of its own, from files of any schema.                 *)
(*                                                                         *)
(* Rows the importer skips (a row that does not parse, or whose JSON is    *)
(* too long) reach no call and have no action.                             *)
(***************************************************************************)
EXTENDS CollectionStore, SequencesExt

CONSTANT Table  \* the collection "testdb"

ASSUME TableAssumption == Table \in Collections

VARIABLES
  step,      \* where import_csv_to_apxdb is
  target,    \* db_dir
  found,     \* the documents of the target file when the import began
  imported,  \* the documents of the rows put so far
  verdict    \* what import_csv_to_apxdb returned

importVars == <<step, target, found, imported, verdict>>
allVars == <<vars, importVars>>

Steps == {"idle", "open", "registered", "writing", "row failed", "failed", "committed", "exit"}

ImportInit ==
  /\ Init
  /\ step = "idle"
  /\ target \in Dirs
  /\ found = <<>>
  /\ imported = <<>>
  /\ verdict = "none"

ImportOpens(d) ==
  /\ step = "idle"
  /\ Open(d)
  /\ step' = "open"
  /\ target' = d
  /\ found' = Content(files[d][Table])
  /\ imported' = <<>>
  /\ UNCHANGED verdict

\* The importer returns without a close: the database stays FAILED.
CannotOpen ==
  /\ step = "idle"
  /\ OpenNoDirectory \/ OpenNoMemory
  /\ step' = "exit"
  /\ verdict' = "false"
  /\ UNCHANGED <<target, found, imported>>

Registers(s) ==
  /\ step = "open"
  /\ Register(Table, s)
  /\ step' = "registered"
  /\ UNCHANGED <<target, found, imported, verdict>>

Begins ==
  /\ step = "registered"
  /\ BeginWriteTxn
  /\ step' = "writing"
  /\ UNCHANGED <<target, found, imported, verdict>>

Inserts(keys) ==
  /\ step = "writing"
  /\ Put(Table, keys)
  /\ imported' = Append(imported, Last(coll'[Table].docs))
  /\ UNCHANGED <<step, target, found, verdict>>

\* apxdb_put_document returned NULL for the row.
RowFails ==
  /\ step = "writing"
  /\ Access(Table) \/ PutAborts(Table)
  /\ step' = "row failed"
  /\ UNCHANGED <<target, found, imported, verdict>>

RollsBack ==
  /\ step = "row failed"
  /\ EndWriteTxn
  /\ step' = "failed"
  /\ UNCHANGED <<target, found, imported, verdict>>

\* No collection, no CSV file, no transaction, or a row that failed: the
\* importer closes, which saves what was put, and returns false.
GivesUp(how) ==
  /\ step \in {"open", "registered", "failed"}
  /\ Close(how)
  /\ step' = "exit"
  /\ verdict' = "false"
  /\ UNCHANGED <<target, found, imported>>

Commits ==
  /\ step = "writing"
  /\ EndWriteTxn
  /\ step' = "committed"
  /\ UNCHANGED <<target, found, imported, verdict>>

\* apxdb_close returns APXDB_OK here, and so the importer returns true.
Closes(how) ==
  /\ step = "committed"
  /\ Close(how)
  /\ step' = "exit"
  /\ verdict' = "true"
  /\ UNCHANGED <<target, found, imported>>

\* The process ends, after its return or before; it writes files only where it
\* might be inside a close.
Dies(how) ==
  /\ step \in {"open", "registered", "failed", "committed"}
     \/ \A c \in Collections : how[c].end = "noData"
  /\ Crash(how)
  /\ step' = "idle"
  /\ verdict' = "none"
  /\ UNCHANGED <<target, found, imported>>

ImportNext ==
  \/ heap = "sound" /\ \E d \in Dirs : ImportOpens(d)
  \/ heap = "sound" /\ CannotOpen
  \/ heap = "sound" /\ \E s \in Schemas : Registers(s)
  \/ heap = "sound" /\ Begins
  \/ heap = "sound" /\ \E keys \in Keys : Inserts(keys)
  \/ heap = "sound" /\ RowFails
  \/ heap = "sound" /\ RollsBack
  \/ heap = "sound" /\ \E how \in CloseEnds : GivesUp(how)
  \/ heap = "sound" /\ Commits
  \/ heap = "sound" /\ \E how \in CloseEnds : Closes(how)
  \/ \E how \in CrashEnds : Dies(how)

ImportSpec == ImportInit /\ [][ImportNext]_allVars

-----------------------------------------------------------------------------
\* Imports only append: no import, completed, failed or killed at any point,
\* under the schema of the file or another, takes a document out of the file or
\* changes one, or puts one before those that were there.
ImportAppends ==
  [][\A d \in Dirs : IsPrefix(Content(files[d][Table]), Content(files'[d][Table]))]_allVars

\* An import that returned true ("imported %zu rows into '%s'") left the rows it
\* put in the file, after the documents it found there.
ReportedRowsAreSaved ==
  step = "exit" /\ verdict = "true" => Content(files[target][Table]) = found \o imported

\* An import that returned false left the file as it found it, or with all rows
\* up to the one that failed: rows are never saved out of order or twice.
FailedImportKeepsRows ==
  step = "exit" /\ verdict = "false" =>
    Content(files[target][Table]) \in {found, found \o imported}
=============================================================================
