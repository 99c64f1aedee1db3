------------------------------- MODULE RowLayout -------------------------------
(***************************************************************************)
(* The layout of a row (apxdb_build_collection_layout in                   *)
(* src/src/native/apxdb_schema.c): a bitmap with one bit per nullable      *)
(* field, then the fields in order; a variable field has a slot of two     *)
(* uint32_t there, for the place and the size of its payload.              *)
(*                                                                         *)
(* The fields of an apxdb_collection_schema_t are a sequence of records:   *)
(* the declared size, and whether the storage is variable and nullable.    *)
(***************************************************************************)
EXTENDS Integers, Sequences, FiniteSets

SlotSize == 8

FieldSchemas == Seq([size: Nat, variable: BOOLEAN, nullable: BOOLEAN])

\* field_storage_size
StorageSize(f) == IF f.variable THEN SlotSize ELSE f.size

\* Slip in BitmapSize: the division rounds down.
BitmapSizeDown(fields) == Cardinality({i \in DOMAIN fields : fields[i].nullable}) \div 8

BitmapSize(fields) == (Cardinality({i \in DOMAIN fields : fields[i].nullable}) + 7) \div 8

\* field_offset in the second loop, after i fields.
Offsets(fields) ==
  LET at[i \in 0..Len(fields)] ==
        IF i = 0 THEN BitmapSize(fields) ELSE at[i - 1] + StorageSize(fields[i])
  IN at

BuildLayout(fields) ==
  [count |-> Len(fields),
   bitmap |-> BitmapSize(fields),
   rowFixed |-> Offsets(fields)[Len(fields)],
   slots |-> Cardinality({i \in DOMAIN fields : fields[i].variable}),
   offset |-> [i \in DOMAIN fields |-> Offsets(fields)[i - 1]],
   size |-> [i \in DOMAIN fields |-> StorageSize(fields[i])],
   variable |-> [i \in DOMAIN fields |-> fields[i].variable]]

-----------------------------------------------------------------------------
\* No two fields of a row share a byte, none reaches into the bitmap or past
\* the end of the fixed part, and every nullable field has a bit: what
\* run_test_layout_invariants asserts of one layout.
RowFits(fields, l) ==
  /\ \A i \in DOMAIN fields :
       /\ l.bitmap <= l.offset[i]
       /\ l.offset[i] + l.size[i] <= l.rowFixed
       /\ \A j \in DOMAIN fields : i < j => l.offset[i] + l.size[i] <= l.offset[j]
  /\ Cardinality({i \in DOMAIN fields : fields[i].nullable}) <= 8 * l.bitmap
=============================================================================
