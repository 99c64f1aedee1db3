------------------------------ MODULE MCImport -------------------------------
(***************************************************************************)
(* Instances of CsvImport for TLC.                                         *)
(***************************************************************************)
EXTENDS CsvImport, TLC

\* Keys and schemas are interchangeable.
ImportSymmetry == Permutations(Values) \cup Permutations(Schemas)
=============================================================================
