------------------------------- MODULE MCStore -------------------------------
(***************************************************************************)
(* Instances of CollectionStore for TLC.                                   *)
(***************************************************************************)
EXTENDS StoreRefinement, TLC

\* Collections and keys are interchangeable; so are directories.
StoreSymmetry == Permutations(Collections) \cup Permutations(Values) \cup Permutations(Dirs)
=============================================================================
