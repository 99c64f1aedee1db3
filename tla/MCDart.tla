------------------------------- MODULE MCDart --------------------------------
(***************************************************************************)
(* Instances of DartClient for TLC.  No symmetry: a liveness property is   *)
(* among those checked.                                                    *)
(***************************************************************************)
EXTENDS DartClient
=============================================================================
