------------------------------- MODULE MCThreads -------------------------------
(* EngineThreads for TLC: the ids files hold, 0 and too large ones included. *)
EXTENDS EngineThreads

McValues == {0, 2, 3, 4}
=============================================================================
