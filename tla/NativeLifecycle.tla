--------------------------- MODULE NativeLifecycle ---------------------------
(***************************************************************************)
(* The lifecycle of the native library (src/src/native/apxdb.c): the       *)
(* variable g_state and the storage directory.  Every call below runs      *)
(* under g_mutex from its first test to its last assignment, so a call is  *)
(* one step; OPENING is only ever the value of g_state while the lock is   *)
(* held and CLOSING is never assigned, so neither is a state here.         *)
(*                                                                         *)
(* The operators describe state and dir alone.  A module that has more     *)
(* state conjoins what the same call does to it.                           *)
(***************************************************************************)

CONSTANTS
  Dirs,     \* directories the client may pass to apxdb_open
  NoDir     \* g_storage_directory == NULL

ASSUME NoDirAssumption == NoDir \notin Dirs

VARIABLES
  state,    \* g_state
  dir       \* g_storage_directory

lifecycleVars == <<state, dir>>

States == {"CLOSED", "OPEN", "FAILED"}

LifecycleTypeOK ==
  /\ state \in States
  /\ dir \in Dirs \cup {NoDir}

LifecycleInit ==
  /\ state = "CLOSED"
  /\ dir = NoDir

-----------------------------------------------------------------------------
(***************************************************************************)
(* The ways a call can go that change something.  The calls that return    *)
(* ALREADY_OPEN, PARTIAL_RECOVERY, NOT_OPEN or OK at once change nothing.  *)
(***************************************************************************)

\* apxdb_initialize from CLOSED: the database is open, without a directory.
InitializeSucceeds ==
  /\ state = "CLOSED"
  /\ state' = "OPEN"
  /\ dir' = dir

\* apxdb_open from CLOSED, the directory exists or was created.
OpenSucceeds(d) ==
  /\ state = "CLOSED"
  /\ state' = "OPEN"
  /\ dir' = d

\* apxdb_open from CLOSED, the path is not a directory and cannot become one:
\* ERR_IO.  Nothing is cleaned up and the state stays FAILED.
OpenFailsIO ==
  /\ state = "CLOSED"
  /\ state' = "FAILED"
  /\ dir' = dir

\* apxdb_open from CLOSED, the copy of the path cannot be allocated:
\* cleanup_partial_open, ERR_UNKNOWN.
OpenFailsAlloc ==
  /\ state = "CLOSED"
  /\ state' = "FAILED"
  /\ dir' = NoDir

\* Slip in TransitionToClosed: the last assignment of g_state is missing.
LeftClosing ==
  /\ state # "CLOSED"
  /\ state' = "CLOSING"
  /\ dir' = NoDir

\* apxdb_close and apxdb_shutdown from OPEN or FAILED: transition_to_closed.
TransitionToClosed ==
  /\ state # "CLOSED"
  /\ state' = "CLOSED"
  /\ dir' = NoDir

\* The process ends and a new one starts.
ProcessRestart ==
  /\ state' = "CLOSED"
  /\ dir' = NoDir
=============================================================================
