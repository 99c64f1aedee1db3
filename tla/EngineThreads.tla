----------------------------- MODULE EngineThreads -----------------------------
(***************************************************************************)
(* Threads inside the collection engine (apxdb_collection.c): isolates of  *)
(* one process share its globals, and its calls take no lock.  Modelled    *)
(* are the two globals every writer meets, one shared access a step: the   *)
(* id counter, which is atomic, and the pointer to the active transaction, *)
(* which is not.                                                           *)
(*                                                                         *)
(* A transaction is a heap block.  Whoever began it holds its address, and *)
(* malloc may hand the address of a freed block out again.                 *)
(***************************************************************************)
EXTENDS Integers, Sequences, FiniteSets

CONSTANTS
  Threads,
  Blocks,      \* addresses malloc returns for an apxdb_transaction_t
  NULL,
  Values,      \* the numbers n of the ids doc_n in files
  Int32Max,    \* INT32_MAX; the counter is an int32_t
  MaxIds,      \* bound: ids taken, or about to be, since the counter was reset
  MaxResets    \* bound: calls that unregister everything

ASSUME ThreadsAssumption ==
  /\ NULL \notin Blocks
  /\ Values \subseteq Int
  /\ Int32Max \in Nat \ {0}
  /\ MaxIds \in Nat
  /\ MaxResets \in Nat

VARIABLES
  g_collection_counter,
  g_active_transaction,
  live,      \* live[b]: block b is allocated
  active,    \* active[b]: the field active of block b, FALSE once it is freed
  txn,       \* txn[t]: the handle thread t holds
  pc,        \* pc[t]: what t does next inside a call, "idle" between calls
  seen,      \* seen[t]: g_active_transaction as the call of t read it
  value,     \* value[t]: the id t raises the counter to
  expected,  \* expected[t]: the counter as the loop of t read it
  resets,    \* calls that unregistered everything
  \* History.
  ids,       \* ids taken since the counter was reset, in order
  floor,     \* the largest value of a finished raise since then, 0 if none
  wrapped,   \* the counter went over INT32_MAX since then
  stale,     \* stale[t]: another thread wrote the pointer since the call of t read it
  raced,     \* a thread wrote the pointer though it was stale
  stranded,  \* stranded[t]: the block of t was freed by free_collections
  misused    \* a call went on with a block freed under it, or freed one again

counterVars == <<g_collection_counter, ids, floor, wrapped>>
handleVars == <<live, active, txn, stranded>>
pointerVars == <<g_active_transaction, handleVars, seen, stale, raced, misused>>
loopVars == <<value, expected>>
vars == <<counterVars, pointerVars, loopVars, pc, resets>>

Int32 == -(Int32Max + 1)..Int32Max

Init ==
  /\ g_collection_counter = 0
  /\ g_active_transaction = NULL
  /\ live = [b \in Blocks |-> FALSE]
  /\ active = [b \in Blocks |-> FALSE]
  /\ txn = [t \in Threads |-> NULL]
  /\ pc = [t \in Threads |-> "idle"]
  /\ seen = [t \in Threads |-> NULL]
  /\ value = [t \in Threads |-> 0]
  /\ expected = [t \in Threads |-> 0]
  /\ resets = 0
  /\ ids = <<>>
  /\ floor = 0
  /\ wrapped = FALSE
  /\ stale = [t \in Threads |-> FALSE]
  /\ raced = FALSE
  /\ stranded = [t \in Threads |-> FALSE]
  /\ misused = FALSE

Goes(t, from, to) == pc[t] = from /\ pc' = [pc EXCEPT ![t] = to]

\* A call that has to do with the pointer goes on: after a use of a freed block
\* nothing is defined, and none does.
Moves(t, from, to) == ~misused /\ Goes(t, from, to)

\* The flags a block may show: its own, or anything once it was freed.
FlagsOf(b) == IF live[b] THEN {active[b]} ELSE BOOLEAN

-----------------------------------------------------------------------------
(***************************************************************************)
(* The id counter.                                                         *)
(***************************************************************************)
\* Slip in Wrap: the counter has no end.
NoWrap(n) == n

\* atomic_fetch_add on an int32_t goes round.
Wrap(n) == IF n > Int32Max THEN -(Int32Max + 1) ELSE n

\* Threads that may yet take an id.
Putting == {t \in Threads : pc[t] \in {"put", "take"}}

\* apxdb_put_document: has_active_write_txn reads the pointer.
PutLooks(t) ==
  /\ g_active_transaction # NULL
  /\ Len(ids) + Cardinality(Putting) < MaxIds
  /\ Moves(t, "idle", "put")
  /\ seen' = [seen EXCEPT ![t] = g_active_transaction]
  /\ UNCHANGED <<counterVars, g_active_transaction, handleVars, stale, raced, misused,
                 loopVars, resets>>

\* It reads the flag of the transaction it found.
PutTests(t) ==
  /\ pc[t] = "put"
  /\ \E flag \in FlagsOf(seen[t]) : Moves(t, "put", IF flag THEN "take" ELSE "idle")
  /\ seen' = [seen EXCEPT ![t] = NULL]
  /\ stale' = [stale EXCEPT ![t] = FALSE]
  /\ UNCHANGED <<counterVars, g_active_transaction, handleVars, raced, misused,
                 loopVars, resets>>

\* build_document_id
BuildDocumentId(t) ==
  /\ Goes(t, "take", "idle")
  /\ g_collection_counter' = Wrap(g_collection_counter + 1)
  /\ ids' = Append(ids, Wrap(g_collection_counter + 1))
  /\ wrapped' = (wrapped \/ g_collection_counter = Int32Max)
  /\ UNCHANGED <<floor, pointerVars, loopVars, resets>>

\* The larger of the finished raises so far and this one.
Raised(v) == IF v > floor THEN v ELSE floor

\* update_document_counter_from_id, up to the first test of its loop.  Numbers
\* no counter can have are passed over.
StartRaise(t, v) ==
  /\ v > 0 /\ v <= Int32Max
  /\ IF v <= g_collection_counter
     THEN /\ pc[t] = "idle"
          /\ floor' = Raised(v)
          /\ UNCHANGED <<loopVars, pc>>
     ELSE /\ Goes(t, "idle", "raise")
          /\ value' = [value EXCEPT ![t] = v]
          /\ expected' = [expected EXCEPT ![t] = g_collection_counter]
          /\ UNCHANGED floor
  /\ UNCHANGED <<g_collection_counter, ids, wrapped, pointerVars, resets>>

\* Slip in Exchanged: the value is stored without the comparison.
StoredAnyway(t) == value[t]

\* Slip in Reread: a failed exchange leaves expected alone.
ExpectedKept(t) == expected[t]

\* Slip in Enough: one turn has to do.
EnoughAtOnce(t, read) == TRUE

\* The counter after atomic_compare_exchange_weak, what a failed one reads, and
\* whether the loop ends with that.
Exchanged(t) == IF g_collection_counter = expected[t] THEN value[t] ELSE g_collection_counter
Reread(t) == g_collection_counter
Enough(t, read) == value[t] <= read

\* One turn of the loop.  An exchange that succeeds leaves expected as it was,
\* so the loop takes one more turn; one that fails for no reason rereads what
\* it had, and is a stuttering step.
Exchange(t) ==
  /\ pc[t] = "raise"
  /\ g_collection_counter' = Exchanged(t)
  /\ LET read == IF g_collection_counter = expected[t] THEN expected[t] ELSE Reread(t) IN
     IF Enough(t, read)
     THEN /\ pc' = [pc EXCEPT ![t] = "idle"]
          /\ floor' = Raised(value[t])
          /\ value' = [value EXCEPT ![t] = 0]
          /\ expected' = [expected EXCEPT ![t] = 0]
     ELSE /\ expected' = [expected EXCEPT ![t] = read]
          /\ UNCHANGED <<pc, floor, value>>
  /\ UNCHANGED <<ids, wrapped, pointerVars, resets>>

-----------------------------------------------------------------------------
(***************************************************************************)
(* The active transaction.                                                 *)
(***************************************************************************)
\* Where a call goes by what it read of the pointer.
PointerPlaces ==
  {"put", "test", "install", "publish", "end", "clear", "unpoint", "release", "unset"}

\* Thread t writes the pointer: what the others read of it is stale from now on,
\* and the write is a lost update when what t read was.
Points(t, b) ==
  /\ g_active_transaction' = b
  /\ stale' = [u \in Threads |-> u # t /\ (stale[u] \/ pc[u] \in PointerPlaces)]
  /\ raced' = (raced \/ stale[t])

\* apxdb_begin_write_txn reads the pointer.
BeginLooks(t) ==
  /\ txn[t] = NULL
  /\ Moves(t, "idle", IF g_active_transaction = NULL THEN "install" ELSE "test")
  /\ seen' = [seen EXCEPT ![t] = g_active_transaction]
  /\ UNCHANGED <<counterVars, g_active_transaction, handleVars, stale, raced, misused,
                 loopVars, resets>>

\* Slip in Refuses: the flag is not looked at.
RefusesNever(flag) == FALSE

\* A transaction that is active is in the way.
Refuses(flag) == flag

\* It reads the flag of the transaction it found.
BeginTests(t) ==
  /\ pc[t] = "test"
  /\ \E flag \in FlagsOf(seen[t]) :
       IF Refuses(flag) THEN Moves(t, "test", "idle") /\ stale' = [stale EXCEPT ![t] = FALSE]
       ELSE Moves(t, "test", "install") /\ UNCHANGED stale
  /\ seen' = [seen EXCEPT ![t] = NULL]
  /\ UNCHANGED <<counterVars, g_active_transaction, handleVars, raced, misused,
                 loopVars, resets>>

\* It allocates a transaction, active from the start.
BeginAllocates(t) ==
  /\ Moves(t, "install", "publish")
  /\ \E b \in {c \in Blocks : ~live[c]} :
       /\ live' = [live EXCEPT ![b] = TRUE]
       /\ active' = [active EXCEPT ![b] = TRUE]
       /\ txn' = [txn EXCEPT ![t] = b]
  /\ UNCHANGED <<counterVars, g_active_transaction, seen, stale, raced, stranded, misused,
                 loopVars, resets>>

\* It finds no memory for one.
BeginFails(t) ==
  /\ Moves(t, "install", "idle")
  /\ stale' = [stale EXCEPT ![t] = FALSE]
  /\ UNCHANGED <<counterVars, g_active_transaction, handleVars, seen, raced, misused,
                 loopVars, resets>>

\* It makes it the active one.
BeginInstalls(t) ==
  /\ Moves(t, "publish", "idle")
  /\ Points(t, txn[t])
  /\ misused' = (misused \/ stranded[t])
  /\ UNCHANGED <<counterVars, handleVars, seen, loopVars, resets>>

\* A client starts no call with a handle whose block is gone; the block may go
\* while it is inside one.
Holds(t) == txn[t] # NULL /\ ~stranded[t]

\* apxdb_commit_write_txn and apxdb_rollback_write_txn read the flag.
EndStarts(t) ==
  /\ Holds(t)
  /\ active[txn[t]]
  /\ Moves(t, "idle", "own")
  /\ UNCHANGED <<counterVars, pointerVars, loopVars, resets>>

\* They read the pointer.
EndOwns(t) ==
  /\ Moves(t, "own", IF txn[t] = g_active_transaction THEN "end" ELSE "idle")
  /\ UNCHANGED <<counterVars, pointerVars, loopVars, resets>>

\* They write the flag.
EndWrites(t) ==
  /\ Moves(t, "end", "clear")
  /\ active' = [active EXCEPT ![txn[t]] = FALSE]
  /\ misused' = (misused \/ stranded[t])
  /\ UNCHANGED <<counterVars, g_active_transaction, live, txn, stranded, seen, stale, raced,
                 loopVars, resets>>

\* Slip in LiveAfterEnd: the transaction is freed with its end.
LiveAfterEndFreed(t) == [live EXCEPT ![txn[t]] = FALSE]

\* The block stays until apxdb_free_transaction.
LiveAfterEnd(t) == live

\* They write the pointer.
EndClears(t) ==
  /\ Moves(t, "clear", "idle")
  /\ Points(t, NULL)
  /\ live' = LiveAfterEnd(t)
  /\ UNCHANGED <<counterVars, active, txn, stranded, seen, misused, loopVars, resets>>

\* Slip in OwnActive: the pointer is left alone.
NeverActive(t) == FALSE

\* A transaction that is freed while it is the active one is taken back first.
OwnActive(t) == txn[t] = g_active_transaction

\* apxdb_free_transaction reads the pointer.
FreeLooks(t) ==
  /\ Holds(t)
  /\ Moves(t, "idle", IF OwnActive(t) THEN "unpoint" ELSE "free")
  /\ UNCHANGED <<counterVars, pointerVars, loopVars, resets>>

\* It writes the pointer.
FreeClears(t) ==
  /\ Moves(t, "unpoint", "free")
  /\ Points(t, NULL)
  /\ UNCHANGED <<counterVars, handleVars, seen, misused, loopVars, resets>>

\* It frees the block.
FreeFrees(t) ==
  /\ Moves(t, "free", "idle")
  /\ live' = [live EXCEPT ![txn[t]] = FALSE]
  /\ active' = [active EXCEPT ![txn[t]] = FALSE]
  /\ txn' = [txn EXCEPT ![t] = NULL]
  /\ stranded' = [stranded EXCEPT ![t] = FALSE]
  /\ misused' = (misused \/ stranded[t])
  /\ UNCHANGED <<counterVars, g_active_transaction, seen, stale, raced, loopVars, resets>>

\* The client forgets a handle that is of no use any more.
Forget(t) ==
  /\ ~misused
  /\ stranded[t]
  /\ pc[t] = "idle"
  /\ txn' = [txn EXCEPT ![t] = NULL]
  /\ stranded' = [stranded EXCEPT ![t] = FALSE]
  /\ UNCHANGED <<counterVars, g_active_transaction, live, active, seen, stale, raced, misused,
                 loopVars, pc, resets>>

-----------------------------------------------------------------------------
(***************************************************************************)
(* apxdb_collection_unregister_all, of close and of a failed open.         *)
(***************************************************************************)
\* free_collections reads the pointer.
UnregisterLooks(t) ==
  /\ resets < MaxResets
  /\ resets' = resets + 1
  /\ Moves(t, "idle", IF g_active_transaction = NULL THEN "reset" ELSE "release")
  /\ seen' = [seen EXCEPT ![t] = g_active_transaction]
  /\ UNCHANGED <<counterVars, g_active_transaction, handleVars, stale, raced, misused, loopVars>>

\* It frees the transaction it found, whoever holds it.
UnregisterFrees(t) ==
  /\ Moves(t, "release", "unset")
  /\ live' = [live EXCEPT ![seen[t]] = FALSE]
  /\ active' = [active EXCEPT ![seen[t]] = FALSE]
  /\ stranded' = [u \in Threads |-> stranded[u] \/ txn[u] = seen[t]]
  /\ misused' = (misused \/ ~live[seen[t]])
  /\ UNCHANGED <<counterVars, g_active_transaction, txn, seen, stale, raced, loopVars, resets>>

\* It writes the pointer, which led to the freed block until now.
UnregisterClears(t) ==
  /\ Moves(t, "unset", "reset")
  /\ Points(t, NULL)
  /\ seen' = [seen EXCEPT ![t] = NULL]
  /\ UNCHANGED <<counterVars, handleVars, misused, loopVars, resets>>

\* The counter starts again.
UnregisterResets(t) ==
  /\ Goes(t, "reset", "idle")
  /\ g_collection_counter' = 0
  /\ ids' = <<>>
  /\ floor' = 0
  /\ wrapped' = FALSE
  /\ UNCHANGED <<pointerVars, loopVars, resets>>

-----------------------------------------------------------------------------
\* A process in which a freed block was used ends, and another one starts.
ProcessEnds ==
  /\ misused
  /\ g_collection_counter' = 0
  /\ g_active_transaction' = NULL
  /\ live' = [b \in Blocks |-> FALSE]
  /\ active' = [b \in Blocks |-> FALSE]
  /\ txn' = [t \in Threads |-> NULL]
  /\ pc' = [t \in Threads |-> "idle"]
  /\ seen' = [t \in Threads |-> NULL]
  /\ value' = [t \in Threads |-> 0]
  /\ expected' = [t \in Threads |-> 0]
  /\ resets' = 0
  /\ ids' = <<>>
  /\ floor' = 0
  /\ wrapped' = FALSE
  /\ stale' = [t \in Threads |-> FALSE]
  /\ raced' = FALSE
  /\ stranded' = [t \in Threads |-> FALSE]
  /\ misused' = FALSE

Step(t) ==
  \/ PutLooks(t) \/ PutTests(t) \/ BuildDocumentId(t)
  \/ \E v \in Values : StartRaise(t, v)
  \/ Exchange(t)
  \/ BeginLooks(t) \/ BeginTests(t)
  \/ BeginAllocates(t) \/ BeginFails(t) \/ BeginInstalls(t)
  \/ EndStarts(t) \/ EndOwns(t) \/ EndWrites(t) \/ EndClears(t)
  \/ FreeLooks(t) \/ FreeClears(t) \/ FreeFrees(t) \/ Forget(t)
  \/ UnregisterLooks(t) \/ UnregisterFrees(t) \/ UnregisterClears(t) \/ UnregisterResets(t)

Next == ProcessEnds \/ \E t \in Threads : Step(t)

Spec == Init /\ [][Next]_vars

\* A thread inside the loop of update_document_counter_from_id is scheduled, and
\* atomic_compare_exchange_weak does not fail for no reason for ever.
FairSpec == Spec /\ \A t \in Threads : WF_vars(Exchange(t))

-----------------------------------------------------------------------------
Places == PointerPlaces \cup {"idle", "take", "raise", "own", "free", "reset"}

\* Every variable has its type; a block that is looked into is a block.
TypeOK ==
  /\ g_collection_counter \in Int32
  /\ g_active_transaction \in Blocks \cup {NULL}
  /\ live \in [Blocks -> BOOLEAN]
  /\ active \in [Blocks -> BOOLEAN]
  /\ txn \in [Threads -> Blocks \cup {NULL}]
  /\ pc \in [Threads -> Places]
  /\ seen \in [Threads -> Blocks \cup {NULL}]
  /\ value \in [Threads -> 0..Int32Max]
  /\ expected \in [Threads -> Int32]
  /\ resets \in 0..MaxResets
  /\ ids \in Seq(Int32)
  /\ floor \in 0..Int32Max
  /\ wrapped \in BOOLEAN
  /\ stale \in [Threads -> BOOLEAN]
  /\ raced \in BOOLEAN
  /\ stranded \in [Threads -> BOOLEAN]
  /\ misused \in BOOLEAN
  /\ \A t \in Threads : pc[t] \in {"put", "test", "release", "unset"} => seen[t] # NULL

\* No two documents get the same id, from whatever threads they come and
\* whatever files are read meanwhile, until the counter goes over INT32_MAX or
\* everything is unregistered.
IdsDistinct ==
  ~wrapped => \A i, j \in DOMAIN ids : i < j => ids[i] < ids[j]

\* Once a file's id was taken account of, the counter stays at or above it, so
\* no id given later is one of the file's.
RaisesHold == ~wrapped => floor <= g_collection_counter

\* Block b was freed by an unregister that has not written the pointer yet.
InWindow(b) == \E t \in Threads : pc[t] = "unset" /\ seen[t] = b

\* The pointer to the active transaction leads to a freed block only between the
\* free and the write of an unregister, until a call uses such a block.
DanglesInWindow ==
  ~misused /\ g_active_transaction # NULL =>
    live[g_active_transaction] \/ InWindow(g_active_transaction)

\* A handle stays good until everything is unregistered while it is the active
\* one, and it is nobody else's.
HandlesLive ==
  ~misused =>
    \A t \in Threads : Holds(t) =>
      /\ live[txn[t]]
      /\ \A u \in Threads : Holds(u) /\ txn[u] = txn[t] => u = t

\* Thread t began a transaction, and has neither ended it nor set out to free it.
Begun(t) == Holds(t) /\ pc[t] \notin {"publish", "unpoint", "free"} /\ active[txn[t]]

\* A transaction that was begun can be ended by the one who began it, as long
\* as no thread wrote the pointer on the strength of a value another had
\* replaced: of two begins that overlap, or a begin and an end, one is lost.
EndsOfItsOwn ==
  ~raced /\ ~misused =>
    \A t \in Threads : Begun(t) => txn[t] = g_active_transaction

\* A block that a put, a begin or free_collections is about to look into or to
\* free was freed already only if the pointer was written since they read it, or
\* an unregister that freed the block has not written it yet.
ReadsInWindow ==
  ~misused =>
    \A t \in Threads : pc[t] \in {"put", "test", "release"} /\ ~stale[t] =>
      live[seen[t]] \/ InWindow(seen[t])

\* The loop that raises the counter comes to an end, however the other threads
\* take ids and raise it meanwhile.
RaiseEnds == \A t \in Threads : pc[t] = "raise" ~> pc[t] # "raise"
=============================================================================
