-------------------------- MODULE EngineThreads_proofs --------------------------
(***************************************************************************)
(* Proofs about EngineThreads, for any number of threads, blocks and ids:  *)
(* ids are distinct whatever is raised meanwhile, and the pointer to the   *)
(* active transaction, written without a lock, leads to freed memory and   *)
(* loses a transaction only where the module says it may.                  *)
(***************************************************************************)
EXTENDS EngineThreads, SequenceTheorems, TLAPS

-----------------------------------------------------------------------------
(* Types *)

LEMMA Int32IsInt == Int32 \subseteq Int /\ Int32Max \in Int
  BY ThreadsAssumption DEF Int32

LEMMA WrapType ==
  ASSUME NEW n \in Int32
  PROVE  Wrap(n + 1) \in Int32
  BY ThreadsAssumption DEF Wrap, Int32

LEMMA PointsType ==
  ASSUME TypeOK, NEW t \in Threads, NEW b \in Blocks \cup {NULL}, Points(t, b)
  PROVE  /\ g_active_transaction' \in Blocks \cup {NULL}
         /\ stale' \in [Threads -> BOOLEAN]
         /\ raced' \in BOOLEAN
  BY DEF TypeOK, Points, PointerPlaces

\* One step of one thread keeps the types.
LEMMA TypeStep ==
  ASSUME TypeOK, NEW t \in Threads, Step(t)
  PROVE  TypeOK'
  <1> USE ThreadsAssumption DEF TypeOK, Places, PointerPlaces, Goes, Moves, handleVars
  <1>1. CASE BuildDocumentId(t)
    <2>1. g_collection_counter' \in Int32 /\ ids' \in Seq(Int32)
      BY <1>1, WrapType, AppendProperties DEF BuildDocumentId
    <2> QED
      BY <1>1, <2>1 DEF BuildDocumentId, pointerVars, loopVars
  <1>2. ASSUME NEW v \in Values, StartRaise(t, v) PROVE TypeOK'
    <2>1. v \in 0..Int32Max
      BY <1>2 DEF StartRaise
    <2>2. Raised(v) \in 0..Int32Max
      BY <2>1 DEF Raised
    <2> QED
      BY <1>2, <2>1, <2>2 DEF StartRaise, pointerVars, loopVars
  <1>3. CASE Exchange(t)
    <2>1. value[t] \in 0..Int32Max /\ value[t] \in Int32 /\ 0 \in Int32 /\ 0 \in 0..Int32Max
      BY DEF Int32
    <2>2. Raised(value[t]) \in 0..Int32Max
      BY <2>1 DEF Raised
    <2>3. UNCHANGED <<pointerVars, ids, wrapped, resets>> /\ g_collection_counter' \in Int32
      BY <1>3, <2>1 DEF Exchange, Exchanged
    <2> DEFINE read == IF g_collection_counter = expected[t] THEN expected[t] ELSE g_collection_counter
    <2>4. CASE Enough(t, read)
      <3>1. /\ pc' = [pc EXCEPT ![t] = "idle"]
            /\ floor' = Raised(value[t])
            /\ value' = [value EXCEPT ![t] = 0]
            /\ expected' = [expected EXCEPT ![t] = 0]
        BY <1>3, <2>4 DEF Exchange, Reread
      <3> QED
        BY <2>1, <2>2, <2>3, <3>1 DEF pointerVars
    <2>5. CASE ~Enough(t, read)
      <3>1. UNCHANGED <<pc, floor, value>> /\ expected' = [expected EXCEPT ![t] = read]
        BY <1>3, <2>5 DEF Exchange, Reread
      <3>2. read \in Int32
        OBVIOUS
      <3> QED
        BY <2>3, <3>1, <3>2 DEF pointerVars
    <2> QED
      BY <2>4, <2>5
  <1>4. CASE PutLooks(t)
    BY <1>4 DEF PutLooks, counterVars, loopVars
  <1>5. CASE PutTests(t)
    BY <1>5 DEF PutTests, counterVars, loopVars
  <1>6. CASE BeginLooks(t)
    BY <1>6 DEF BeginLooks, counterVars, loopVars
  <1>7. CASE BeginTests(t)
    BY <1>7 DEF BeginTests, counterVars, loopVars
  <1>8. CASE BeginAllocates(t)
    BY <1>8 DEF BeginAllocates, counterVars, loopVars
  <1>9. CASE BeginInstalls(t)
    BY <1>9, PointsType DEF BeginInstalls, counterVars, loopVars
  <1>10. CASE EndStarts(t)
    BY <1>10 DEF EndStarts, counterVars, pointerVars, loopVars
  <1>11. CASE EndOwns(t)
    BY <1>11 DEF EndOwns, counterVars, pointerVars, loopVars
  <1>12. CASE EndWrites(t)
    BY <1>12 DEF EndWrites, counterVars, loopVars
  <1>13. CASE EndClears(t)
    BY <1>13, PointsType DEF EndClears, LiveAfterEnd, counterVars, loopVars
  <1>14. CASE FreeLooks(t)
    BY <1>14 DEF FreeLooks, counterVars, pointerVars, loopVars
  <1>15. CASE FreeClears(t)
    BY <1>15, PointsType DEF FreeClears, counterVars, loopVars
  <1>16. CASE FreeFrees(t)
    BY <1>16 DEF FreeFrees, counterVars, loopVars
  <1>17. CASE Forget(t)
    BY <1>17 DEF Forget, counterVars, loopVars
  <1>18. CASE UnregisterLooks(t)
    BY <1>18 DEF UnregisterLooks, counterVars, loopVars
  <1>19. CASE UnregisterFrees(t)
    BY <1>19 DEF UnregisterFrees, counterVars, loopVars
  <1>20. CASE UnregisterClears(t)
    BY <1>20, PointsType DEF UnregisterClears, counterVars, loopVars
  <1>21. CASE UnregisterResets(t)
    <2>1. 0 \in Int32 /\ <<>> \in Seq(Int32) /\ 0 \in 0..Int32Max
      BY DEF Int32
    <2> QED
      BY <1>21, <2>1 DEF UnregisterResets, pointerVars, loopVars
  <1>22. CASE BeginFails(t)
    BY <1>22 DEF BeginFails, counterVars, loopVars
  <1> QED
    BY <1>1, <1>2, <1>3, <1>4, <1>5, <1>6, <1>7, <1>8, <1>9, <1>10, <1>11, <1>12, <1>13, <1>14,
       <1>15, <1>16, <1>17, <1>18, <1>19, <1>20, <1>21, <1>22
    DEF Step

\* Every variable has its type in every reachable state.
THEOREM TypeCorrect == Spec => []TypeOK
  <1>1. 0 \in Int32 /\ 0 \in 0..Int32Max /\ 0 \in 0..MaxResets /\ <<>> \in Seq(Int32)
    BY ThreadsAssumption DEF Int32
  <1>2. Init => TypeOK
    BY <1>1 DEF Init, TypeOK, Places
  <1>3. TypeOK /\ [Next]_vars => TypeOK'
    <2> SUFFICES ASSUME TypeOK, [Next]_vars PROVE TypeOK'
      OBVIOUS
    <2>1. CASE UNCHANGED vars
      BY <2>1 DEF vars, counterVars, pointerVars, handleVars, loopVars, TypeOK
    <2>2. CASE ProcessEnds
      BY <1>1, <2>2 DEF ProcessEnds, TypeOK, Places
    <2> QED
      BY <2>1, <2>2, TypeStep DEF Next
  <1> QED
    BY <1>2, <1>3, PTL DEF Spec
-----------------------------------------------------------------------------
(* The counter *)

\* What makes the counter's promises inductive: no id is above it, and a loop
\* only goes on while what it read is below its value.
CounterInv ==
  /\ IdsDistinct
  /\ RaisesHold
  /\ ~wrapped => \A i \in DOMAIN ids : ids[i] <= g_collection_counter
  /\ \A t \in Threads : pc[t] = "raise" => expected[t] < value[t]

\* An id is taken: it is the new counter, above all ids before.
LEMMA TakeKeepsCounter ==
  ASSUME TypeOK, CounterInv, NEW t \in Threads, BuildDocumentId(t)
  PROVE  CounterInv'
  <1> DEFINE id == g_collection_counter + 1
  <1>1. /\ Len(ids) \in Nat
        /\ DOMAIN ids = 1..Len(ids)
        /\ \A i \in 1..Len(ids) : ids[i] \in Int
    BY Int32IsInt, ElementOfSeq, LenProperties DEF TypeOK
  <1>2. g_collection_counter \in Int /\ floor \in Int
    BY DEF TypeOK, Int32
  <1>3. \A u \in Threads : pc'[u] = "raise" => expected'[u] < value'[u]
    BY DEF CounterInv, BuildDocumentId, Goes, loopVars, TypeOK
  <1>4. ASSUME ~wrapped'
        PROVE  /\ \A i, j \in DOMAIN ids' : i < j => ids'[i] < ids'[j]
               /\ floor' <= g_collection_counter'
               /\ \A i \in DOMAIN ids' : ids'[i] <= g_collection_counter'
    <2>1. ~wrapped /\ g_collection_counter # Int32Max
      BY <1>4 DEF BuildDocumentId, TypeOK
    <2>2. Wrap(id) = id
      BY <2>1, ThreadsAssumption DEF Wrap, TypeOK, Int32
    <2>3. g_collection_counter' = id /\ ids' = Append(ids, id) /\ floor' = floor
      BY <2>2 DEF BuildDocumentId
    <2>4. /\ DOMAIN ids' = 1..(Len(ids) + 1)
          /\ ids'[Len(ids) + 1] = id
          /\ \A i \in 1..Len(ids) : ids'[i] = ids[i]
      BY <2>3, AppendProperties, LenProperties DEF TypeOK
    <2>5. /\ \A i, j \in 1..Len(ids) : i < j => ids[i] < ids[j]
          /\ \A i \in 1..Len(ids) : ids[i] <= g_collection_counter
          /\ floor <= g_collection_counter
      BY <1>1, <2>1 DEF CounterInv, IdsDistinct, RaisesHold
    <2>6. \A i \in 1..Len(ids) : ids[i] < id
      BY <1>1, <1>2, <2>5
    <2>7. ASSUME NEW i \in DOMAIN ids', NEW j \in DOMAIN ids', i < j PROVE ids'[i] < ids'[j]
      <3>1. i \in 1..Len(ids)
        BY <1>1, <2>4, <2>7
      <3>2. j \in 1..Len(ids) \/ j = Len(ids) + 1
        BY <1>1, <2>4
      <3> QED
        BY <2>4, <2>5, <2>6, <2>7, <3>1, <3>2
    <2>8. ASSUME NEW i \in DOMAIN ids' PROVE ids'[i] <= id
      <3>1. i \in 1..Len(ids) \/ i = Len(ids) + 1
        BY <1>1, <2>4
      <3> QED
        BY <1>1, <1>2, <2>4, <2>6, <3>1
    <2> QED
      BY <1>2, <2>3, <2>5, <2>7, <2>8
  <1> QED
    BY <1>3, <1>4 DEF CounterInv, IdsDistinct, RaisesHold

\* The counter rises or stays under what only raises it.
LEMMA RiseKeepsIds ==
  ASSUME TypeOK, CounterInv, ids' = ids, wrapped' = wrapped,
         g_collection_counter' \in Int32,
         g_collection_counter <= g_collection_counter'
  PROVE  /\ IdsDistinct'
         /\ (~wrapped => \A i \in DOMAIN ids : ids[i] <= g_collection_counter)'
         /\ ~wrapped => floor <= g_collection_counter'
  <1>1. \A i \in DOMAIN ids : ids[i] \in Int
    BY Int32IsInt, ElementOfSeq, LenProperties DEF TypeOK
  <1>2. g_collection_counter \in Int /\ g_collection_counter' \in Int /\ floor \in Int
    BY Int32IsInt DEF TypeOK
  <1>3. ASSUME ~wrapped, NEW i \in DOMAIN ids PROVE ids[i] <= g_collection_counter'
    <2>1. ids[i] <= g_collection_counter /\ ids[i] \in Int
      BY <1>1, <1>3 DEF CounterInv
    <2> QED
      BY <1>2, <2>1
  <1>4. ~wrapped => floor <= g_collection_counter'
    BY <1>2 DEF CounterInv, RaisesHold
  <1>5. IdsDistinct'
    BY DEF CounterInv, IdsDistinct
  <1> QED
    BY <1>3, <1>4, <1>5

\* A loop starts, or finds nothing to do.
LEMMA StartKeepsCounter ==
  ASSUME TypeOK, CounterInv, NEW t \in Threads, NEW v \in Values, StartRaise(t, v)
  PROVE  CounterInv'
  <1>1. ids' = ids /\ wrapped' = wrapped /\ g_collection_counter' = g_collection_counter
    BY DEF StartRaise
  <1>2. g_collection_counter \in Int /\ v \in Int /\ g_collection_counter' \in Int32
    BY <1>1, ThreadsAssumption DEF TypeOK, Int32
  <1>3. /\ IdsDistinct'
        /\ (~wrapped => \A i \in DOMAIN ids : ids[i] <= g_collection_counter)'
        /\ ~wrapped => floor <= g_collection_counter'
    BY <1>1, <1>2, RiseKeepsIds
  <1>4. CASE v <= g_collection_counter
    BY <1>1, <1>3, <1>4 DEF StartRaise, Raised, CounterInv, RaisesHold, loopVars
  <1>5. CASE ~(v <= g_collection_counter)
    <2>1. g_collection_counter < v
      BY <1>2, <1>5
    <2>2. /\ floor' = floor
          /\ \A u \in Threads : u # t => /\ pc'[u] = pc[u]
                                        /\ value'[u] = value[u]
                                        /\ expected'[u] = expected[u]
          /\ value'[t] = v /\ expected'[t] = g_collection_counter
      BY <1>5 DEF StartRaise, Goes, TypeOK
    <2>3. \A u \in Threads : pc'[u] = "raise" => expected'[u] < value'[u]
      BY <2>1, <2>2 DEF CounterInv
    <2> QED
      BY <1>1, <1>3, <2>2, <2>3 DEF CounterInv, RaisesHold
  <1> QED
    BY <1>4, <1>5

\* One turn of a loop: the exchange only succeeds where the value is above the
\* counter, and a loop that ends has just seen the counter at or above its value.
LEMMA ExchangeKeepsCounter ==
  ASSUME TypeOK, CounterInv, NEW t \in Threads, Exchange(t)
  PROVE  CounterInv'
  <1>1. ids' = ids /\ wrapped' = wrapped /\ pc[t] = "raise" /\ expected[t] < value[t]
    BY DEF Exchange, CounterInv
  <1>2. /\ g_collection_counter \in Int32 /\ value[t] \in Int32
        /\ expected[t] \in Int /\ value[t] \in Int /\ g_collection_counter \in Int
    BY ThreadsAssumption DEF TypeOK, Int32
  <1>3. CASE g_collection_counter = expected[t]
    <2>1. /\ g_collection_counter' = value[t]
          /\ ~Enough(t, expected[t])
      BY <1>1, <1>2, <1>3 DEF Exchange, Exchanged, Enough
    <2>2. floor' = floor /\ pc' = pc /\ value' = value /\ expected' = expected
      BY <1>3, <2>1 DEF Exchange, TypeOK
    <2>3. g_collection_counter' \in Int32 /\ g_collection_counter <= g_collection_counter'
      BY <1>1, <1>2, <1>3, <2>1
    <2> QED
      BY <1>1, <2>2, <2>3, RiseKeepsIds DEF CounterInv, RaisesHold
  <1>4. CASE g_collection_counter # expected[t]
    <2>1. g_collection_counter' = g_collection_counter
      BY <1>4 DEF Exchange, Exchanged
    <2>2. /\ IdsDistinct'
          /\ (~wrapped => \A i \in DOMAIN ids : ids[i] <= g_collection_counter)'
          /\ ~wrapped => floor <= g_collection_counter'
      BY <1>1, <1>2, <2>1, RiseKeepsIds
    <2>3. CASE value[t] <= g_collection_counter
      <3>1. /\ floor' = Raised(value[t])
            /\ \A u \in Threads : pc'[u] = "raise" =>
                 /\ u # t /\ pc[u] = "raise"
                 /\ value'[u] = value[u] /\ expected'[u] = expected[u]
        BY <1>4, <2>3 DEF Exchange, Reread, Enough, TypeOK
      <3>2. ~wrapped => floor' <= g_collection_counter
        BY <2>1, <2>2, <2>3, <3>1 DEF Raised
      <3> QED
        BY <1>1, <2>1, <2>2, <3>1, <3>2 DEF CounterInv, RaisesHold
    <2>4. CASE ~(value[t] <= g_collection_counter)
      <3>1. g_collection_counter < value[t]
        BY <1>2, <2>4
      <3>2. /\ floor' = floor /\ pc' = pc /\ value' = value
            /\ expected'[t] = g_collection_counter
            /\ \A u \in Threads : u # t => expected'[u] = expected[u]
        BY <1>4, <2>4 DEF Exchange, Reread, Enough, TypeOK
      <3>3. \A u \in Threads : pc'[u] = "raise" => expected'[u] < value'[u]
        BY <3>1, <3>2 DEF CounterInv
      <3> QED
        BY <1>1, <2>1, <2>2, <3>2, <3>3 DEF CounterInv, RaisesHold
    <2> QED
      BY <2>3, <2>4
  <1> QED
    BY <1>3, <1>4

\* Steps that leave the counter, its history and the loops alone.
LEMMA OthersKeepCounter ==
  ASSUME CounterInv, UNCHANGED <<counterVars, loopVars>>,
         \A u \in Threads : pc'[u] = "raise" => pc[u] = "raise"
  PROVE  CounterInv'
  BY DEF CounterInv, IdsDistinct, RaisesHold, counterVars, loopVars

LEMMA CounterStep ==
  ASSUME TypeOK, CounterInv, NEW t \in Threads, Step(t)
  PROVE  CounterInv'
  <1> USE DEF Goes, Moves, TypeOK
  <1>1. CASE PutLooks(t)
    BY <1>1, OthersKeepCounter DEF PutLooks
  <1>2. CASE PutTests(t)
    BY <1>2, OthersKeepCounter DEF PutTests
  <1>3. CASE BeginLooks(t)
    BY <1>3, OthersKeepCounter DEF BeginLooks
  <1>4. CASE BeginTests(t)
    BY <1>4, OthersKeepCounter DEF BeginTests
  <1>5. CASE BeginAllocates(t)
    BY <1>5, OthersKeepCounter DEF BeginAllocates
  <1>6. CASE BeginInstalls(t)
    BY <1>6, OthersKeepCounter DEF BeginInstalls
  <1>7. CASE EndStarts(t)
    BY <1>7, OthersKeepCounter DEF EndStarts
  <1>8. CASE EndOwns(t)
    BY <1>8, OthersKeepCounter DEF EndOwns
  <1>9. CASE EndWrites(t)
    BY <1>9, OthersKeepCounter DEF EndWrites
  <1>10. CASE EndClears(t)
    BY <1>10, OthersKeepCounter DEF EndClears
  <1>11. CASE FreeLooks(t)
    BY <1>11, OthersKeepCounter DEF FreeLooks
  <1>12. CASE FreeClears(t)
    BY <1>12, OthersKeepCounter DEF FreeClears
  <1>13. CASE FreeFrees(t)
    BY <1>13, OthersKeepCounter DEF FreeFrees
  <1>14. CASE Forget(t)
    BY <1>14, OthersKeepCounter DEF Forget
  <1>15. CASE UnregisterLooks(t)
    BY <1>15, OthersKeepCounter DEF UnregisterLooks
  <1>16. CASE UnregisterFrees(t)
    BY <1>16, OthersKeepCounter DEF UnregisterFrees
  <1>17. CASE UnregisterClears(t)
    BY <1>17, OthersKeepCounter DEF UnregisterClears
  <1>18. CASE UnregisterResets(t)
    <2>1. \A u \in Threads : pc'[u] = "raise" => pc[u] = "raise"
      BY <1>18 DEF UnregisterResets
    <2> QED
      BY <1>18, <2>1 DEF UnregisterResets, CounterInv, IdsDistinct, RaisesHold, loopVars
  <1>19. CASE BeginFails(t)
    BY <1>19, OthersKeepCounter DEF BeginFails
  <1> QED
    BY <1>1, <1>2, <1>3, <1>4, <1>5, <1>6, <1>7, <1>8, <1>9, <1>10, <1>11, <1>12, <1>13, <1>14,
       <1>15, <1>16, <1>17, <1>18, <1>19, TakeKeepsCounter, StartKeepsCounter, ExchangeKeepsCounter
    DEF Step

LEMMA CounterCorrect == Spec => []CounterInv
  <1>1. Init => CounterInv
    BY DEF Init, CounterInv, IdsDistinct, RaisesHold
  <1>2. TypeOK /\ CounterInv /\ [Next]_vars => CounterInv'
    <2> SUFFICES ASSUME TypeOK, CounterInv, [Next]_vars PROVE CounterInv'
      OBVIOUS
    <2>1. CASE UNCHANGED vars
      BY <2>1, OthersKeepCounter DEF vars
    <2>2. CASE ProcessEnds
      BY <2>2 DEF ProcessEnds, CounterInv, IdsDistinct, RaisesHold
    <2> QED
      BY <2>1, <2>2, CounterStep DEF Next
  <1> QED
    BY <1>1, <1>2, TypeCorrect, PTL DEF Spec

\* Ids are distinct and rise, from however many threads they are taken.
THEOREM IdsAlwaysDistinct == Spec => []IdsDistinct
  <1>1. CounterInv => IdsDistinct
    BY DEF CounterInv
  <1> QED
    BY <1>1, CounterCorrect, PTL

\* An id that a file holds is not given again, once the file was read.
THEOREM RaisesAlwaysHold == Spec => []RaisesHold
  <1>1. CounterInv => RaisesHold
    BY DEF CounterInv
  <1> QED
    BY <1>1, CounterCorrect, PTL
-----------------------------------------------------------------------------
(* The pointer *)

\* The transaction the pointer leads to is nobody's own: a write of the pointer
\* loses none.
NoneBegun == \A u \in Threads : Begun(u) => txn[u] # g_active_transaction

\* What a thread knows where it is.  Unless another thread wrote the pointer
\* since its call read it, the pointer is what it read, and no write that the
\* call is about to make loses a transaction.
CallOK(t) ==
  /\ stranded[t] => txn[t] # NULL
  /\ pc[t] \in {"test", "install"} => txn[t] = NULL
  /\ pc[t] \in {"unpoint", "free"} => txn[t] # NULL
  /\ pc[t] = "free" /\ ~stranded[t] => txn[t] # g_active_transaction
  /\ ~stale[t] =>
       /\ pc[t] \in {"put", "test", "release"} => seen[t] = g_active_transaction
       /\ pc[t] = "end" => txn[t] = g_active_transaction
       /\ pc[t] \in {"install", "publish", "clear", "unpoint", "unset"} => NoneBegun

CallsOK == ~misused => \A t \in Threads : CallOK(t)

PointerInv == DanglesInWindow /\ HandlesLive /\ EndsOfItsOwn /\ CallsOK

\* A step that writes neither the pointer nor a handle only has to leave its own
\* call in order.
LEMMA MovesKeepPointer ==
  ASSUME TypeOK, PointerInv, ~misused, NEW t \in Threads,
         UNCHANGED <<g_active_transaction, handleVars, raced, misused>>,
         \A u \in Threads : u # t => pc'[u] = pc[u] /\ seen'[u] = seen[u] /\ stale'[u] = stale[u],
         pc[t] \notin {"publish", "unpoint", "free", "unset"},
         CallOK(t)'
  PROVE  PointerInv'
  <1>1. DanglesInWindow'
    BY DEF PointerInv, DanglesInWindow, InWindow, handleVars
  <1>2. HandlesLive'
    BY DEF PointerInv, HandlesLive, Holds, handleVars
  <1>3. \A u \in Threads : Begun(u)' => Begun(u)
    BY DEF Begun, Holds, handleVars
  <1>4. EndsOfItsOwn'
    BY <1>3 DEF PointerInv, EndsOfItsOwn, handleVars
  <1>5. NoneBegun => NoneBegun'
    BY <1>3 DEF NoneBegun, handleVars
  <1>6. ASSUME NEW u \in Threads, u # t PROVE CallOK(u)'
    BY <1>5, <1>6 DEF PointerInv, CallsOK, CallOK, handleVars
  <1> QED
    BY <1>1, <1>2, <1>4, <1>6 DEF PointerInv, CallsOK

\* The pointer is set back on a view that is not stale, or the step is a race;
\* what the others read is stale after it.
LEMMA ClearsKeepPointer ==
  ASSUME TypeOK, PointerInv, ~misused, NEW t \in Threads, Points(t, NULL),
         UNCHANGED <<handleVars, misused>>,
         pc[t] \in {"clear", "unpoint", "unset"},
         pc'[t] \in {"idle", "free", "reset"},
         pc[t] = "unpoint" <=> pc'[t] = "free",
         \A u \in Threads : u # t => pc'[u] = pc[u]
  PROVE  PointerInv'
  <1>1. /\ g_active_transaction' = NULL
        /\ raced' = (raced \/ stale[t])
        /\ \A u \in Threads : u # t => stale'[u] = (stale[u] \/ pc[u] \in PointerPlaces)
    BY DEF Points
  <1>2. DanglesInWindow'
    BY <1>1 DEF DanglesInWindow
  <1>3. HandlesLive'
    BY DEF PointerInv, HandlesLive, Holds, handleVars
  <1>4. EndsOfItsOwn'
    <2> SUFFICES ASSUME ~raced', NEW u \in Threads, Begun(u)' PROVE FALSE
      BY DEF EndsOfItsOwn
    <2>1. Begun(u)
      BY DEF Begun, Holds, handleVars
    <2>2. txn[u] = g_active_transaction
      BY <1>1, <2>1 DEF PointerInv, EndsOfItsOwn
    <2>3. NoneBegun
      BY <1>1 DEF PointerInv, CallsOK, CallOK
    <2> QED
      BY <2>1, <2>2, <2>3 DEF NoneBegun
  <1>5. \A u \in Threads : ~stale'[u] => pc'[u] \notin PointerPlaces
    BY <1>1 DEF PointerPlaces
  <1>6. ASSUME NEW u \in Threads PROVE CallOK(u)'
    <2>1. /\ stranded[u] => txn[u] # NULL
          /\ pc'[u] \in {"test", "install"} => txn[u] = NULL
      BY DEF PointerInv, CallsOK, CallOK
    <2>2. pc'[u] \in {"unpoint", "free"} => txn[u] # NULL
      BY DEF PointerInv, CallsOK, CallOK
    <2> QED
      BY <1>1, <1>5, <2>1, <2>2 DEF CallOK, handleVars, PointerPlaces
  <1> QED
    BY <1>2, <1>3, <1>4, <1>6 DEF PointerInv, CallsOK

\* A begin or a put that goes on, or not, after it has read the flag.
LEMMA PutTestsKeepPointer ==
  ASSUME TypeOK, PointerInv, NEW t \in Threads, PutTests(t)
  PROVE  PointerInv'
  <1>1. /\ ~misused /\ pc[t] = "put" /\ pc'[t] \in {"take", "idle"}
        /\ UNCHANGED <<g_active_transaction, handleVars, raced, misused>>
        /\ \A u \in Threads : u # t => pc'[u] = pc[u] /\ seen'[u] = seen[u] /\ stale'[u] = stale[u]
    BY DEF PutTests, Moves, Goes, TypeOK
  <1>2. CallOK(t)'
    BY <1>1 DEF PointerInv, CallsOK, CallOK, handleVars
  <1> QED
    BY <1>1, <1>2, MovesKeepPointer

\* A block that is not live has no holder, and one whose flag is down is nobody's
\* transaction: a begin that goes on may write the pointer.
LEMMA BeginTestsKeepPointer ==
  ASSUME TypeOK, PointerInv, NEW t \in Threads, BeginTests(t)
  PROVE  PointerInv'
  <1>1. /\ ~misused /\ pc[t] = "test" /\ seen[t] \in Blocks
        /\ UNCHANGED <<g_active_transaction, handleVars, raced, misused>>
        /\ \A u \in Threads : u # t => seen'[u] = seen[u]
    <2>1. pc[t] = "test" /\ seen[t] \in Blocks
      BY DEF BeginTests, TypeOK
    <2>2. FlagsOf(seen[t]) # {}
      BY DEF FlagsOf
    <2> QED
      BY <2>1, <2>2 DEF BeginTests, Moves, TypeOK
  <1>2. PICK flag \in FlagsOf(seen[t]) :
          IF flag THEN Moves(t, "test", "idle") /\ stale' = [stale EXCEPT ![t] = FALSE]
          ELSE Moves(t, "test", "install") /\ UNCHANGED stale
    BY DEF BeginTests, Refuses
  <1>3. flag \in BOOLEAN
    BY <1>1, <1>2 DEF FlagsOf, TypeOK
  <1>4. CASE flag = TRUE
    <2>1. pc'[t] = "idle" /\ \A u \in Threads : u # t => pc'[u] = pc[u] /\ stale'[u] = stale[u]
      BY <1>2, <1>4 DEF Moves, Goes, TypeOK
    <2>2. CallOK(t)'
      BY <1>1, <2>1 DEF PointerInv, CallsOK, CallOK, handleVars
    <2> QED
      BY <1>1, <2>1, <2>2, MovesKeepPointer
  <1>5. CASE flag = FALSE
    <2>1. /\ pc'[t] = "install" /\ stale' = stale
          /\ \A u \in Threads : u # t => pc'[u] = pc[u]
      BY <1>2, <1>5 DEF Moves, Goes, TypeOK
    <2>2. ~live[seen[t]] \/ ~active[seen[t]]
      BY <1>1, <1>2, <1>5 DEF FlagsOf, TypeOK
    <2>3. ASSUME ~stale[t], NEW u \in Threads, Begun(u) PROVE txn[u] # g_active_transaction
      <3>1. live[txn[u]] /\ active[txn[u]]
        BY <1>1, <2>3 DEF PointerInv, HandlesLive, Begun
      <3>2. seen[t] = g_active_transaction
        BY <1>1, <2>3 DEF PointerInv, CallsOK, CallOK
      <3> QED
        BY <2>2, <3>1, <3>2
    <2>4. ~stale'[t] => NoneBegun'
      BY <1>1, <2>1, <2>3 DEF NoneBegun, Begun, Holds, handleVars
    <2>5. CallOK(t)'
      BY <1>1, <2>1, <2>4 DEF PointerInv, CallsOK, CallOK, handleVars
    <2> QED
      BY <1>1, <2>1, <2>5, MovesKeepPointer
  <1> QED
    BY <1>3, <1>4, <1>5

\* A call that reads the pointer: it is not stale then.
LEMMA LooksKeepPointer ==
  ASSUME TypeOK, PointerInv, NEW t \in Threads,
         PutLooks(t) \/ BeginLooks(t) \/ UnregisterLooks(t)
  PROVE  PointerInv'
  <1>1. /\ ~misused /\ pc[t] = "idle"
        /\ UNCHANGED <<g_active_transaction, handleVars, raced, misused>>
        /\ \A u \in Threads : u # t => pc'[u] = pc[u] /\ seen'[u] = seen[u] /\ stale'[u] = stale[u]
        /\ pc'[t] \in {"put", "test", "install", "release", "reset"}
        /\ pc'[t] \in {"put", "test", "release"} => seen'[t] = g_active_transaction
        /\ pc'[t] = "install" => g_active_transaction = NULL
        /\ pc'[t] \in {"test", "install"} => txn[t] = NULL
    BY DEF PutLooks, BeginLooks, UnregisterLooks, Moves, Goes, TypeOK
  <1>2. pc'[t] = "install" => NoneBegun'
    BY <1>1 DEF NoneBegun, Begun, Holds, handleVars
  <1>3. CallOK(t)'
    BY <1>1, <1>2 DEF PointerInv, CallsOK, CallOK, handleVars
  <1> QED
    BY <1>1, <1>3, MovesKeepPointer

\* A begin without memory, and the reads of the calls that end or free a
\* transaction: the block is the holder's alone.
LEMMA ReadsKeepPointer ==
  ASSUME TypeOK, PointerInv, NEW t \in Threads,
         BeginFails(t) \/ EndStarts(t) \/ EndOwns(t) \/ FreeLooks(t)
  PROVE  PointerInv'
  <1>1. /\ ~misused /\ pc[t] \in {"install", "idle", "own"}
        /\ UNCHANGED <<g_active_transaction, handleVars, raced, misused>>
        /\ \A u \in Threads : u # t => pc'[u] = pc[u] /\ seen'[u] = seen[u] /\ stale'[u] = stale[u]
        /\ pc'[t] \in {"idle", "own", "end", "unpoint", "free"}
        /\ pc'[t] = "end" => txn[t] = g_active_transaction
        /\ pc'[t] \in {"unpoint", "free"} => Holds(t)
        /\ pc'[t] = "unpoint" => txn[t] = g_active_transaction
        /\ pc'[t] = "free" => txn[t] # g_active_transaction
    BY DEF BeginFails, EndStarts, EndOwns, FreeLooks, OwnActive, Moves, Goes, TypeOK, pointerVars
  <1>2. ASSUME pc'[t] = "unpoint", NEW u \in Threads, Begun(u)' PROVE txn[u] # g_active_transaction
    <2>1. u # t /\ Holds(u) /\ Holds(t)
      BY <1>1, <1>2 DEF Begun, Holds, handleVars
    <2> QED
      BY <1>1, <1>2, <2>1 DEF PointerInv, HandlesLive
  <1>3. pc'[t] = "unpoint" => NoneBegun'
    BY <1>1, <1>2 DEF NoneBegun, handleVars
  <1>4. CallOK(t)'
    BY <1>1, <1>3 DEF PointerInv, CallsOK, CallOK, Holds, handleVars
  <1> QED
    BY <1>1, <1>4, MovesKeepPointer

LEMMA ClearStepsKeepPointer ==
  ASSUME TypeOK, PointerInv, NEW t \in Threads,
         EndClears(t) \/ FreeClears(t) \/ UnregisterClears(t)
  PROVE  PointerInv'
  <1>1. /\ ~misused /\ Points(t, NULL)
        /\ UNCHANGED <<handleVars, misused>>
        /\ pc[t] \in {"clear", "unpoint", "unset"}
        /\ pc'[t] \in {"idle", "free", "reset"}
        /\ pc[t] = "unpoint" <=> pc'[t] = "free"
        /\ \A u \in Threads : u # t => pc'[u] = pc[u]
    BY DEF EndClears, FreeClears, UnregisterClears, LiveAfterEnd, Moves, Goes, TypeOK, handleVars
  <1> QED
    BY <1>1, ClearsKeepPointer

\* A step that keeps the pointer and begins no transaction.
LEMMA NoMoreBegun ==
  ASSUME PointerInv, ~misused, UNCHANGED <<g_active_transaction, raced>>,
         \A u \in Threads : Begun(u)' => Begun(u) /\ txn'[u] = txn[u]
  PROVE  EndsOfItsOwn' /\ (NoneBegun => NoneBegun')
  BY DEF PointerInv, EndsOfItsOwn, NoneBegun

\* A block that is allocated is nobody else's, and not begun with yet.
LEMMA AllocatesKeepPointer ==
  ASSUME TypeOK, PointerInv, NEW t \in Threads, BeginAllocates(t)
  PROVE  PointerInv'
  <1>1. /\ ~misused /\ ~misused' /\ pc[t] = "install" /\ pc'[t] = "publish"
        /\ UNCHANGED <<g_active_transaction, raced, seen, stale, stranded>>
        /\ \A u \in Threads : u # t => pc'[u] = pc[u]
        /\ txn[t] = NULL /\ ~stranded[t]
    BY DEF BeginAllocates, Moves, Goes, TypeOK, PointerInv, CallsOK, CallOK
  <1> PICK b \in {c \in Blocks : ~live[c]} :
        /\ live' = [live EXCEPT ![b] = TRUE]
        /\ active' = [active EXCEPT ![b] = TRUE]
        /\ txn' = [txn EXCEPT ![t] = b]
    BY DEF BeginAllocates
  <1>2. /\ b \in Blocks /\ ~live[b] /\ b # NULL
        /\ live'[b] /\ txn'[t] = b
        /\ \A c \in Blocks : c # b => live'[c] = live[c] /\ active'[c] = active[c]
        /\ \A u \in Threads : u # t => txn'[u] = txn[u]
    BY ThreadsAssumption DEF TypeOK
  <1>3. ASSUME NEW u \in Threads, Holds(u)
        PROVE  u # t /\ txn[u] \in Blocks /\ txn[u] # b /\ live[txn[u]]
    <2>1. live[txn[u]]
      BY <1>1, <1>3 DEF PointerInv, HandlesLive
    <2>2. u # t /\ txn[u] \in Blocks
      BY <1>1, <1>3 DEF Holds, TypeOK
    <2> QED
      BY <1>2, <2>1, <2>2
  <1>4. \A u \in Threads : u # t => (Holds(u)' <=> Holds(u))
    BY <1>1, <1>2 DEF Holds
  <1>5. DanglesInWindow'
    BY <1>1, <1>2 DEF PointerInv, DanglesInWindow, InWindow, TypeOK
  <1>6. HandlesLive'
    <2>1. ASSUME NEW u \in Threads, Holds(u)' PROVE live'[txn'[u]]
      BY <1>2, <1>3, <1>4, <2>1
    <2>2. ASSUME NEW u \in Threads, NEW v \in Threads, Holds(u)', Holds(v)', txn'[v] = txn'[u]
          PROVE  v = u
      BY <1>1, <1>2, <1>3, <1>4, <2>2 DEF PointerInv, HandlesLive
    <2> QED
      BY <2>1, <2>2 DEF HandlesLive
  <1>7. ASSUME NEW u \in Threads, Begun(u)' PROVE Begun(u) /\ txn'[u] = txn[u]
    <2>1. u # t /\ Holds(u)
      BY <1>1, <1>4, <1>7 DEF Begun
    <2> QED
      BY <1>1, <1>2, <1>3, <1>7, <2>1 DEF Begun
  <1>8. EndsOfItsOwn' /\ (NoneBegun => NoneBegun')
    BY <1>1, <1>7, NoMoreBegun
  <1>9. ASSUME NEW u \in Threads PROVE CallOK(u)'
    BY <1>1, <1>2, <1>8 DEF PointerInv, CallsOK, CallOK
  <1> QED
    BY <1>5, <1>6, <1>8, <1>9 DEF PointerInv, CallsOK

\* The pointer is set to a block that is its holder's alone.
LEMMA InstallsKeepPointer ==
  ASSUME TypeOK, PointerInv, NEW t \in Threads, BeginInstalls(t)
  PROVE  PointerInv'
  <1> SUFFICES ASSUME ~misused' PROVE PointerInv'
    BY DEF PointerInv, DanglesInWindow, HandlesLive, EndsOfItsOwn, CallsOK
  <1>1. /\ ~misused /\ pc[t] = "publish" /\ pc'[t] = "idle" /\ ~stranded[t]
        /\ UNCHANGED <<handleVars, seen>>
        /\ \A u \in Threads : u # t => pc'[u] = pc[u]
        /\ g_active_transaction' = txn[t]
        /\ raced' = (raced \/ stale[t])
        /\ \A u \in Threads : u # t => stale'[u] = (stale[u] \/ pc[u] \in PointerPlaces)
    BY DEF BeginInstalls, Moves, Goes, Points, TypeOK
  <1>2. DanglesInWindow'
    BY <1>1 DEF PointerInv, HandlesLive, Holds, DanglesInWindow, handleVars
  <1>3. HandlesLive'
    BY <1>1 DEF PointerInv, HandlesLive, Holds, handleVars
  <1>4. EndsOfItsOwn'
    <2> SUFFICES ASSUME ~raced', NEW u \in Threads, Begun(u)', u # t PROVE FALSE
      BY <1>1 DEF EndsOfItsOwn, handleVars
    <2>1. Begun(u)
      BY <1>1 DEF Begun, Holds, handleVars
    <2>2. txn[u] = g_active_transaction
      BY <1>1, <2>1 DEF PointerInv, EndsOfItsOwn
    <2>3. NoneBegun
      BY <1>1 DEF PointerInv, CallsOK, CallOK
    <2> QED
      BY <2>1, <2>2, <2>3 DEF NoneBegun
  <1>5. \A u \in Threads : ~stale'[u] => pc'[u] \notin PointerPlaces
    BY <1>1 DEF PointerPlaces
  <1>6. ASSUME NEW u \in Threads PROVE CallOK(u)'
    <2>1. /\ stranded[u] => txn[u] # NULL
          /\ pc'[u] \in {"test", "install"} => txn[u] = NULL
          /\ pc'[u] \in {"unpoint", "free"} => txn[u] # NULL /\ u # t
      BY <1>1 DEF PointerInv, CallsOK, CallOK
    <2>2. pc'[u] = "free" /\ ~stranded[u] => txn[u] # txn[t]
      BY <1>1, <2>1 DEF PointerInv, HandlesLive, Holds
    <2> QED
      BY <1>1, <1>5, <2>1, <2>2 DEF CallOK, handleVars, PointerPlaces
  <1> QED
    BY <1>2, <1>3, <1>4, <1>6 DEF PointerInv, CallsOK

\* The flag goes down: the transaction of the caller is not begun any more.
LEMMA EndWritesKeepPointer ==
  ASSUME TypeOK, PointerInv, NEW t \in Threads, EndWrites(t)
  PROVE  PointerInv'
  <1>1. /\ ~misused /\ pc[t] = "end" /\ pc'[t] = "clear"
        /\ UNCHANGED <<g_active_transaction, raced, live, txn, stranded, seen, stale>>
        /\ \A u \in Threads : u # t => pc'[u] = pc[u]
        /\ txn[t] \in Blocks => ~active'[txn[t]]
        /\ \A b \in Blocks : active'[b] => active[b]
    BY DEF EndWrites, Moves, Goes, TypeOK
  <1>2. DanglesInWindow' /\ HandlesLive'
    BY <1>1 DEF PointerInv, DanglesInWindow, InWindow, HandlesLive, Holds
  <1>3. \A u \in Threads : Begun(u)' => Begun(u) /\ txn[u] \in Blocks /\ txn[u] # txn[t]
    BY <1>1 DEF Begun, Holds, TypeOK
  <1>4. EndsOfItsOwn' /\ (NoneBegun => NoneBegun')
    BY <1>1, <1>3, NoMoreBegun
  <1>5. txn[t] = g_active_transaction => NoneBegun'
    BY <1>1, <1>3 DEF NoneBegun
  <1>6. ASSUME ~misused, NEW u \in Threads PROVE CallOK(u)'
    BY <1>1, <1>4, <1>5, <1>6 DEF PointerInv, CallsOK, CallOK
  <1> QED
    BY <1>1, <1>2, <1>4, <1>6 DEF PointerInv, CallsOK

\* A block that its holder frees is nobody else's, and not pointed to.
LEMMA FreesKeepPointer ==
  ASSUME TypeOK, PointerInv, NEW t \in Threads, FreeFrees(t)
  PROVE  PointerInv'
  <1> SUFFICES ASSUME ~misused' PROVE PointerInv'
    BY DEF PointerInv, DanglesInWindow, HandlesLive, EndsOfItsOwn, CallsOK
  <1>1. /\ ~misused /\ pc[t] = "free" /\ pc'[t] = "idle" /\ ~stranded[t]
        /\ UNCHANGED <<g_active_transaction, raced, stranded, seen, stale>>
        /\ \A u \in Threads : u # t => pc'[u] = pc[u]
        /\ txn[t] \in Blocks /\ txn'[t] = NULL
        /\ \A u \in Threads : u # t => txn'[u] = txn[u]
        /\ \A b \in Blocks : b # txn[t] => live'[b] = live[b] /\ active'[b] = active[b]
    BY DEF FreeFrees, Moves, Goes, TypeOK, PointerInv, CallsOK, CallOK
  <1>2. Holds(t) /\ txn[t] # g_active_transaction
    BY <1>1 DEF PointerInv, CallsOK, CallOK, Holds
  <1>3. \A u \in Threads : Holds(u)' =>
          u # t /\ Holds(u) /\ txn'[u] = txn[u] /\ txn[u] \in Blocks /\ txn[u] # txn[t]
    BY <1>1, <1>2 DEF PointerInv, HandlesLive, Holds, TypeOK
  <1>4. DanglesInWindow'
    BY <1>1, <1>2 DEF PointerInv, DanglesInWindow, InWindow, TypeOK
  <1>5. HandlesLive'
    BY <1>1, <1>3 DEF PointerInv, HandlesLive
  <1>6. \A u \in Threads : Begun(u)' => Begun(u) /\ txn'[u] = txn[u]
    BY <1>1, <1>3 DEF Begun
  <1>7. EndsOfItsOwn' /\ (NoneBegun => NoneBegun')
    BY <1>1, <1>6, NoMoreBegun
  <1>8. ASSUME NEW u \in Threads PROVE CallOK(u)'
    BY <1>1, <1>7, <1>8 DEF PointerInv, CallsOK, CallOK
  <1> QED
    BY <1>4, <1>5, <1>7, <1>8 DEF PointerInv, CallsOK

LEMMA ForgetKeepsPointer ==
  ASSUME TypeOK, PointerInv, NEW t \in Threads, Forget(t)
  PROVE  PointerInv'
  <1>1. /\ ~misused /\ ~misused' /\ pc[t] = "idle"
        /\ UNCHANGED <<g_active_transaction, raced, live, active, seen, stale, pc>>
        /\ txn'[t] = NULL /\ ~stranded'[t]
        /\ \A u \in Threads : u # t => txn'[u] = txn[u] /\ stranded'[u] = stranded[u]
    BY DEF Forget, TypeOK
  <1>2. \A u \in Threads : Holds(u)' => u # t /\ Holds(u) /\ txn'[u] = txn[u]
    BY <1>1 DEF Holds
  <1>3. DanglesInWindow'
    BY <1>1 DEF PointerInv, DanglesInWindow, InWindow
  <1>4. HandlesLive'
    BY <1>1, <1>2 DEF PointerInv, HandlesLive
  <1>5. \A u \in Threads : Begun(u)' => Begun(u) /\ txn'[u] = txn[u]
    BY <1>1, <1>2 DEF Begun
  <1>6. EndsOfItsOwn' /\ (NoneBegun => NoneBegun')
    BY <1>1, <1>5, NoMoreBegun
  <1>7. ASSUME NEW u \in Threads PROVE CallOK(u)'
    BY <1>1, <1>6, <1>7 DEF PointerInv, CallsOK, CallOK
  <1> QED
    BY <1>3, <1>4, <1>6, <1>7 DEF PointerInv, CallsOK

\* free_collections frees what it found: whoever held it is stranded, and the
\* window is open in which the pointer may lead there.
LEMMA UnregisterFreesKeepsPointer ==
  ASSUME TypeOK, PointerInv, NEW t \in Threads, UnregisterFrees(t)
  PROVE  PointerInv'
  <1>1. /\ ~misused /\ pc[t] = "release" /\ pc'[t] = "unset"
        /\ UNCHANGED <<g_active_transaction, raced, txn, seen, stale>>
        /\ \A u \in Threads : u # t => pc'[u] = pc[u]
        /\ seen[t] \in Blocks
        /\ \A u \in Threads : stranded'[u] <=> (stranded[u] \/ txn[u] = seen[t])
        /\ \A b \in Blocks : b # seen[t] => live'[b] = live[b] /\ active'[b] = active[b]
    BY DEF UnregisterFrees, Moves, Goes, TypeOK
  <1>2. \A u \in Threads : Holds(u)' => Holds(u) /\ txn[u] \in Blocks /\ txn[u] # seen[t]
    BY <1>1 DEF Holds, TypeOK
  <1>3. DanglesInWindow'
    BY <1>1 DEF PointerInv, DanglesInWindow, InWindow, TypeOK
  <1>4. HandlesLive'
    BY <1>1, <1>2 DEF PointerInv, HandlesLive
  <1>5. \A u \in Threads : Begun(u)' => Begun(u) /\ txn'[u] = txn[u] /\ txn[u] # seen[t]
    BY <1>1, <1>2 DEF Begun
  <1>6. EndsOfItsOwn' /\ (NoneBegun => NoneBegun')
    BY <1>1, <1>5, NoMoreBegun
  <1>7. ~stale[t] => NoneBegun'
    BY <1>1, <1>5 DEF PointerInv, CallsOK, CallOK, NoneBegun
  <1>8. ASSUME NEW u \in Threads PROVE CallOK(u)'
    <2>1. stranded'[u] => txn[u] # NULL
      BY <1>1, ThreadsAssumption DEF PointerInv, CallsOK, CallOK
    <2> QED
      BY <1>1, <1>6, <1>7, <2>1 DEF PointerInv, CallsOK, CallOK
  <1> QED
    BY <1>3, <1>4, <1>6, <1>8 DEF PointerInv, CallsOK

\* Steps that have to do with the counter only.
LEMMA OthersKeepPointer ==
  ASSUME PointerInv, UNCHANGED pointerVars,
         \A u \in Threads : pc'[u] = pc[u] \/ (pc[u] \notin {"publish", "unpoint", "free", "unset"}
                                             /\ pc'[u] \in {"idle", "raise"})
  PROVE  PointerInv'
  <1>1. DanglesInWindow'
    BY DEF PointerInv, DanglesInWindow, InWindow, pointerVars, handleVars
  <1>2. HandlesLive'
    BY DEF PointerInv, HandlesLive, Holds, pointerVars, handleVars
  <1>3. \A u \in Threads : Begun(u)' => Begun(u)
    BY DEF Begun, Holds, pointerVars, handleVars
  <1>4. EndsOfItsOwn' /\ (NoneBegun => NoneBegun')
    BY <1>3 DEF PointerInv, EndsOfItsOwn, NoneBegun, pointerVars, handleVars
  <1>5. ASSUME ~misused, NEW u \in Threads PROVE CallOK(u)'
    BY <1>4, <1>5 DEF PointerInv, CallsOK, CallOK, pointerVars, handleVars
  <1> QED
    BY <1>1, <1>2, <1>4, <1>5 DEF PointerInv, CallsOK, pointerVars

LEMMA PointerStep ==
  ASSUME TypeOK, PointerInv, NEW t \in Threads, Step(t)
  PROVE  PointerInv'
  <1>1. CASE BuildDocumentId(t)
    BY <1>1, OthersKeepPointer DEF BuildDocumentId, Goes, TypeOK
  <1>2. ASSUME NEW v \in Values, StartRaise(t, v) PROVE PointerInv'
    BY <1>2, OthersKeepPointer DEF StartRaise, Goes, TypeOK
  <1>3. CASE Exchange(t)
    <2>1. /\ UNCHANGED pointerVars /\ pc[t] = "raise"
          /\ pc' = pc \/ pc' = [pc EXCEPT ![t] = "idle"]
      BY <1>3 DEF Exchange
    <2> QED
      BY <2>1, OthersKeepPointer DEF TypeOK
  <1>4. CASE UnregisterResets(t)
    BY <1>4, OthersKeepPointer DEF UnregisterResets, Goes, TypeOK
  <1> QED
    BY <1>1, <1>2, <1>3, <1>4, LooksKeepPointer, PutTestsKeepPointer, BeginTestsKeepPointer,
       ReadsKeepPointer, ClearStepsKeepPointer, AllocatesKeepPointer, InstallsKeepPointer,
       EndWritesKeepPointer, FreesKeepPointer, ForgetKeepsPointer, UnregisterFreesKeepsPointer
    DEF Step

LEMMA PointerCorrect == Spec => []PointerInv
  <1>1. Init => PointerInv
    BY DEF Init, PointerInv, DanglesInWindow, HandlesLive, EndsOfItsOwn, Begun, Holds, CallsOK, CallOK
  <1>2. TypeOK /\ PointerInv /\ [Next]_vars => PointerInv'
    <2> SUFFICES ASSUME TypeOK, PointerInv, [Next]_vars PROVE PointerInv'
      OBVIOUS
    <2>1. CASE UNCHANGED vars
      BY <2>1, OthersKeepPointer DEF vars
    <2>2. CASE ProcessEnds
      BY <2>2 DEF ProcessEnds, PointerInv, DanglesInWindow, HandlesLive, EndsOfItsOwn, Begun, Holds,
         CallsOK, CallOK
    <2> QED
      BY <2>1, <2>2, PointerStep DEF Next
  <1> QED
    BY <1>1, <1>2, TypeCorrect, PTL DEF Spec

\* The pointer to the active transaction leads to a freed block only between the
\* free and the write of NULL in free_collections, until such a block is used.
THEOREM DanglesOnlyInWindow == Spec => []DanglesInWindow
  <1>1. PointerInv => DanglesInWindow
    BY DEF PointerInv
  <1> QED
    BY <1>1, PointerCorrect, PTL

\* A handle is good, and its holder's alone, until free_collections frees it.
THEOREM HandlesAlwaysLive == Spec => []HandlesLive
  <1>1. PointerInv => HandlesLive
    BY DEF PointerInv
  <1> QED
    BY <1>1, PointerCorrect, PTL

\* Whoever began a transaction can end it, unless two calls overlapped.
THEOREM OwnAlwaysEnds == Spec => []EndsOfItsOwn
  <1>1. PointerInv => EndsOfItsOwn
    BY DEF PointerInv
  <1> QED
    BY <1>1, PointerCorrect, PTL

\* A block is looked into, or freed, after it was freed only if the pointer was
\* written between the two accesses of the call, or between the free and the
\* write of NULL in free_collections.
THEOREM ReadsOnlyInWindow == Spec => []ReadsInWindow
  <1>1. TypeOK /\ PointerInv => ReadsInWindow
    BY DEF TypeOK, PointerInv, DanglesInWindow, CallsOK, CallOK, ReadsInWindow
  <1> QED
    BY <1>1, PointerCorrect, TypeCorrect, PTL
=============================================================================
