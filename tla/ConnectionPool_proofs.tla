----------------------- MODULE ConnectionPool_proofs -----------------------
(***************************************************************************)
(* Proofs about ConnectionPool, for every finite set of tasks, pool size   *)
(* and number of initial connections: permits are never lost or made,      *)
(* acquired_current counts what it should and what is gone, and the pool   *)
(* never comes to a standstill.                                            *)
(***************************************************************************)
EXTENDS ConnectionPool, TLAPS, FiniteSetTheorems

Places == {"idle", "permit", "lock", "connect", "count", "using"}

TypeOK ==
    /\ idle \in 0..MostIdle
    /\ permits \in Nat
    /\ pc \in [Tasks -> Places]
    /\ resetting \in Nat
    /\ returning \in Nat
    /\ acquired \in Int
    /\ leaked \in Nat

\* Tasks that hold a permit
Holding == {"lock", "connect", "count", "using"}

Inv == TypeOK /\ PermitsAddUp /\ AcquiredAddsUp

One(b) == IF b THEN 1 ELSE 0

LEMMA AtIsFinite ==
    ASSUME NEW places
    PROVE  IsFiniteSet(At(places)) /\ Cardinality(At(places)) \in Nat
<1>1. At(places) \subseteq Tasks
  BY DEF At
<1> QED BY <1>1, TasksAssumption, FS_Subset, FS_CardinalityType

\* One task moves: what it leaves loses one, what it enters gains one.
LEMMA GotoCounts ==
    ASSUME NEW t \in Tasks, NEW place, NEW places,
           pc \in [Tasks -> Places], Goto(t, place)
    PROVE  Cardinality(At(places)') =
             Cardinality(At(places)) - One(pc[t] \in places) + One(place \in places)
<1>0. IsFiniteSet(At(places)) /\ Cardinality(At(places)) \in Nat
  BY AtIsFinite
<1>1. pc' = [pc EXCEPT ![t] = place]
  BY DEF Goto
<1>2. t \in At(places) <=> pc[t] \in places
  BY DEF At
<1>3. CASE pc[t] \in places /\ place \in places
  <2>1. At(places)' = At(places)
    BY <1>1, <1>3 DEF At
  <2> QED BY <1>0, <1>3, <2>1 DEF One
<1>4. CASE pc[t] \notin places /\ place \notin places
  <2>1. At(places)' = At(places)
    BY <1>1, <1>4 DEF At
  <2> QED BY <1>0, <1>4, <2>1 DEF One
<1>5. CASE pc[t] \in places /\ place \notin places
  <2>1. At(places)' = At(places) \ {t}
    BY <1>1, <1>5 DEF At
  <2>2. Cardinality(At(places) \ {t}) = Cardinality(At(places)) - 1
    BY <1>0, <1>2, <1>5, FS_RemoveElement
  <2> QED BY <1>0, <1>5, <2>1, <2>2 DEF One
<1>6. CASE pc[t] \notin places /\ place \in places
  <2>1. At(places)' = At(places) \union {t}
    BY <1>1, <1>6 DEF At
  <2>2. Cardinality(At(places) \union {t}) = Cardinality(At(places)) + 1
    BY <1>0, <1>2, <1>6, FS_AddElement
  <2> QED BY <1>0, <1>6, <2>1, <2>2 DEF One
<1> QED BY <1>3, <1>4, <1>5, <1>6

LEMMA Stays ==
    ASSUME UNCHANGED pc, NEW places
    PROVE  At(places)' = At(places)
  BY DEF At

-----------------------------------------------------------------------------
LEMMA InitInv ==
    ASSUME Init
    PROVE  Inv
<1>1. At(Holding) = {} /\ At({"using"}) = {}
  BY DEF Init, At, Holding
<1>2. TypeOK
  BY SizesAssumption DEF Init, TypeOK, Places, MostIdle
<1>3. PermitsAddUp /\ AcquiredAddsUp
  BY <1>1, <1>2, FS_EmptySet, SizesAssumption DEF Init, TypeOK, PermitsAddUp, AcquiredAddsUp, Holding
<1> QED BY <1>2, <1>3 DEF Inv

\* The steps of acquire and the drop of a connection move one task.
LEMMA TaskKeepsInv ==
    ASSUME Inv, NEW t \in Tasks,
           \/ Acquire(t) \/ GetPermit(t) \/ Lock(t) \/ Connect(t)
           \/ ConnectFails(t) \/ Count(t) \/ CancelAcquire(t) \/ Drop(t)
    PROVE  Inv'
<1> DEFINE holding == Cardinality(At(Holding))
           inUse == Cardinality(At({"using"}))
<1>1. PICK place \in Places : Goto(t, place)
  BY DEF Acquire, GetPermit, Lock, Connect, ConnectFails, Count, CancelAcquire, Drop, Places
<1>2. pc \in [Tasks -> Places] /\ pc'[t] = place /\ pc' \in [Tasks -> Places]
  BY <1>1 DEF Inv, TypeOK, Goto
<1>3. /\ holding' = holding - One(pc[t] \in Holding) + One(place \in Holding)
      /\ inUse' = inUse - One(pc[t] \in {"using"}) + One(place \in {"using"})
  BY <1>1, <1>2, GotoCounts
<1>4. holding \in Nat /\ inUse \in Nat
  BY AtIsFinite
<1>5. /\ idle \in 0..MostIdle /\ permits \in Nat /\ resetting \in Nat
      /\ returning \in Nat /\ acquired \in Int /\ leaked \in Nat
      /\ permits + holding = MaxSize
      /\ acquired = inUse + resetting + returning + leaked
  BY DEF Inv, TypeOK, PermitsAddUp, AcquiredAddsUp, Holding
<1> HIDE DEF holding, inUse
<1> SUFFICES /\ idle' \in 0..MostIdle /\ permits' \in Nat /\ resetting' \in Nat
             /\ returning' \in Nat /\ acquired' \in Int /\ leaked' \in Nat
             /\ permits' + holding' = MaxSize
             /\ acquired' = inUse' + resetting' + returning' + leaked'
  BY <1>2 DEF Inv, TypeOK, PermitsAddUp, AcquiredAddsUp, holding, inUse, Holding
<1> USE <1>2, <1>3, <1>4, <1>5, SizesAssumption DEF One, Holding, Goto, MostIdle
<1>6. CASE Acquire(t)
  BY <1>6 DEF Acquire
<1>7. CASE GetPermit(t)
  BY <1>7 DEF GetPermit
<1>8. CASE Lock(t)
  BY <1>8 DEF Lock
<1>9. CASE Connect(t)
  BY <1>9 DEF Connect
<1>10. CASE ConnectFails(t)
  BY <1>10 DEF ConnectFails
<1>11. CASE Count(t)
  BY <1>11 DEF Count
<1>12. CASE CancelAcquire(t)
  BY <1>12 DEF CancelAcquire
<1>13. CASE Drop(t)
  <2>1. place = "idle" /\ pc[t] = "using"
    BY <1>13 DEF Drop
  <2>2. holding' = holding - 1 /\ inUse' = inUse - 1
    BY <2>1
  <2>3. CASE resetting' = resetting + 1 /\ UNCHANGED returning
    BY <1>13, <2>2, <2>3 DEF Drop
  <2>4. CASE returning' = returning + 1 /\ UNCHANGED resetting
    BY <1>13, <2>2, <2>4 DEF Drop
  <2> QED BY <1>13, <2>3, <2>4 DEF Drop
<1> QED BY <1>6, <1>7, <1>8, <1>9, <1>10, <1>11, <1>12, <1>13

\* The spawned release moves no task: only the counts change.
LEMMA ReleaseKeepsInv ==
    ASSUME Inv, Release
    PROVE  Inv'
<1>1. UNCHANGED <<pc, permits>>
  BY DEF Release, Reset, ResetFails, Return
<1>2. At(Holding)' = At(Holding) /\ At({"using"})' = At({"using"})
  BY <1>1, Stays
<1>3. Cardinality(At({"using"})) \in Nat
  BY AtIsFinite
<1>4. TypeOK' /\ AcquiredAddsUp'
  <2> USE <1>1, <1>2, <1>3, SizesAssumption DEF Inv, TypeOK, AcquiredAddsUp, MostIdle
  <2>1. CASE Reset
    BY <2>1 DEF Reset
  <2>2. CASE ResetFails
    BY <2>2 DEF ResetFails
  <2>3. CASE Return
    <3>1. CASE idle < MaxSize /\ idle' = idle + 1 /\ acquired' = acquired - 1 /\ UNCHANGED leaked
      BY <2>3, <3>1 DEF Return
    <3>2. CASE leaked' = leaked + 1 /\ UNCHANGED <<idle, acquired>>
      BY <2>3, <3>2 DEF Return
    <3> QED BY <2>3, <3>1, <3>2 DEF Return
  <2> QED BY <2>1, <2>2, <2>3 DEF Release
<1>5. PermitsAddUp'
  BY <1>1, <1>2, <1>4 DEF Inv, PermitsAddUp, Holding, TypeOK
<1> QED BY <1>4, <1>5 DEF Inv

LEMMA NextKeepsInv ==
    ASSUME Inv, [Next]_vars
    PROVE  Inv'
<1>1. ASSUME NEW t \in Tasks,
             \/ Acquire(t) \/ GetPermit(t) \/ Proceed(t)
             \/ CancelAcquire(t) \/ Drop(t)
      PROVE  Inv'
  BY <1>1, TaskKeepsInv DEF Proceed
<1>2. CASE Release
  BY <1>2, ReleaseKeepsInv
<1>3. CASE UNCHANGED vars
  <2>1. At(Holding)' = At(Holding) /\ At({"using"})' = At({"using"})
    BY <1>3, Stays DEF vars
  <2> QED BY <1>3, <2>1 DEF Inv, TypeOK, PermitsAddUp, AcquiredAddsUp, Holding, vars
<1> QED BY <1>1, <1>2, <1>3 DEF Next

-----------------------------------------------------------------------------
\* No error path, failed connect or cancellation of acquire loses a permit or
\* makes one, and no return makes the idle connections more than max_size.
THEOREM ThmPermitsAddUp == Spec => []PermitsAddUp
<1>1. Inv => PermitsAddUp
  BY DEF Inv
<1> QED BY <1>1, InitInv, NextKeepsInv, PTL DEF Spec

\* acquired_current is what is in use or on its way back, plus what a failed
\* reset or a full list dropped without counting.
THEOREM ThmAcquiredAddsUp == Spec => []AcquiredAddsUp
<1>1. Inv => AcquiredAddsUp
  BY DEF Inv
<1> QED BY <1>1, InitInv, NextKeepsInv, PTL DEF Spec

\* acquired_current, a u64 that release decrements, never falls below zero.
THEOREM ThmAcquiredNotNegative == Spec => [](acquired >= 0)
<1>1. Inv => acquired >= 0
  BY AtIsFinite DEF Inv, TypeOK, AcquiredAddsUp
<1> QED BY <1>1, InitInv, NextKeepsInv, PTL DEF Spec

-----------------------------------------------------------------------------
\* Why Served holds: the pool is never at a standstill.  A task can go on when it
\* uses a connection, opens or counts one, or finds the lock free.
CanGoOn(t) == pc[t] \in {"connect", "count", "using"} \/ (pc[t] = "lock" /\ LockFree)

\* No cycle of waiting: permit first, then the lock, and nobody who keeps the
\* lock waits for a permit.
NoStandstill == MaxSize > 0 => permits > 0 \/ \E t \in Tasks : CanGoOn(t)

\* Whatever was cancelled or failed, a pool that has room at all has a permit
\* free or held by a task that can go on, which gives it back.
THEOREM ThmNoStandstill == Spec => []NoStandstill
<1>1. Inv => NoStandstill
  <2>1. SUFFICES ASSUME Inv, MaxSize > 0, permits = 0
                 PROVE  \E t \in Tasks : CanGoOn(t)
    BY DEF Inv, TypeOK, NoStandstill
  <2>2. Cardinality(At(Holding)) = MaxSize
    <3>1. Cardinality(At(Holding)) \in Nat
      BY AtIsFinite
    <3> QED BY <2>1, <3>1 DEF Inv, PermitsAddUp, Holding
  <2>3. At(Holding) # {}
    BY <2>1, <2>2, FS_EmptySet, SizesAssumption
  <2>4. PICK t \in Tasks : pc[t] \in Holding
    BY <2>3 DEF At
  <2>5. CASE pc[t] = "lock" /\ ~LockFree
    <3>1. PICK u \in Tasks : pc[u] \in {"connect", "count"}
      BY <2>5 DEF LockFree, At
    <3> QED BY <3>1 DEF CanGoOn
  <2> QED BY <2>4, <2>5 DEF CanGoOn, Holding
<1> QED BY <1>1, InitInv, NextKeepsInv, PTL DEF Spec
=============================================================================
