--------------------------- MODULE ConnectionPool ---------------------------
(***************************************************************************)
(* ConnectionPool of gausstwin-data/src/pool.rs.  acquire takes a permit of *)
(* the semaphore and the write lock of the list of idle connections, which *)
(* it keeps while it connects and while it waits for the statistics.       *)
(* Dropping a PooledConnection gives its permit back at once and spawns a  *)
(* task that returns the connection later.                                 *)
(*                                                                         *)
(* Tasks may be cancelled at any await.  Connections are only counted.     *)
(***************************************************************************)
EXTENDS Integers, FiniteSets

CONSTANTS
    Tasks,          \* tasks that use the pool
    MaxSize,        \* PoolConfig::max_size: permits, and the number of idle
                    \* connections from which on one that comes back is closed
    Initial,        \* number of initial_connections, which nobody compares with it
    MaxCalls        \* bound: calls of acquire

ASSUME TasksAssumption == IsFiniteSet(Tasks)
ASSUME SizesAssumption == MaxSize \in Nat /\ Initial \in Nat /\ MaxCalls \in Nat

VARIABLES
    idle,           \* length of connections
    permits,        \* of the semaphore
    pc,             \* where each task is in acquire, or "using" the connection
    resetting,      \* release tasks awaiting conn.reset() of an invalid connection
    returning,      \* release tasks awaiting the lock of connections
    acquired,       \* stats.acquired_current
    calls,          \* calls of acquire so far
    leaked          \* history: connections dropped that still count as acquired

vars == <<idle, permits, pc, resetting, returning, acquired, calls, leaked>>

At(places) == { t \in Tasks : pc[t] \in places }

\* acquire keeps the write lock over its awaits.  So does release, for the lock
\* of the statistics; but who holds that one awaits nothing, and Return is a step.
LockFree == At({"connect", "count"}) = {}

Goto(t, place) == pc' = [pc EXCEPT ![t] = place]

-----------------------------------------------------------------------------
\* The code does not compare the initial number with max_size, nor does Init.
Init ==
    /\ idle = Initial
    /\ permits = MaxSize
    /\ pc = [t \in Tasks |-> "idle"]
    /\ resetting = 0
    /\ returning = 0
    /\ acquired = 0
    /\ calls = 0
    /\ leaked = 0

\* acquire() waits for a permit ...
Acquire(t) ==
    /\ pc[t] = "idle"
    /\ calls < MaxCalls
    /\ calls' = calls + 1
    /\ Goto(t, "permit")
    /\ UNCHANGED <<idle, permits, resetting, returning, acquired, leaked>>

GetPermit(t) ==
    /\ pc[t] = "permit"
    /\ permits > 0
    /\ permits' = permits - 1
    /\ Goto(t, "lock")
    /\ UNCHANGED <<idle, resetting, returning, acquired, calls, leaked>>

\* ... takes the lock, and an idle connection if there is one ...
Lock(t) ==
    /\ pc[t] = "lock"
    /\ LockFree
    /\ \/ idle > 0 /\ idle' = idle - 1 /\ Goto(t, "count")
       \/ idle = 0 /\ UNCHANGED idle /\ Goto(t, "connect")
    /\ UNCHANGED <<permits, resetting, returning, acquired, calls, leaked>>

\* ... or opens one, or fails to: the permit and the lock are dropped ...
Connect(t) ==
    /\ pc[t] = "connect"
    /\ Goto(t, "count")
    /\ UNCHANGED <<idle, permits, resetting, returning, acquired, calls, leaked>>

ConnectFails(t) ==
    /\ pc[t] = "connect"
    /\ permits' = permits + 1
    /\ Goto(t, "idle")
    /\ UNCHANGED <<idle, resetting, returning, acquired, calls, leaked>>

\* ... and counts it once the statistics are locked.
Count(t) ==
    /\ pc[t] = "count"
    /\ acquired' = acquired + 1
    /\ Goto(t, "using")
    /\ UNCHANGED <<idle, permits, resetting, returning, calls, leaked>>

\* Faulty variants, for the properties to tell apart: a cancelled task that
\* forgets its permit, and a failed reset that puts the connection back.
CancelKeepsPermit(t) ==
    /\ pc[t] \in {"permit", "lock", "connect", "count"}
    /\ Goto(t, "idle")
    /\ UNCHANGED <<idle, permits, resetting, returning, acquired, calls, leaked>>

ReturnUncounted ==
    /\ returning > 0
    /\ LockFree
    /\ returning' = returning - 1
    /\ idle' = IF idle < MaxSize THEN idle + 1 ELSE idle
    /\ UNCHANGED <<permits, pc, resetting, acquired, calls, leaked>>

\* The task is dropped at an await: with the connection it had popped or opened.
CancelAcquire(t) ==
    /\ pc[t] \in {"permit", "lock", "connect", "count"}
    /\ permits' = IF pc[t] = "permit" THEN permits ELSE permits + 1
    /\ Goto(t, "idle")
    /\ UNCHANGED <<idle, resetting, returning, acquired, calls, leaked>>

-----------------------------------------------------------------------------
\* Drop of PooledConnection: spawn the release, then drop the permit
Drop(t) ==
    /\ pc[t] = "using"
    /\ permits' = permits + 1
    /\ Goto(t, "idle")
    /\ \/ resetting' = resetting + 1 /\ UNCHANGED returning     \* ~is_valid()
       \/ returning' = returning + 1 /\ UNCHANGED resetting
    /\ UNCHANGED <<idle, acquired, calls, leaked>>

Reset ==
    /\ resetting > 0
    /\ resetting' = resetting - 1
    /\ returning' = returning + 1
    /\ UNCHANGED <<idle, permits, pc, acquired, calls, leaked>>

\* release returns the error: the connection is gone, and still counted.
ResetFails ==
    /\ resetting > 0
    /\ resetting' = resetting - 1
    /\ leaked' = leaked + 1
    /\ UNCHANGED <<idle, permits, pc, returning, acquired, calls>>

\* The list is full: the connection is closed, and still counted.
Return ==
    /\ returning > 0
    /\ LockFree
    /\ returning' = returning - 1
    /\ \/ /\ idle < MaxSize
          /\ idle' = idle + 1
          /\ acquired' = acquired - 1
          /\ UNCHANGED leaked
       \/ /\ idle >= MaxSize
          /\ leaked' = leaked + 1
          /\ UNCHANGED <<idle, acquired>>
    /\ UNCHANGED <<permits, pc, resetting, calls>>

-----------------------------------------------------------------------------
Release == Reset \/ ResetFails \/ Return

Proceed(t) == Lock(t) \/ Connect(t) \/ ConnectFails(t) \/ Count(t)

Next ==
    \/ \E t \in Tasks :
        \/ Acquire(t)
        \/ GetPermit(t)
        \/ Proceed(t)
        \/ CancelAcquire(t)
        \/ Drop(t)
    \/ Release

\* The runtime goes on with every task that can go on; a connect and a reset
\* return; users drop their connections.  The semaphore and the lock are first
\* come, first served: who waits while others take turns is not passed over.
Fairness ==
    /\ WF_vars(Release)
    /\ \A t \in Tasks : SF_vars(GetPermit(t)) /\ SF_vars(Proceed(t)) /\ WF_vars(Drop(t))

Spec == Init /\ [][Next]_vars /\ Fairness

-----------------------------------------------------------------------------
MostIdle == IF Initial > MaxSize THEN Initial ELSE MaxSize

\* Every permit is free or with a task that has not left: an error, a failed
\* connect or a cancellation gives it back, so that never more than max_size
\* connections are in use at once; idle ones are no more than max_size, or than
\* the pool was given.
PermitsAddUp ==
    /\ permits + Cardinality(At({"lock", "connect", "count", "using"})) = MaxSize
    /\ idle \in 0..MostIdle

\* acquired_current is the connections in use, on their way back, or dropped
\* without being counted: it never goes below zero, but what a failed reset or
\* a full list drops stays in it for good.
AcquiredAddsUp ==
    acquired = Cardinality(At({"using"})) + resetting + returning + leaked

\* Whoever calls acquire gets a connection, an error, or gives up himself.
Served == \A t \in Tasks : (pc[t] = "permit") ~> (pc[t] \in {"using", "idle"})

=============================================================================
