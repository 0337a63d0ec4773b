------------------------- MODULE EventQueues_proofs -------------------------
(***************************************************************************)
(* Proofs about the two event queues that clients and a loop share.        *)
(* DesSimulator, for any ids, times, threads and limits: the count of      *)
(* pending events, at most one execution per scheduled event, the limit    *)
(* and the end of a sequential run, and what a rollback leaves locked.     *)
(* EventScheduler, for any agents, times and bounds: no entry is lost or   *)
(* made, the order of service, and when a tick does not end.               *)
(***************************************************************************)
EXTENDS DesSimulator, EventScheduler, TLAPS, FiniteSetTheorems, SequenceTheorems,
        WellFoundedInduction

TypeOK ==
    /\ IsFiniteSet(pending)
    /\ \A e \in pending : e.id \in Ids
    /\ pendingCount \in Int
    /\ orphans \in Nat
    /\ scheduled \in [Ids -> Nat]
    /\ processed \in [Ids -> Nat]
    /\ DOMAIN client = Clients
    /\ \A c \in Clients : client[c].op = "schedule" => client[c].id \in Ids

\* The queue is a map: one event per id.
OnePerId == \A e, f \in pending : e.id = f.id => e = f

QueueInv == TypeOK /\ OnePerId /\ PendingAddsUp /\ NeverTwice

queueVars == <<pending, pendingCount, orphans, scheduled, processed>>

-----------------------------------------------------------------------------
\* The events with an id: none, or the only one.
LEMMA WithIdLemma ==
    ASSUME OnePerId, NEW id
    PROVE  \/ WithId(id) = {} /\ Cardinality(WithId(id)) = 0
           \/ \E e \in pending : /\ e.id = id /\ WithId(id) = {e}
                                 /\ Cardinality(WithId(id)) = 1
<1>1. CASE WithId(id) = {}
  BY <1>1, FS_EmptySet
<1>2. CASE WithId(id) # {}
  <2>1. PICK e \in WithId(id) : TRUE
    BY <1>2
  <2>2. e \in pending /\ e.id = id /\ WithId(id) = {e}
    BY <2>1 DEF WithId, OnePerId
  <2> QED BY <2>2, FS_Singleton
<1> QED BY <1>1, <1>2

LEMMA InitQueue ==
    ASSUME Init
    PROVE  QueueInv
<1>1. Cardinality({}) = 0 /\ IsFiniteSet({})
  BY FS_EmptySet
<1>2. TypeOK /\ OnePerId /\ PendingAddsUp
  BY <1>1 DEF Init, TypeOK, OnePerId, PendingAddsUp, Idle
<1>3. ASSUME NEW id \in Ids
      PROVE  processed[id] + Cardinality(WithId(id)) <= scheduled[id]
  <2>1. WithId(id) = {}
    BY DEF Init, WithId
  <2> QED BY <1>1, <2>1 DEF Init
<1> QED BY <1>2, <1>3 DEF QueueInv, NeverTwice

\* A step that only moves a thread, the clock or the checkpoints.
LEMMA QueueUntouched ==
    ASSUME QueueInv, UNCHANGED queueVars, DOMAIN client' = Clients,
           \A c \in Clients : client'[c].op = "schedule" => client'[c].id \in Ids
    PROVE  QueueInv'
  BY DEF QueueInv, queueVars, TypeOK, OnePerId, PendingAddsUp, NeverTwice, WithId

\* What is left in the queue without the events of one id.
LEMMA DropId ==
    ASSUME TypeOK, OnePerId, NEW id
    PROVE  /\ Cardinality(pending) \in Nat
           /\ Cardinality(WithId(id)) \in {0, 1}
           /\ IsFiniteSet(pending \ WithId(id))
           /\ Cardinality(pending \ WithId(id)) = Cardinality(pending) - Cardinality(WithId(id))
<1>0. IsFiniteSet(pending) /\ Cardinality(pending) \in Nat
  BY FS_CardinalityType DEF TypeOK
<1>1. CASE WithId(id) = {} /\ Cardinality(WithId(id)) = 0
  <2>1. pending \ WithId(id) = pending
    BY <1>1
  <2> QED BY <1>0, <1>1, <2>1
<1>2. CASE \E e \in pending : WithId(id) = {e} /\ Cardinality(WithId(id)) = 1
  <2>1. PICK e \in pending : WithId(id) = {e} /\ Cardinality(WithId(id)) = 1
    BY <1>2
  <2>2. IsFiniteSet(pending \ {e}) /\ Cardinality(pending \ {e}) = Cardinality(pending) - 1
    BY <1>0, FS_RemoveElement
  <2> QED BY <1>0, <2>1, <2>2
<1> QED BY <1>1, <1>2, WithIdLemma

\* An event takes the place of the one with its id, which becomes an orphan.
LEMMA PushKeepsQueueInv ==
    ASSUME QueueInv, NEW c \in Clients, SchedulePush(c)
    PROVE  QueueInv'
<1>0. PICK id \in Ids : id = client[c].id
  BY DEF SchedulePush, QueueInv, TypeOK
<1> DEFINE new == [id |-> id, time |-> client[c].time]
           rest == pending \ WithId(id)
<1> USE DEF QueueInv
<1>1. /\ pending' = rest \union {new} /\ new.id = id
      /\ orphans' = orphans + Cardinality(WithId(id))
      /\ scheduled' = [scheduled EXCEPT ![id] = @ + 1]
      /\ pendingCount' = pendingCount + 1
      /\ client' = [client EXCEPT ![c] = Idle]
      /\ processed' = processed
  BY <1>0 DEF SchedulePush
<1>2. /\ Cardinality(pending) \in Nat
      /\ Cardinality(WithId(id)) \in {0, 1}
      /\ IsFiniteSet(rest)
      /\ Cardinality(rest) = Cardinality(pending) - Cardinality(WithId(id))
  BY DropId
<1>3. new \notin rest
  BY <1>1 DEF WithId
<1>4. IsFiniteSet(pending') /\ Cardinality(pending') = Cardinality(rest) + 1
  BY <1>1, <1>2, <1>3, FS_AddElement
<1>5. PendingAddsUp'
  <2>1. orphans \in Nat /\ pendingCount = Cardinality(pending) + orphans
    BY DEF TypeOK, PendingAddsUp
  <2> HIDE DEF rest, new
  <2> QED BY <1>1, <1>2, <1>4, <2>1 DEF PendingAddsUp
<1>6. TypeOK'
  <2>1. \A e \in pending' : e.id \in Ids
    BY <1>1 DEF TypeOK
  <2>2. orphans' \in Nat
    BY <1>1, <1>2 DEF TypeOK
  <2>3. \A d \in Clients : client'[d].op = "schedule" => client'[d].id \in Ids
    BY <1>1 DEF TypeOK, Idle
  <2> QED BY <1>1, <1>4, <2>1, <2>2, <2>3 DEF TypeOK
<1>7. OnePerId'
  BY <1>1 DEF OnePerId, WithId
<1>8. NeverTwice'
  <2> SUFFICES ASSUME NEW other \in Ids
               PROVE  processed[other] + Cardinality(WithId(other)') <= scheduled'[other]
    BY <1>1 DEF NeverTwice
  <2>1. CASE other # id
    <3>1. WithId(other)' = WithId(other)
      <4>1. \A e \in rest \union {new} : e.id = other <=> e \in pending /\ e.id = other
        BY <1>1, <2>1 DEF WithId
      <4>2. \A e \in pending : e.id = other => e \in rest
        BY <2>1 DEF WithId
      <4> HIDE DEF rest, new
      <4> QED BY <1>1, <4>1, <4>2 DEF WithId
    <3>2. scheduled'[other] = scheduled[other] /\ processed' = processed
      BY <1>1, <2>1 DEF TypeOK
    <3> QED BY <3>1, <3>2 DEF NeverTwice
  <2>2. CASE other = id
    <3>0. \A e \in rest : e.id # id
      BY DEF WithId
    <3> HIDE DEF rest, new
    <3>1. WithId(id)' = {new}
      BY <1>1, <3>0 DEF WithId
    <3>2. Cardinality(WithId(id)') = 1
      BY <3>1, FS_Singleton
    <3>3. processed[id] <= scheduled[id] /\ processed[id] \in Nat /\ scheduled[id] \in Nat
      BY <1>1, <1>2, DropId DEF NeverTwice, TypeOK
    <3>4. scheduled'[id] = scheduled[id] + 1
      BY <1>1 DEF TypeOK
    <3> QED BY <2>2, <3>2, <3>3, <3>4
  <2> QED BY <2>1, <2>2
<1> QED BY <1>5, <1>6, <1>7, <1>8

\* An event leaves the queue, counted, executed or cancelled.
LEMMA LeaveKeepsQueueInv ==
    ASSUME QueueInv, NEW e \in pending,
           pending' = pending \ {e}, pendingCount' = pendingCount - 1,
           UNCHANGED <<client, orphans, scheduled>>,
           \/ processed' = processed
           \/ processed' = [processed EXCEPT ![e.id] = @ + 1]
    PROVE  QueueInv'
<1> USE DEF QueueInv
<1>1. e.id \in Ids
  BY DEF TypeOK
<1>2. WithId(e.id) = {e} /\ Cardinality(WithId(e.id)) = 1
  <2>1. WithId(e.id) = {e}
    BY DEF WithId, OnePerId
  <2> QED BY <2>1, FS_Singleton
<1>3. /\ IsFiniteSet(pending') /\ Cardinality(pending) \in Nat
      /\ Cardinality(pending') = Cardinality(pending) - 1
  BY FS_RemoveElement, FS_CardinalityType DEF TypeOK
<1>4. PendingAddsUp'
  BY <1>3 DEF PendingAddsUp, TypeOK
<1>5. TypeOK'
  <2>1. processed' \in [Ids -> Nat]
    BY <1>1 DEF TypeOK
  <2> QED BY <1>3, <2>1 DEF TypeOK
<1>6. OnePerId'
  BY DEF OnePerId
<1>7. NeverTwice'
  <2> SUFFICES ASSUME NEW other \in Ids
               PROVE  processed'[other] + Cardinality(WithId(other)') <= scheduled[other]
    BY DEF NeverTwice
  <2>0. /\ processed[other] \in Nat /\ scheduled[other] \in Nat
        /\ processed[other] + Cardinality(WithId(other)) <= scheduled[other]
    BY DEF NeverTwice, TypeOK
  <2>1. CASE other # e.id
    <3>1. WithId(other)' = WithId(other)
      BY <2>1 DEF WithId
    <3>2. processed'[other] = processed[other]
      BY <1>1, <2>1 DEF TypeOK
    <3> QED BY <2>0, <3>1, <3>2
  <2>2. CASE other = e.id
    <3>1. WithId(e.id)' = {}
      BY <1>2 DEF WithId
    <3>2. Cardinality(WithId(e.id)') = 0
      BY <3>1, FS_EmptySet
    <3>3. processed'[e.id] <= processed[e.id] + 1 /\ processed'[e.id] \in Nat
      BY <1>1, <2>0, <2>2 DEF TypeOK
    <3> QED BY <1>2, <2>0, <2>2, <3>2, <3>3
  <2> QED BY <2>1, <2>2
<1> QED BY <1>4, <1>5, <1>6, <1>7

LEMMA CancelKeepsQueueInv ==
    ASSUME QueueInv, NEW c \in Clients, NEW id \in Ids, Cancel(c, id)
    PROVE  QueueInv'
<1>1. PICK e \in pending : e.id = id /\ WithId(id) = {e}
  BY DEF Cancel, WithId, QueueInv, OnePerId
<1>2. /\ pending' = pending \ {e} /\ pendingCount' = pendingCount - 1
      /\ UNCHANGED <<client, orphans, scheduled, processed>>
  BY <1>1 DEF Cancel
<1> QED BY <1>2, LeaveKeepsQueueInv

LEMMA PopKeepsQueueInv ==
    ASSUME QueueInv, Pop \/ PopParallel
    PROVE  QueueInv'
<1>1. UNCHANGED <<client, orphans, scheduled>>
  BY DEF Pop, PopParallel
<1>2. CASE PopOne
  <2>1. PICK e \in pending : /\ pending' = pending \ {e}
                             /\ pendingCount' = pendingCount - 1
                             /\ processed' = [processed EXCEPT ![e.id] = @ + 1]
    BY <1>2 DEF PopOne, Latest
  <2> QED BY <1>1, <2>1, LeaveKeepsQueueInv
<1>3. CASE UNCHANGED <<pending, pendingCount, processed>>
  <2>1. UNCHANGED queueVars /\ DOMAIN client' = Clients
    BY <1>1, <1>3 DEF queueVars, QueueInv, TypeOK
  <2> QED BY <1>1, <2>1, QueueUntouched DEF QueueInv, TypeOK
<1> QED BY <1>2, <1>3 DEF Pop, PopParallel

\* A rollback leaves every pending event counted and unqueued.
LEMMA RollbackKeepsQueueInv ==
    ASSUME QueueInv, NEW c \in Clients, RollbackQueue(c)
    PROVE  QueueInv'
<1> USE DEF QueueInv
<1>1. /\ pending' = {} /\ orphans' = orphans + Cardinality(pending)
      /\ UNCHANGED <<pendingCount, scheduled, processed>>
      /\ DOMAIN client' = Clients
      /\ \A d \in Clients : client'[d] = client[d] \/ client'[d].op # "schedule"
  BY DEF RollbackQueue, TypeOK, Idle
<1>2. IsFiniteSet(pending') /\ Cardinality(pending') = 0
  BY <1>1, FS_EmptySet
<1>3. Cardinality(pending) \in Nat
  BY FS_CardinalityType DEF TypeOK
<1>4. TypeOK'
  BY <1>1, <1>2, <1>3 DEF TypeOK
<1>5. OnePerId' /\ PendingAddsUp'
  BY <1>1, <1>2, <1>3 DEF OnePerId, PendingAddsUp, TypeOK
<1>6. ASSUME NEW id \in Ids
      PROVE  processed[id] + Cardinality(WithId(id)') <= scheduled[id]
  <2>1. WithId(id)' = {} /\ Cardinality(WithId(id)') = 0
    BY <1>1, FS_EmptySet DEF WithId
  <2>2. processed[id] \in Nat /\ scheduled[id] \in Nat /\ Cardinality(WithId(id)) \in {0, 1}
    BY DropId DEF TypeOK
  <2> QED BY <2>1, <2>2 DEF NeverTwice
<1> QED BY <1>1, <1>4, <1>5, <1>6 DEF NeverTwice

LEMMA NextKeepsQueueInv ==
    ASSUME QueueInv, [Next]_vars
    PROVE  QueueInv'
<1>0. DOMAIN client = Clients
  BY DEF QueueInv, TypeOK
<1>1. ASSUME NEW c \in Clients, NEW id \in Ids, NEW t \in Times, ScheduleCheck(c, id, t)
      PROVE  QueueInv'
  <2>1. UNCHANGED queueVars /\ DOMAIN client' = Clients
    BY <1>0, <1>1 DEF ScheduleCheck, queueVars
  <2>2. \A d \in Clients : client'[d].op = "schedule" => client'[d].id \in Ids
    BY <1>1 DEF ScheduleCheck, QueueInv, TypeOK
  <2> QED BY <2>1, <2>2, QueueUntouched
<1>2. ASSUME NEW c \in Clients,
             (\E t \in Times : RollbackCheck(c, t)) \/ RollbackFind(c) \/ RollbackClock(c)
      PROVE  QueueInv'
  <2>1. UNCHANGED queueVars /\ DOMAIN client' = Clients
    BY <1>0, <1>2 DEF RollbackCheck, RollbackFind, RollbackClock, queueVars
  <2>2. \A d \in Clients : client'[d] = client[d] \/ client'[d].op # "schedule"
    BY <1>0, <1>2 DEF RollbackCheck, RollbackFind, RollbackClock, Idle
  <2> QED BY <2>1, <2>2, QueueUntouched DEF QueueInv, TypeOK
<1>3. ASSUME RunBegin \/ Peek \/ SetClock \/ SnapClock \/ SnapQueue \/ SnapStore \/ UNCHANGED vars
      PROVE  QueueInv'
  <2>1. UNCHANGED queueVars /\ client' = client
    BY <1>3 DEF RunBegin, Peek, SetClock, SnapClock, SnapQueue, SnapStore, vars, queueVars
  <2> QED BY <1>0, <2>1, QueueUntouched DEF QueueInv, TypeOK
<1> QED BY <1>1, <1>2, <1>3, PushKeepsQueueInv, CancelKeepsQueueInv, PopKeepsQueueInv,
           RollbackKeepsQueueInv DEF Next, Run, Rollback

LEMMA QueueInvariant == Spec => []QueueInv
<1>1. Init => QueueInv
  BY InitQueue
<1>2. QueueInv /\ [Next]_vars => QueueInv'
  BY NextKeepsQueueInv
<1> QED BY <1>1, <1>2, PTL DEF Spec

\* stats.pending_events counts the queue and the orphans, whatever threads do.
THEOREM ThmPendingAddsUp == Spec => []PendingAddsUp
<1>1. QueueInv => PendingAddsUp
  BY DEF QueueInv
<1> QED BY <1>1, QueueInvariant, PTL

\* However run(), cancellations, replacements and rollbacks interleave, no
\* event is executed more often than it was scheduled.
THEOREM ThmNeverTwice == Spec => []NeverTwice
<1>1. QueueInv => NeverTwice
  BY DEF QueueInv
<1> QED BY <1>1, QueueInvariant, PTL

-----------------------------------------------------------------------------
\* run() has executed at most as many events as it counted, and pops only
\* below the limit.
CapInv ==
    /\ parallel \in BOOLEAN
    /\ inRun \in Nat /\ count \in Nat
    /\ ~parallel => /\ inRun <= count
                    /\ count <= MaxEvents
                    /\ pc = "pop" => count < MaxEvents

LEMMA CapStep ==
    ASSUME CapInv, [Next]_vars
    PROVE  CapInv'
<1> USE CountsAssumption, SwitchesAssumption DEF CapInv
<1>1. ASSUME UNCHANGED runVars
      PROVE  CapInv'
  BY <1>1 DEF runVars
<1>2. ASSUME NEW c \in Clients, Rollback(c) \/ SchedulePush(c)
      PROVE  UNCHANGED runVars
  BY <1>2 DEF Rollback, RollbackFind, RollbackClock, RollbackQueue, SchedulePush
<1>3. ASSUME NEW c \in Clients,
             \/ \E id \in Ids, t \in Times : ScheduleCheck(c, id, t)
             \/ \E id \in Ids : Cancel(c, id)
             \/ \E t \in Times : RollbackCheck(c, t)
      PROVE  UNCHANGED runVars
  BY <1>3 DEF ScheduleCheck, Cancel, RollbackCheck
<1>4. CASE RunBegin
  BY <1>4 DEF RunBegin
<1>5. CASE Peek
  <2>1. UNCHANGED <<count, inRun, parallel>> /\ (pc' = "pop" => count < MaxEvents)
    BY <1>5 DEF Peek, Continues
  <2> QED BY <2>1
<1>6. CASE Pop
  <2>1. /\ pc = "pop" /\ ~parallel /\ parallel' = parallel /\ pc' = "clock"
        /\ count' = count + 1
        /\ inRun' = inRun \/ inRun' = inRun + 1
    BY <1>6 DEF Pop, PopOne
  <2> QED BY <2>1
<1>7. CASE PopParallel
  <2>1. /\ parallel /\ parallel' = parallel
        /\ count' = count \/ count' = count + 1
        /\ inRun' = inRun \/ inRun' = inRun + 1
    BY <1>7 DEF PopParallel, PopOne
  <2> QED BY <2>1
<1>8. CASE SetClock \/ SnapClock \/ SnapQueue \/ SnapStore
  <2>1. UNCHANGED <<count, inRun, parallel>> /\ pc' # "pop"
    BY <1>8 DEF SetClock, SnapClock, SnapQueue, SnapStore
  <2> QED BY <2>1
<1>9. CASE UNCHANGED vars
  BY <1>1, <1>9 DEF vars
<1> QED BY <1>1, <1>2, <1>3, <1>4, <1>5, <1>6, <1>7, <1>8, <1>9 DEF Next, Run

\* A sequential run() stays within max_events, whatever is scheduled meanwhile.
THEOREM ThmEventsCapped == Spec => []EventsCapped
<1>1. Init => CapInv
  BY CountsAssumption, SwitchesAssumption DEF Init, CapInv
<1>2. CapInv /\ [Next]_vars => CapInv'
  BY CapStep
<1>3. CapInv => EventsCapped
  BY CountsAssumption DEF CapInv, EventsCapped
<1> QED BY <1>1, <1>2, <1>3, PTL DEF Spec

-----------------------------------------------------------------------------
\* Why RunEnds holds of a sequential run(): how many steps it may still take.
\* The loop counts one event in each turn, the last checkpoint ends it.
Place ==
    CASE pc = "clock"   -> 8
      [] pc = "snap"    -> IF ending THEN 3 ELSE 7
      [] pc = "collect" -> IF ending THEN 2 ELSE 6
      [] pc = "store"   -> IF ending THEN 1 ELSE 5
      [] pc = "peek"    -> 4
      [] pc = "pop"     -> 3
      [] OTHER          -> 0

RunRank == IF ending THEN Place ELSE 9 * (MaxEvents - count) + Place

\* Whatever clients do meanwhile, a step of run() comes nearer to its end, and
\* their steps leave its state alone.
SequentialRunDescends ==
    [][~parallel /\ pc # "idle" /\ pc' # "idle" =>
        \/ UNCHANGED runVars
        \/ RunRank' < RunRank]_vars

LoopInv ==
    /\ CapInv
    /\ pc \in {"idle", "peek", "pop", "clock", "snap", "collect", "store"}
    /\ ending \in BOOLEAN
    /\ ending => pc \in {"idle", "snap", "collect", "store"}

LEMMA ClientsLeaveRunAlone ==
    ASSUME NEW c \in Clients,
           \/ \E id \in Ids, t \in Times : ScheduleCheck(c, id, t)
           \/ SchedulePush(c)
           \/ \E id \in Ids : Cancel(c, id)
           \/ \E t \in Times : RollbackCheck(c, t)
           \/ Rollback(c)
    PROVE  UNCHANGED runVars
<1>1. CASE Rollback(c) \/ SchedulePush(c)
  BY <1>1 DEF Rollback, RollbackFind, RollbackClock, RollbackQueue, SchedulePush
<1>2. CASE ~(Rollback(c) \/ SchedulePush(c))
  BY <1>2 DEF ScheduleCheck, Cancel, RollbackCheck
<1> QED BY <1>1, <1>2

LEMMA NextKeepsLoop ==
    ASSUME LoopInv, [Next]_vars
    PROVE  LoopInv'
<1>1. CapInv'
  BY CapStep DEF LoopInv
<1>2. ASSUME UNCHANGED runVars PROVE LoopInv'
  BY <1>1, <1>2 DEF LoopInv, runVars
<1>3. CASE RunBegin
  BY <1>1, <1>3 DEF RunBegin, LoopInv
<1>4. CASE Peek
  BY <1>1, <1>4, SwitchesAssumption DEF Peek, LoopInv
<1>5. CASE Pop \/ PopParallel
  BY <1>1, <1>5 DEF Pop, PopParallel, LoopInv
<1>6. CASE SetClock \/ SnapClock \/ SnapQueue \/ SnapStore
  BY <1>1, <1>6 DEF SetClock, SnapClock, SnapQueue, SnapStore, LoopInv
<1>7. CASE UNCHANGED vars
  BY <1>2, <1>7 DEF vars
<1> QED BY <1>2, <1>3, <1>4, <1>5, <1>6, <1>7, ClientsLeaveRunAlone DEF Next, Run

LEMMA LoopDescends ==
    ASSUME LoopInv, [Next]_vars, ~parallel, pc # "idle", pc' # "idle"
    PROVE  UNCHANGED runVars \/ RunRank' < RunRank
<1>2. /\ MaxEvents \in Nat /\ count \in Nat /\ count <= MaxEvents /\ ending \in BOOLEAN
      /\ ~RunBegin /\ ~PopParallel
  BY CountsAssumption DEF LoopInv, CapInv, RunBegin, PopParallel
<1>3. CASE Peek
  <2>1. /\ pc = "peek" /\ ~ending /\ count' = count
        /\ \/ pc' = "pop" /\ ending' = ending
           \/ pc' = "snap" /\ ending' = TRUE
    BY <1>3 DEF Peek, LoopInv
  <2> QED BY <1>2, <2>1 DEF RunRank, Place
<1>4. CASE Pop
  <2>1. pc = "pop" /\ ~ending /\ count' = count + 1 /\ pc' = "clock" /\ ending' = ending
    BY <1>4 DEF Pop, LoopInv
  <2> QED BY <1>2, <2>1 DEF RunRank, Place
<1>5. CASE SetClock \/ SnapClock \/ SnapQueue \/ SnapStore
  <2>1. /\ count' = count /\ ending' = ending
        /\ \/ pc = "clock" /\ pc' \in {"peek", "snap"} /\ ~ending
           \/ pc = "snap" /\ pc' = "collect"
           \/ pc = "collect" /\ pc' = "store"
           \/ pc = "store" /\ pc' = "peek" /\ ~ending
    BY <1>5 DEF SetClock, SnapClock, SnapQueue, SnapStore, LoopInv
  <2> QED BY <1>2, <2>1 DEF RunRank, Place
<1>6. CASE UNCHANGED vars
  BY <1>6 DEF vars
<1> QED BY <1>2, <1>3, <1>4, <1>5, <1>6, ClientsLeaveRunAlone DEF Next, Run

\* Every step of a sequential run() comes nearer to its end, and the number of
\* steps that are left is never negative.
THEOREM ThmSequentialRunDescends ==
    Spec => SequentialRunDescends /\ [](~parallel => RunRank \in Nat)
<1>1. Init => LoopInv
  <2>1. Init => CapInv
    BY CountsAssumption, SwitchesAssumption DEF Init, CapInv
  <2> QED BY <2>1 DEF Init, LoopInv
<1>2. LoopInv /\ [Next]_vars => LoopInv'
  BY NextKeepsLoop
<1>3. LoopInv /\ [Next]_vars
        => [~parallel /\ pc # "idle" /\ pc' # "idle" =>
              \/ UNCHANGED runVars
              \/ RunRank' < RunRank]_vars
  BY LoopDescends
<1>4. LoopInv => (~parallel => RunRank \in Nat)
  <2>1. Place \in Nat
    BY DEF LoopInv, Place
  <2> QED BY <2>1, CountsAssumption DEF LoopInv, CapInv, RunRank
<1> QED BY <1>1, <1>2, <1>3, <1>4, PTL DEF Spec, SequentialRunDescends

-----------------------------------------------------------------------------
\* A rollback_to_time that calls schedule_event waits for a lock it holds itself:
\* nothing moves in the queue while it does.
LEMMA LockedStep ==
    ASSUME QueueInv, ~QueueFree, [Next]_vars
    PROVE  ~QueueFree' /\ UNCHANGED queueVars
<1>1. PICK s \in Clients : client[s].op = "stuck"
  BY DEF QueueFree
<1> DOMAIN client = Clients
  BY DEF QueueInv, TypeOK
<1> SUFFICES client'[s] = client[s] /\ UNCHANGED queueVars
  BY <1>1 DEF QueueFree
<1>2. client[s] # Idle
  BY <1>1 DEF Idle
<1>3. ASSUME NEW c \in Clients, NEW id \in Ids, NEW t \in Times, ScheduleCheck(c, id, t)
      PROVE  client'[s] = client[s] /\ UNCHANGED queueVars
  BY <1>2, <1>3 DEF ScheduleCheck, queueVars
<1>4. ASSUME NEW c \in Clients, NEW t \in Times, RollbackCheck(c, t)
      PROVE  client'[s] = client[s] /\ UNCHANGED queueVars
  BY <1>2, <1>4 DEF RollbackCheck, queueVars
<1>5. ASSUME NEW c \in Clients, RollbackFind(c) \/ RollbackClock(c)
      PROVE  client'[s] = client[s] /\ UNCHANGED queueVars
  BY <1>1, <1>5 DEF RollbackFind, RollbackClock, queueVars
<1>6. ~Pop /\ ~PopParallel
      /\ \A c \in Clients : ~SchedulePush(c) /\ ~RollbackQueue(c) /\ \A id \in Ids : ~Cancel(c, id)
  BY DEF Pop, PopParallel, SchedulePush, RollbackQueue, Cancel
<1>7. CASE RunBegin \/ Peek \/ SetClock \/ SnapClock \/ SnapQueue \/ SnapStore
  BY <1>7 DEF RunBegin, Peek, SetClock, SnapClock, SnapQueue, SnapStore, queueVars
<1>8. CASE UNCHANGED vars
  BY <1>8 DEF vars, queueVars
<1> QED BY <1>3, <1>4, <1>5, <1>6, <1>7, <1>8 DEF Next, Run, Rollback

\* Once a rollback has found an event to bring back, the queue stays locked: no
\* call of schedule_event, cancel or run() gets at it any more.
THEOREM RollbackLocksForGood ==
    Spec => /\ [](~QueueFree => []~QueueFree)
            /\ [][~QueueFree => UNCHANGED queueVars]_vars
<1>1. QueueInv /\ [Next]_vars /\ ~QueueFree => ~QueueFree' /\ UNCHANGED queueVars
  BY LockedStep
<1> QED BY <1>1, QueueInvariant, PTL DEF Spec

-----------------------------------------------------------------------------
(***************************************************************************)
(* EventScheduler                                                          *)
(***************************************************************************)
Entries == [agent : Agents, time : Int]

SchedulerTypeOK ==
    /\ queue \in Seq(Entries)
    /\ owed \in [Agents -> Int]
    /\ last \in Int

\* The list is in the order of its times.
Sorted(q) == \A i, j \in DOMAIN q : i < j => q[i].time <= q[j].time

\* Nothing in the list is earlier than what was served last.
ServedBeforeRest == last # Nothing => \A i \in DOMAIN queue : last <= queue[i].time

SchedulerInv ==
    /\ SchedulerTypeOK
    /\ Sorted(queue)
    /\ ServedBeforeRest
    /\ NothingLost

-----------------------------------------------------------------------------
\* Least-number principle
LEMMA LeastMember ==
    ASSUME NEW S \in SUBSET Nat, S # {}
    PROVE  \E m \in S : \A n \in S : m <= n
<1>1. PICK m \in S : \A n \in S : <<n, m>> \notin OpToRel(<, Nat)
  BY NatLessThanWellFounded, WFMin
<1>2. \A n \in S : ~(n < m)
  BY <1>1 DEF OpToRel
<1> QED BY <1>2

\* Sets whose members correspond one to one are of the same size.
LEMMA SameSize ==
    ASSUME NEW S, NEW T, IsFiniteSet(S), NEW f \in [S -> T],
           \A x, y \in S : f[x] = f[y] => x = y,
           \A z \in T : \E x \in S : f[x] = z
    PROVE  IsFiniteSet(T) /\ Cardinality(T) = Cardinality(S)
<1>1. f \in Bijection(S, T)
  BY DEF Bijection, Injection, IsInjective, Surjection
<1> QED BY <1>1, FS_Bijection DEF ExistsBijection

\* Where the entries of an agent stand
LEMMA OfFacts ==
    ASSUME NEW q \in Seq(Entries), NEW a
    PROVE  /\ Of(q, a) \subseteq 1..Len(q)
           /\ IsFiniteSet(Of(q, a))
           /\ Cardinality(Of(q, a)) \in Nat
           /\ \A i \in 1..Len(q) : i \in Of(q, a) <=> q[i].agent = a
<1>1. DOMAIN q = 1..Len(q) /\ Len(q) \in Nat
  OBVIOUS
<1>2. Of(q, a) \subseteq 1..Len(q) /\ \A i \in 1..Len(q) : i \in Of(q, a) <=> q[i].agent = a
  BY <1>1 DEF Of
<1>3. IsFiniteSet(1..Len(q))
  BY <1>1, FS_Interval
<1>4. IsFiniteSet(Of(q, a))
  BY <1>2, <1>3, FS_Subset
<1> QED BY <1>2, <1>4, FS_CardinalityType

\* schedule_at finds the first entry that is not earlier, or the end.
LEMMA InsertPosFacts ==
    ASSUME NEW q \in Seq(Entries), NEW t \in Int
    PROVE  /\ InsertPos(q, t) \in 1..Len(q) + 1
           /\ InsertPos(q, t) <= Len(q) => t <= q[InsertPos(q, t)].time
           /\ \A j \in 1..InsertPos(q, t)-1 : q[j].time < t
<1> DEFINE P(i) == /\ i <= Len(q) => t <= q[i].time
                   /\ \A j \in 1..i-1 : q[j].time < t
           S == { i \in 1..Len(q) : t <= q[i].time }
<1>1. Len(q) \in Nat /\ \A i \in 1..Len(q) : q[i].time \in Int
  <2>1. \A i \in 1..Len(q) : q[i] \in Entries
    OBVIOUS
  <2> QED BY <2>1 DEF Entries
<1>2. \E i \in 1..Len(q) + 1 : P(i)
  <2>1. CASE S = {}
    <3>1. P(Len(q) + 1)
      BY <1>1, <2>1
    <3> HIDE DEF P
    <3> QED BY <1>1, <3>1
  <2>2. CASE S # {}
    <3>1. S \in SUBSET Nat
      BY <1>1
    <3>2. PICK m \in S : \A n \in S : m <= n
      BY <2>2, <3>1, LeastMember
    <3>3. m \in 1..Len(q) /\ t <= q[m].time
      BY <3>2
    <3>4. ASSUME NEW j \in 1..m-1 PROVE q[j].time < t
      <4>1. j \in 1..Len(q) /\ j < m
        BY <1>1, <3>3
      <4>2. j \notin S
        BY <3>2, <3>3, <4>1
      <4> QED BY <1>1, <4>1, <4>2
    <3>5. P(m)
      BY <3>3, <3>4
    <3> HIDE DEF P
    <3> QED BY <1>1, <3>3, <3>5
  <2> QED BY <2>1, <2>2
<1>3. InsertPos(q, t) = CHOOSE i \in 1..Len(q) + 1 : P(i)
  BY DEF InsertPos
<1> HIDE DEF P
<1>4. InsertPos(q, t) \in 1..Len(q) + 1 /\ P(InsertPos(q, t))
  BY <1>2, <1>3
<1> QED BY <1>4 DEF P

\* What VecDeque::insert returns: one element longer, the tail moved by one.
LEMMA InsertAtLemma ==
    ASSUME NEW S, NEW s \in Seq(S), NEW e \in S, NEW pos \in 1..Len(s) + 1
    PROVE  /\ InsertAt(s, pos, e) \in Seq(S)
           /\ Len(InsertAt(s, pos, e)) = Len(s) + 1
           /\ \A i \in 1..Len(s)+1 :
                InsertAt(s, pos, e)[i] = IF i < pos THEN s[i] ELSE IF i = pos THEN e ELSE s[i - 1]
<1> DEFINE front == SubSeq(s, 1, pos - 1)
           back == SubSeq(s, pos, Len(s))
           one == <<e>>
<1>0. Len(s) \in Nat /\ pos \in 1..Len(s) + 1 /\ \A i \in 1..Len(s) : s[i] \in S
  OBVIOUS
<1>1. /\ front \in Seq(S)
      /\ Len(front) = pos - 1
      /\ \A i \in 1..pos-1 : front[i] = s[i]
  <2>1. \A i \in 1..pos-1 : s[i] \in S
    BY <1>0
  <2>2. 1 \in Int /\ pos - 1 \in Int
    BY <1>0
  <2>3. /\ front \in Seq(S)
        /\ Len(front) = IF 1 <= pos-1 THEN (pos-1)-1+1 ELSE 0
        /\ \A i \in 1..((pos-1)-1+1) : front[i] = s[1+i-1]
    BY <2>1, <2>2, SubSeqProperties
  <2> HIDE DEF front
  <2> QED BY <1>0, <2>3
<1>2. /\ back \in Seq(S)
      /\ Len(back) = Len(s) - pos + 1
      /\ \A i \in 1..Len(s)-pos+1 : back[i] = s[pos + i - 1]
  <2>1. \A i \in pos..Len(s) : s[i] \in S
    BY <1>0
  <2>2. pos \in Int /\ Len(s) \in Int
    BY <1>0
  <2>3. /\ back \in Seq(S)
        /\ Len(back) = IF pos <= Len(s) THEN Len(s)-pos+1 ELSE 0
        /\ \A i \in 1..(Len(s)-pos+1) : back[i] = s[pos+i-1]
    BY <2>1, <2>2, SubSeqProperties
  <2> HIDE DEF back
  <2> QED BY <1>0, <2>3
<1>3. one \in Seq(S) /\ Len(one) = 1 /\ one[1] = e
  OBVIOUS
<1>4. InsertAt(s, pos, e) = (front \o one) \o back
  BY DEF InsertAt
<1> HIDE DEF front, back, one
<1>5. /\ front \o one \in Seq(S) /\ Len(front \o one) = pos
      /\ \A i \in 1..pos-1 : (front \o one)[i] = s[i]
      /\ (front \o one)[pos] = e
  <2>1. /\ front \o one \in Seq(S) /\ Len(front \o one) = Len(front) + Len(one)
        /\ \A i \in 1..Len(front) + Len(one) :
              (front \o one)[i] = IF i <= Len(front) THEN front[i] ELSE one[i - Len(front)]
    BY <1>1, <1>3, ConcatProperties
  <2>2. \A i \in 1..pos : (front \o one)[i] = IF i <= pos - 1 THEN front[i] ELSE one[i - (pos - 1)]
    BY <1>0, <1>1, <1>3, <2>1
  <2>0. pos \in 1..pos /\ ~(pos <= pos - 1) /\ pos - (pos - 1) = 1
    BY <1>0
  <2>3. (front \o one)[pos] = one[1]
    BY <2>0, <2>2
  <2>4. ASSUME NEW i \in 1..pos-1 PROVE (front \o one)[i] = s[i]
    BY <1>0, <1>1, <2>2
  <2> QED BY <1>0, <1>1, <1>3, <2>1, <2>3, <2>4
<1> DEFINE upTo == front \o one
<1> HIDE DEF upTo
<1>6. /\ upTo \in Seq(S) /\ Len(upTo) = pos
      /\ \A i \in 1..pos-1 : upTo[i] = s[i]
      /\ upTo[pos] = e
      /\ InsertAt(s, pos, e) = upTo \o back
  BY <1>4, <1>5 DEF upTo
<1>7. /\ upTo \o back \in Seq(S) /\ Len(upTo \o back) = Len(s) + 1
  BY <1>0, <1>2, <1>6
<1>8. ASSUME NEW i \in 1..Len(s)+1
      PROVE  (upTo \o back)[i] = IF i < pos THEN s[i] ELSE IF i = pos THEN e ELSE s[i - 1]
  <2>1. (upTo \o back)[i] = IF i <= pos THEN upTo[i] ELSE back[i - pos]
    BY <1>0, <1>2, <1>6
  <2>2. i > pos => back[i - pos] = s[i - 1]
    BY <1>0, <1>2
  <2> QED BY <1>0, <1>6, <2>1, <2>2
<1> QED BY <1>6, <1>7, <1>8

\* The members of a list of entries
LEMMA EntryFacts ==
    ASSUME NEW q \in Seq(Entries)
    PROVE  /\ Len(q) \in Nat /\ DOMAIN q = 1..Len(q)
           /\ \A i \in 1..Len(q) : q[i] \in Entries /\ q[i].agent \in Agents /\ q[i].time \in Int
<1>1. Len(q) \in Nat /\ DOMAIN q = 1..Len(q) /\ \A i \in 1..Len(q) : q[i] \in Entries
  OBVIOUS
<1> QED BY <1>1 DEF Entries

\* schedule_at keeps the list in order and gives the agent one entry more.
LEMMA InsertFacts ==
    ASSUME NEW q \in Seq(Entries), NEW a \in Agents, NEW t \in Int
    PROVE  /\ Insert(q, a, t) \in Seq(Entries)
           /\ Sorted(q) => Sorted(Insert(q, a, t))
           /\ \A b : Cardinality(Of(Insert(q, a, t), b)) =
                       Cardinality(Of(q, b)) + (IF b = a THEN 1 ELSE 0)
<1> DEFINE p == InsertPos(q, t)
           e == Entry(a, t)
           r == Insert(q, a, t)
<1>1. e \in Entries /\ e.agent = a /\ e.time = t
  BY DEF Entry, Entries
<1>2. p \in 1..Len(q) + 1 /\ (p <= Len(q) => t <= q[p].time) /\ \A j \in 1..p-1 : q[j].time < t
  BY InsertPosFacts
<1>3. r = InsertAt(q, p, e)
  BY DEF Insert
<1> HIDE DEF p, e, r
<1>4. /\ r \in Seq(Entries) /\ Len(r) = Len(q) + 1
      /\ \A i \in 1..Len(q)+1 : r[i] = IF i < p THEN q[i] ELSE IF i = p THEN e ELSE q[i - 1]
  <2>1. e \in Entries /\ p \in 1..Len(q) + 1
    BY <1>1, <1>2
  <2>2. /\ InsertAt(q, p, e) \in Seq(Entries) /\ Len(InsertAt(q, p, e)) = Len(q) + 1
        /\ \A i \in 1..Len(q)+1 :
              InsertAt(q, p, e)[i] = IF i < p THEN q[i] ELSE IF i = p THEN e ELSE q[i - 1]
    BY <2>1, InsertAtLemma
  <2> QED BY <1>3, <2>2
<1>5. /\ Len(q) \in Nat /\ DOMAIN q = 1..Len(q) /\ DOMAIN r = 1..Len(q)+1
      /\ \A i \in 1..Len(q) : q[i].time \in Int
  BY <1>4, EntryFacts
<1>6. ASSUME Sorted(q) PROVE Sorted(r)
  <2> SUFFICES ASSUME NEW i \in 1..Len(q)+1, NEW j \in 1..Len(q)+1, i < j
               PROVE  r[i].time <= r[j].time
    BY <1>5 DEF Sorted
  <2>1. \A k \in 1..p-1 : k \in 1..Len(q) /\ q[k].time < t
    BY <1>2, <1>5
  <2>2. \A k \in p..Len(q) : k \in 1..Len(q) /\ t <= q[k].time
    <3> SUFFICES ASSUME NEW k \in p..Len(q) PROVE k \in 1..Len(q) /\ t <= q[k].time
      OBVIOUS
    <3>1. k \in 1..Len(q) /\ p \in 1..Len(q) /\ t <= q[p].time /\ p <= k
      BY <1>2, <1>5
    <3>2. q[p].time <= q[k].time
      BY <1>5, <1>6, <3>1 DEF Sorted
    <3> QED BY <1>5, <3>1, <3>2
  <2>3. CASE j < p
    <3>1. i \in 1..Len(q) /\ j \in 1..Len(q) /\ r[i] = q[i] /\ r[j] = q[j]
      BY <1>2, <1>4, <1>5, <2>3
    <3> QED BY <1>5, <1>6, <3>1 DEF Sorted
  <2>4. CASE j = p
    <3>1. i \in 1..p-1 /\ r[i] = q[i] /\ r[j] = e
      BY <1>2, <1>4, <1>5, <2>4
    <3> QED BY <1>1, <1>5, <2>1, <3>1
  <2>5. CASE j > p
    <3>1. j - 1 \in p..Len(q) /\ r[j] = q[j - 1]
      BY <1>2, <1>4, <1>5, <2>5
    <3>2. CASE i < p
      <4>1. i \in 1..p-1 /\ r[i] = q[i]
        BY <1>2, <1>4, <1>5, <3>2
      <4> QED BY <1>5, <2>1, <2>2, <3>1, <4>1
    <3>3. CASE i = p
      <4>1. r[i] = e
        BY <1>2, <1>4, <1>5, <3>3
      <4> QED BY <1>1, <2>2, <3>1, <4>1
    <3>4. CASE i > p
      <4>1. i - 1 \in 1..Len(q) /\ j - 1 \in 1..Len(q) /\ i - 1 < j - 1 /\ r[i] = q[i - 1]
        BY <1>2, <1>4, <1>5, <3>1, <3>4
      <4> QED BY <1>5, <1>6, <3>1, <4>1 DEF Sorted
    <3> QED BY <1>2, <1>5, <3>2, <3>3, <3>4
  <2> QED BY <1>2, <1>5, <2>3, <2>4, <2>5
<1>7. ASSUME NEW b
      PROVE  Cardinality(Of(r, b)) = Cardinality(Of(q, b)) + (IF b = a THEN 1 ELSE 0)
  <2> DEFINE S == Of(q, b)
             T == Of(r, b) \ {p}
             f == [i \in S |-> IF i < p THEN i ELSE i + 1]
  <2>1. /\ S \subseteq 1..Len(q) /\ IsFiniteSet(S) /\ Cardinality(S) \in Nat
        /\ \A i \in 1..Len(q) : i \in S <=> q[i].agent = b
    BY OfFacts
  <2>2. /\ Of(r, b) \subseteq 1..Len(q)+1
        /\ \A i \in 1..Len(q)+1 : i \in Of(r, b) <=> r[i].agent = b
    BY <1>4, OfFacts
  <2>3. \A i \in 1..Len(q)+1 : i \in T <=> i # p /\ r[i].agent = b
    BY <2>2
  <2>4. \A i \in S : f[i] \in T
    <3> SUFFICES ASSUME NEW i \in S PROVE f[i] \in T
      OBVIOUS
    <3>1. i \in 1..Len(q) /\ q[i].agent = b
      BY <2>1
    <3> HIDE DEF S, T
    <3>2. CASE i < p
      <4>1. f[i] = i /\ i \in 1..Len(q)+1 /\ i # p /\ r[i] = q[i]
        BY <1>2, <1>4, <1>5, <3>1, <3>2
      <4> QED BY <2>3, <3>1, <4>1
    <3>3. CASE ~(i < p)
      <4>1. f[i] = i + 1 /\ i + 1 \in 1..Len(q)+1 /\ i + 1 # p /\ r[i + 1] = q[i]
        BY <1>2, <1>4, <1>5, <3>1, <3>3
      <4> QED BY <2>3, <3>1, <4>1
    <3> QED BY <3>2, <3>3
  <2>5. \A x, y \in S : f[x] = f[y] => x = y
    BY <1>2, <1>5, <2>1
  <2>6. \A z \in T : \E x \in S : f[x] = z
    <3> SUFFICES ASSUME NEW z \in T PROVE \E x \in S : f[x] = z
      OBVIOUS
    <3>1. z \in 1..Len(q)+1 /\ z # p /\ r[z].agent = b
      BY <2>2
    <3> HIDE DEF T
    <3>2. CASE z < p
      <4>1. z \in 1..Len(q) /\ r[z] = q[z]
        BY <1>2, <1>4, <1>5, <3>1, <3>2
      <4>2. z \in S
        BY <2>1, <3>1, <4>1
      <4> QED BY <3>2, <4>2
    <3>3. CASE z > p
      <4>1. z - 1 \in 1..Len(q) /\ r[z] = q[z - 1] /\ ~(z - 1 < p) /\ (z - 1) + 1 = z
        BY <1>2, <1>4, <1>5, <3>1, <3>3
      <4>2. z - 1 \in S
        BY <2>1, <3>1, <4>1
      <4> QED BY <4>1, <4>2
    <3> QED BY <1>2, <1>5, <3>1, <3>2, <3>3
  <2> HIDE DEF S, T, f
  <2>7. f \in [S -> T]
    BY <2>4 DEF f
  <2>8. IsFiniteSet(T) /\ Cardinality(T) = Cardinality(S)
    BY <2>1, <2>5, <2>6, <2>7, SameSize
  <2>9. p \in Of(r, b) <=> b = a
    <3>1. p \in 1..Len(q)+1 /\ r[p] = e
      BY <1>2, <1>4, <1>5
    <3> QED BY <1>1, <2>2, <3>1
  <2>10. CASE b = a
    <3>1. Of(r, b) = T \cup {p} /\ p \notin T
      BY <2>9, <2>10 DEF T
    <3>2. Cardinality(T \cup {p}) = Cardinality(T) + 1
      BY <2>8, <3>1, FS_AddElement
    <3> QED BY <2>8, <2>10, <3>1, <3>2 DEF S
  <2>11. CASE b # a
    <3>1. Of(r, b) = T
      BY <2>9, <2>11 DEF T
    <3> QED BY <2>1, <2>8, <2>11, <3>1 DEF S
  <2> QED BY <2>10, <2>11
<1> QED BY <1>4, <1>6, <1>7 DEF r

\* pop_front: the others stay in order, and the agent has one entry less.
LEMMA TailFacts ==
    ASSUME NEW q \in Seq(Entries), q # <<>>
    PROVE  /\ Tail(q) \in Seq(Entries)
           /\ Sorted(q) => /\ Sorted(Tail(q))
                           /\ \A i \in DOMAIN Tail(q) : Head(q).time <= Tail(q)[i].time
           /\ \A b : Cardinality(Of(Tail(q), b)) =
                       Cardinality(Of(q, b)) - (IF b = Head(q).agent THEN 1 ELSE 0)
<1> DEFINE r == Tail(q)
<1>1. /\ r \in Seq(Entries) /\ Len(r) = Len(q) - 1 /\ Head(q) = q[1]
      /\ Len(q) \in Nat /\ Len(q) > 0
      /\ DOMAIN q = 1..Len(q) /\ DOMAIN r = 1..Len(q)-1
      /\ \A i \in 1..Len(q)-1 : r[i] = q[i + 1]
  OBVIOUS
<1> HIDE DEF r
<1>2. ASSUME Sorted(q)
      PROVE  Sorted(r) /\ \A i \in DOMAIN r : q[1].time <= r[i].time
  <2>1. \A i, j \in 1..Len(q) : i < j => q[i].time <= q[j].time
    BY <1>1, <1>2 DEF Sorted
  <2>2. \A i \in 1..Len(q)-1 : i + 1 \in 1..Len(q) /\ 1 < i + 1
    BY <1>1
  <2>3. \A i, j \in 1..Len(q)-1 : i < j => i + 1 < j + 1
    BY <1>1
  <2>4. Sorted(r)
    BY <1>1, <2>1, <2>2, <2>3 DEF Sorted
  <2>5. \A i \in 1..Len(q)-1 : q[1].time <= r[i].time
    <3>1. 1 \in 1..Len(q)
      BY <1>1
    <3> QED BY <1>1, <2>1, <2>2, <3>1
  <2> QED BY <1>1, <2>4, <2>5
<1>3. ASSUME NEW b
      PROVE  Cardinality(Of(r, b)) = Cardinality(Of(q, b)) - (IF b = q[1].agent THEN 1 ELSE 0)
  <2> DEFINE S == Of(r, b)
             T == Of(q, b) \ {1}
             f == [i \in S |-> i + 1]
  <2>1. /\ S \subseteq 1..Len(q)-1 /\ IsFiniteSet(S) /\ Cardinality(S) \in Nat
        /\ \A i \in 1..Len(q)-1 : i \in S <=> r[i].agent = b
    BY <1>1, OfFacts
  <2>2. /\ Of(q, b) \subseteq 1..Len(q) /\ IsFiniteSet(Of(q, b))
        /\ \A i \in 1..Len(q) : i \in Of(q, b) <=> q[i].agent = b
    BY OfFacts
  <2>3. \A i \in S : f[i] \in T
    BY <1>1, <2>1, <2>2
  <2>4. \A x, y \in S : f[x] = f[y] => x = y
    BY <1>1, <2>1
  <2>5. \A z \in T : \E x \in S : f[x] = z
    <3> SUFFICES ASSUME NEW z \in T PROVE \E x \in S : f[x] = z
      OBVIOUS
    <3>1. z \in 1..Len(q) /\ z # 1 /\ q[z].agent = b
      BY <2>2
    <3>2. z - 1 \in 1..Len(q)-1 /\ (z - 1) + 1 = z
      BY <1>1, <3>1
    <3>3. z - 1 \in S
      BY <1>1, <2>1, <3>1, <3>2
    <3> QED BY <3>2, <3>3
  <2> HIDE DEF S, T, f
  <2>6. f \in [S -> T]
    BY <2>3 DEF f
  <2>7. IsFiniteSet(T) /\ Cardinality(T) = Cardinality(S)
    BY <2>1, <2>4, <2>5, <2>6, SameSize
  <2>8. 1 \in Of(q, b) <=> b = q[1].agent
    BY <1>1, <2>2
  <2>9. CASE b = q[1].agent
    <3>1. Of(q, b) = T \cup {1} /\ 1 \notin T
      BY <2>8, <2>9 DEF T
    <3>2. Cardinality(T \cup {1}) = Cardinality(T) + 1
      BY <2>7, <3>1, FS_AddElement
    <3> QED BY <2>1, <2>7, <2>9, <3>1, <3>2 DEF S
  <2>10. CASE b # q[1].agent
    <3>1. Of(q, b) = T
      BY <2>8, <2>10 DEF T
    <3> QED BY <2>1, <2>7, <2>10, <3>1 DEF S
  <2> QED BY <2>9, <2>10
<1> QED BY <1>1, <1>2, <1>3 DEF r

-----------------------------------------------------------------------------
\* What Initialize puts into the list for the first n ids
InitialList(list, n) == [i \in 1..n |-> Entry(list[n - i + 1], 0)]

\* Initialize is the loop of initialize in one: with one id more the list is what schedule_at
\* makes, at time zero, of the list without it.
THEOREM InitializeSchedules ==
    ASSUME NEW m \in Nat, NEW list \in [1..m -> Agents], NEW n \in Nat, n < m
    PROVE  Insert(InitialList(list, n), list[n + 1], 0) = InitialList(list, n + 1)
<1> DEFINE q == InitialList(list, n)
           r == InitialList(list, n + 1)
           e == Entry(list[n + 1], 0)
           p == InsertPos(q, 0)
<1>1. \A k \in 1..m : Entry(list[k], 0) \in Entries /\ Entry(list[k], 0).time = 0
  BY DEF Entry, Entries
<1>2. \A i \in 1..n : n - i + 1 \in 1..m
  OBVIOUS
<1>3. /\ q \in Seq(Entries) /\ Len(q) = n
      /\ \A i \in 1..n : q[i] = Entry(list[n - i + 1], 0)
  <2>1. q \in [1..n -> Entries]
    BY <1>1, <1>2 DEF InitialList
  <2> QED BY <2>1 DEF InitialList
<1>4. /\ DOMAIN r = 1..n+1 /\ r[1] = e
      /\ \A i \in 2..n+1 : r[i] = q[i - 1]
  <2>1. /\ DOMAIN r = 1..n+1
        /\ \A i \in 1..n+1 : r[i] = Entry(list[(n + 1) - i + 1], 0)
    BY DEF InitialList
  <2>2. 1 \in 1..n+1 /\ (n + 1) - 1 + 1 = n + 1
    OBVIOUS
  <2>3. \A i \in 2..n+1 : i \in 1..n+1 /\ i - 1 \in 1..n /\ (n + 1) - i + 1 = n - (i - 1) + 1
    OBVIOUS
  <2> HIDE DEF q, r
  <2> QED BY <1>3, <2>1, <2>2, <2>3
<1> HIDE DEF q, r
<1>5. /\ p \in 1..n + 1
      /\ \A j \in 1..p-1 : q[j].time < 0
  <2>1. q \in Seq(Entries) /\ 0 \in Int
    BY <1>3
  <2>2. /\ InsertPos(q, 0) \in 1..Len(q) + 1
        /\ \A j \in 1..InsertPos(q, 0)-1 : q[j].time < 0
    BY <2>1, InsertPosFacts
  <2> QED BY <1>3, <2>2
<1>6. p = 1
  <2>1. \A j \in 1..n : q[j].time = 0
    BY <1>1, <1>2, <1>3
  <2> HIDE DEF p
  <2>2. p > 1 => 1 \in 1..p-1 /\ 1 \in 1..n
    BY <1>5
  <2>3. ~(p > 1)
    BY <1>5, <2>1, <2>2
  <2> QED BY <1>5, <2>3
<1> HIDE DEF p
<1>7. e \in Entries
  BY <1>1
<1> HIDE DEF e
<1>8. /\ InsertAt(q, 1, e) \in Seq(Entries) /\ Len(InsertAt(q, 1, e)) = n + 1
      /\ \A i \in 1..n+1 : InsertAt(q, 1, e)[i] =
            IF i < 1 THEN q[i] ELSE IF i = 1 THEN e ELSE q[i - 1]
  <2>1. 1 \in 1..Len(q) + 1
    BY <1>3
  <2>2. q \in Seq(Entries)
    BY <1>3
  <2>3. /\ InsertAt(q, 1, e) \in Seq(Entries) /\ Len(InsertAt(q, 1, e)) = Len(q) + 1
        /\ \A i \in 1..Len(q)+1 : InsertAt(q, 1, e)[i] =
              IF i < 1 THEN q[i] ELSE IF i = 1 THEN e ELSE q[i - 1]
    BY <1>7, <2>1, <2>2, InsertAtLemma
  <2> QED BY <1>3, <2>3
<1>9. ASSUME NEW i \in 1..n+1 PROVE InsertAt(q, 1, e)[i] = r[i]
  <2>1. i = 1 \/ (i \in 2..n+1 /\ ~(i < 1) /\ i # 1)
    OBVIOUS
  <2> QED BY <1>4, <1>8, <2>1
<1>10. InsertAt(q, 1, e) = r
  <2>1. InsertAt(q, 1, e) = [i \in 1..n+1 |-> InsertAt(q, 1, e)[i]]
    BY <1>8
  <2>2. r = [i \in 1..n+1 |-> r[i]]
    BY <1>4 DEF r, InitialList
  <2> QED BY <1>9, <2>1, <2>2
<1> QED BY <1>6, <1>10 DEF Insert, q, r, e, p

\* initialize gives each agent of the list one entry.
LEMMA InitialFacts ==
    ASSUME NEW n \in Nat, NEW list \in [1..n -> Agents], IsInjective(list),
           NEW q, q = [i \in DOMAIN list |-> Entry(Reverse(list)[i], 0)]
    PROVE  /\ q \in Seq(Entries)
           /\ Sorted(q)
           /\ \A b : Cardinality(Of(q, b)) = IF b \in ToSet(list) THEN 1 ELSE 0
<1>1. /\ list \in Seq(Agents) /\ Len(list) = n /\ DOMAIN list = 1..n
  OBVIOUS
<1>2. ASSUME NEW i \in 1..n
      PROVE  Reverse(list)[i] = list[n - i + 1] /\ n - i + 1 \in 1..n /\ list[n - i + 1] \in Agents
  <2>1. n - i + 1 \in 1..n
    OBVIOUS
  <2> QED BY <1>1, <2>1 DEF Reverse
<1>3. /\ DOMAIN q = 1..n
      /\ \A i \in 1..n : q[i] = Entry(list[n - i + 1], 0)
  BY <1>1, <1>2
<1>4. \A i \in 1..n : q[i] \in Entries /\ q[i].time = 0 /\ q[i].agent = list[n - i + 1]
  BY <1>2, <1>3 DEF Entry, Entries
<1>5. q \in Seq(Entries) /\ Len(q) = n
  <2>1. q = [i \in 1..n |-> q[i]]
    BY <1>1
  <2>2. q \in [1..n -> Entries]
    BY <1>4, <2>1
  <2> QED BY <2>2
<1>6. Sorted(q)
  BY <1>3, <1>4 DEF Sorted
<1>7. ASSUME NEW b
      PROVE  Cardinality(Of(q, b)) = IF b \in ToSet(list) THEN 1 ELSE 0
  <2>1. Of(q, b) = { i \in 1..n : list[n - i + 1] = b }
    BY <1>3, <1>4 DEF Of
  <2>2. CASE b \in ToSet(list)
    <3>1. PICK k \in 1..n : list[k] = b
      BY <1>1, <2>2 DEF ToSet
    <3>2. n - k + 1 \in 1..n /\ n - (n - k + 1) + 1 = k
      OBVIOUS
    <3>3. ASSUME NEW i \in 1..n, list[n - i + 1] = b PROVE i = n - k + 1
      <4>1. n - i + 1 = k
        BY <1>1, <1>2, <3>1, <3>3 DEF IsInjective
      <4> QED BY <4>1
    <3>4. Of(q, b) = {n - k + 1}
      BY <2>1, <3>1, <3>2, <3>3
    <3> QED BY <2>2, <3>4, FS_Singleton
  <2>3. CASE b \notin ToSet(list)
    <3>1. Of(q, b) = {}
      BY <1>1, <1>2, <2>1, <2>3 DEF ToSet
    <3> QED BY <2>3, <3>1, FS_EmptySet
  <2> QED BY <2>2, <2>3
<1> QED BY <1>5, <1>6, <1>7

\* retain: the positions that stay, and what is left of the list
Staying(q, a, stay) ==
    LET others == DOMAIN q \ Of(q, a)
    IN  /\ stay \in [1..Cardinality(others) -> others]
        /\ \A i, j \in DOMAIN stay : i < j => stay[i] < stay[j]

Kept(q, stay) == [i \in DOMAIN stay |-> q[stay[i]]]

\* retain: the others keep their entries, in order.
LEMMA RetainFacts ==
    ASSUME NEW q \in Seq(Entries), NEW a, NEW stay, Staying(q, a, stay)
    PROVE  /\ Kept(q, stay) \in Seq(Entries)
           /\ Sorted(q) => Sorted(Kept(q, stay))
           /\ Cardinality(Of(Kept(q, stay), a)) = 0
           /\ \A b : b # a => Cardinality(Of(Kept(q, stay), b)) = Cardinality(Of(q, b))
<1> PICK others : others = DOMAIN q \ Of(q, a)
  OBVIOUS
<1> PICK r : r = Kept(q, stay)
  OBVIOUS
<1>0. /\ r = [i \in DOMAIN stay |-> q[stay[i]]]
      /\ stay \in [1..Cardinality(others) -> others]
      /\ \A i, j \in DOMAIN stay : i < j => stay[i] < stay[j]
  BY DEF Kept, Staying
<1> DEFINE n == Cardinality(others)
<1>1. /\ others \subseteq 1..Len(q) /\ Len(q) \in Nat /\ DOMAIN q = 1..Len(q)
      /\ \A i \in 1..Len(q) : i \in others <=> q[i].agent # a
  BY OfFacts, EntryFacts
<1>2. IsFiniteSet(others) /\ n \in Nat
  <2>1. IsFiniteSet(1..Len(q))
    BY <1>1, FS_Interval
  <2> QED BY <1>1, <2>1, FS_Subset, FS_CardinalityType
<1>3. /\ DOMAIN stay = 1..n /\ \A i \in 1..n : stay[i] \in others
  BY <1>0
<1> HIDE DEF n
<1>4. \A i, j \in 1..n : stay[i] = stay[j] => i = j
  <2> SUFFICES ASSUME NEW i \in 1..n, NEW j \in 1..n, stay[i] = stay[j], i # j PROVE FALSE
    OBVIOUS
  <2>1. i < j \/ j < i
    BY <1>2
  <2>2. stay[i] < stay[j] \/ stay[j] < stay[i]
    BY <1>0, <1>3, <2>1
  <2>3. stay[i] \in Int
    <3>1. stay[i] \in others
      BY <1>3
    <3>2. stay[i] \in 1..Len(q)
      BY <1>1, <3>1
    <3> QED BY <1>1, <3>2
  <2> QED BY <2>2, <2>3
<1>5. \A z \in others : \E i \in 1..n : stay[i] = z
  <2>1. stay \in Injection(1..n, others)
    BY <1>0, <1>3, <1>4 DEF Injection, IsInjective, n
  <2>2. Cardinality(1..n) = n
    BY <1>2, FS_Interval
  <2>3. stay \in Surjection(1..n, others)
    BY <1>2, <2>1, <2>2, FS_Injection DEF n
  <2> QED BY <2>3 DEF Surjection
<1>6. /\ r \in Seq(Entries) /\ Len(r) = n
      /\ \A i \in 1..n : r[i] = q[stay[i]] /\ stay[i] \in 1..Len(q)
  <2>1. \A i \in 1..n : r[i] = q[stay[i]] /\ stay[i] \in 1..Len(q) /\ q[stay[i]] \in Entries
    BY <1>0, <1>1, <1>3, EntryFacts
  <2>2. r \in [1..n -> Entries]
    BY <1>0, <1>3, <2>1
  <2>3. r \in Seq(Entries)
    BY <1>2, <2>2, SeqDef
  <2>4. DOMAIN r = 1..n
    BY <2>2
  <2>5. Len(r) = n
    BY <1>2, <2>3, <2>4, LenProperties
  <2> QED BY <2>1, <2>3, <2>5
<1>7. DOMAIN r = 1..n
  BY <1>0, <1>3
<1>8. ASSUME Sorted(q) PROVE Sorted(r)
  <2> SUFFICES ASSUME NEW i \in 1..n, NEW j \in 1..n, i < j PROVE r[i].time <= r[j].time
    BY <1>7 DEF Sorted
  <2>1. stay[i] < stay[j]
    BY <1>0, <1>3
  <2>2. q[stay[i]].time <= q[stay[j]].time
    BY <1>1, <1>6, <1>8, <2>1 DEF Sorted
  <2> QED BY <1>6, <2>2
<1>9. Cardinality(Of(r, a)) = 0
  <2>1. \A i \in 1..n : r[i].agent # a
    BY <1>1, <1>3, <1>6
  <2>2. Of(r, a) = {}
    BY <1>7, <2>1 DEF Of
  <2> QED BY <2>2, FS_EmptySet
<1>10. ASSUME NEW b, b # a
       PROVE  Cardinality(Of(r, b)) = Cardinality(Of(q, b))
  <2> DEFINE S == Of(r, b)
             T == Of(q, b)
             f == [i \in S |-> stay[i]]
  <2>1. /\ S \subseteq 1..n /\ IsFiniteSet(S)
        /\ \A i \in 1..n : i \in S <=> r[i].agent = b
    BY <1>6, OfFacts
  <2>2. /\ T \subseteq 1..Len(q)
        /\ \A i \in 1..Len(q) : i \in T <=> q[i].agent = b
    BY OfFacts
  <2>3. \A i \in S : f[i] \in T
    BY <1>6, <2>1, <2>2
  <2>4. \A x, y \in S : f[x] = f[y] => x = y
    BY <1>4, <2>1
  <2>5. \A z \in T : \E x \in S : f[x] = z
    <3> SUFFICES ASSUME NEW z \in T PROVE \E x \in S : f[x] = z
      OBVIOUS
    <3>1. z \in others /\ q[z].agent = b
      BY <1>1, <1>10, <2>2
    <3>2. PICK i \in 1..n : stay[i] = z
      BY <1>5, <3>1
    <3>3. i \in S
      BY <1>6, <2>1, <3>1, <3>2
    <3> QED BY <3>2, <3>3
  <2> HIDE DEF S, T, f
  <2>6. f \in [S -> T]
    BY <2>3 DEF f
  <2>7. Cardinality(T) = Cardinality(S)
    BY <2>1, <2>4, <2>5, <2>6, SameSize
  <2> QED BY <2>7 DEF S, T
<1> QED BY <1>6, <1>8, <1>9, <1>10

-----------------------------------------------------------------------------
LEMMA SchedulerInitInv == SchedulerInit => SchedulerInv
<1> SUFFICES ASSUME SchedulerInit PROVE SchedulerInv
  OBVIOUS
<1>1. /\ queue = <<>> /\ last = Nothing /\ owed = [a \in Agents |-> 0]
  BY DEF SchedulerInit
<1>2. queue \in Seq(Entries) /\ DOMAIN queue = {}
  BY <1>1
<1>3. last \in Int
  BY <1>1, EntryTimesAssumption DEF Nothing
<1>4. owed = Counts(queue)
  <2>1. \A a \in Agents : Cardinality(Of(queue, a)) = 0
    <3>1. \A a \in Agents : Of(queue, a) = {}
      BY <1>2 DEF Of
    <3> QED BY <3>1, FS_EmptySet
  <2> QED BY <1>1, <2>1 DEF Counts
<1> QED BY <1>1, <1>2, <1>3, <1>4 DEF SchedulerInv, SchedulerTypeOK, Sorted, ServedBeforeRest, NothingLost

LEMMA InitializeKeeps ==
    ASSUME SchedulerInv, NEW list \in Lists, Initialize(list) PROVE SchedulerInv'
<1>1. PICK n \in Nat : list \in [1..n -> Agents] /\ IsInjective(list)
  <2>1. PICK n \in 0..Cardinality(Agents) : list \in [1..n -> Agents] /\ IsInjective(list)
    BY DEF Lists
  <2> QED BY <2>1
<1>2. /\ queue' = [i \in DOMAIN list |-> Entry(Reverse(list)[i], 0)]
      /\ owed' = [a \in Agents |-> IF a \in ToSet(list) THEN 1 ELSE 0]
      /\ last' = Nothing
  BY DEF Initialize
<1>3. /\ queue' \in Seq(Entries)
      /\ Sorted(queue')
      /\ \A b : Cardinality(Of(queue', b)) = IF b \in ToSet(list) THEN 1 ELSE 0
  BY <1>1, <1>2, InitialFacts
<1>4. last' \in Int
  BY <1>2, EntryTimesAssumption DEF Nothing
<1>5. owed' \in [Agents -> Int]
  BY <1>2
<1>6. owed' = Counts(queue')
  BY <1>2, <1>3 DEF Counts
<1>7. Nothing' = Nothing
  BY DEF Nothing
<1>8. ServedBeforeRest'
  BY <1>2, <1>7 DEF ServedBeforeRest
<1>9. NothingLost'
  BY <1>6 DEF NothingLost
<1>10. SchedulerTypeOK'
  BY <1>3, <1>4, <1>5 DEF SchedulerTypeOK
<1>11. Sorted(queue)'
  BY <1>3
<1> QED BY <1>8, <1>9, <1>10, <1>11 DEF SchedulerInv

LEMMA ScheduleKeeps ==
    ASSUME SchedulerInv, NEW a \in Agents, NEW t \in Int, Schedule(a, t) PROVE SchedulerInv'
<1>1. /\ queue' = Insert(queue, a, t)
      /\ owed' = [owed EXCEPT ![a] = @ + 1]
      /\ last' = Nothing
  BY DEF Schedule
<1>2. /\ queue \in Seq(Entries) /\ owed \in [Agents -> Int]
      /\ Sorted(queue) /\ owed = Counts(queue)
  BY DEF SchedulerInv, SchedulerTypeOK, NothingLost
<1>3. /\ queue' \in Seq(Entries)
      /\ Sorted(queue')
      /\ \A b : Cardinality(Of(queue', b)) = Cardinality(Of(queue, b)) + (IF b = a THEN 1 ELSE 0)
  <2>1. queue \in Seq(Entries)
    BY <1>2
  <2>2. Insert(queue, a, t) \in Seq(Entries)
    BY <2>1, InsertFacts
  <2>3. Sorted(queue) => Sorted(Insert(queue, a, t))
    BY <2>1, InsertFacts
  <2>4. \A b : Cardinality(Of(Insert(queue, a, t), b)) =
                Cardinality(Of(queue, b)) + (IF b = a THEN 1 ELSE 0)
    BY <2>1, InsertFacts
  <2> QED BY <1>1, <1>2, <2>2, <2>3, <2>4
<1>4. last' \in Int
  BY <1>1, EntryTimesAssumption DEF Nothing
<1>5. owed' \in [Agents -> Int]
  BY <1>1, <1>2
<1>6. owed' = Counts(queue')
  <2>1. \A b \in Agents : owed[b] = Cardinality(Of(queue, b))
    BY <1>2 DEF Counts
  <2>2. \A b \in Agents : owed'[b] = owed[b] + (IF b = a THEN 1 ELSE 0)
    BY <1>1, <1>2
  <2>3. \A b \in Agents : owed'[b] = Cardinality(Of(queue', b))
    BY <1>3, <2>1, <2>2
  <2> QED BY <1>5, <2>3 DEF Counts
<1>7. Nothing' = Nothing
  BY DEF Nothing
<1>8. ServedBeforeRest'
  BY <1>1, <1>7 DEF ServedBeforeRest
<1>9. NothingLost'
  BY <1>6 DEF NothingLost
<1>10. SchedulerTypeOK'
  BY <1>3, <1>4, <1>5 DEF SchedulerTypeOK
<1>11. Sorted(queue)'
  BY <1>3
<1> QED BY <1>8, <1>9, <1>10, <1>11 DEF SchedulerInv

LEMMA RemoveAgentKeeps ==
    ASSUME SchedulerInv, NEW a \in Agents, RemoveAgent(a) PROVE SchedulerInv'
<1>1. /\ owed' = [owed EXCEPT ![a] = 0]
      /\ last' = Nothing
  BY DEF RemoveAgent
<1>2. /\ queue \in Seq(Entries) /\ owed \in [Agents -> Int]
      /\ Sorted(queue) /\ owed = Counts(queue)
  BY DEF SchedulerInv, SchedulerTypeOK, NothingLost
<1>3. PICK stay : Staying(queue, a, stay) /\ queue' = Kept(queue, stay)
  BY DEF RemoveAgent, Staying, Kept
<1>4. queue \in Seq(Entries)
  BY <1>2
<1>5. /\ queue' \in Seq(Entries)
      /\ Sorted(queue')
      /\ Cardinality(Of(queue', a)) = 0
      /\ \A b : b # a => Cardinality(Of(queue', b)) = Cardinality(Of(queue, b))
  <2>1. Kept(queue, stay) \in Seq(Entries)
    BY <1>3, <1>4, RetainFacts
  <2>2. Sorted(queue) => Sorted(Kept(queue, stay))
    BY <1>3, <1>4, RetainFacts
  <2>3. Cardinality(Of(Kept(queue, stay), a)) = 0
    BY <1>3, <1>4, RetainFacts
  <2>4. \A b : b # a => Cardinality(Of(Kept(queue, stay), b)) = Cardinality(Of(queue, b))
    BY <1>3, <1>4, RetainFacts
  <2> QED BY <1>2, <1>3, <2>1, <2>2, <2>3, <2>4
<1>6. last' \in Int
  BY <1>1, EntryTimesAssumption DEF Nothing
<1>7. owed' \in [Agents -> Int]
  BY <1>1, <1>2
<1>8. owed' = Counts(queue')
  <2>1. \A b \in Agents : owed[b] = Cardinality(Of(queue, b))
    BY <1>2 DEF Counts
  <2>2. \A b \in Agents : owed'[b] = IF b = a THEN 0 ELSE owed[b]
    BY <1>1, <1>2
  <2>3. \A b \in Agents : owed'[b] = Cardinality(Of(queue', b))
    BY <1>5, <2>1, <2>2
  <2> QED BY <1>7, <2>3 DEF Counts
<1>9. Nothing' = Nothing
  BY DEF Nothing
<1>10. ServedBeforeRest'
  BY <1>1, <1>9 DEF ServedBeforeRest
<1>11. NothingLost'
  BY <1>8 DEF NothingLost
<1>12. SchedulerTypeOK'
  BY <1>5, <1>6, <1>7 DEF SchedulerTypeOK
<1>13. Sorted(queue)'
  BY <1>5
<1> QED BY <1>10, <1>11, <1>12, <1>13 DEF SchedulerInv

LEMMA NextBatchKeeps ==
    ASSUME SchedulerInv, NextBatch
    PROVE  SchedulerInv' /\ (last # Nothing => last <= last')
<1>1. /\ queue' = Tail(queue) /\ queue # <<>>
      /\ owed' = [owed EXCEPT ![Head(queue).agent] = @ - 1]
      /\ last' = Head(queue).time
  BY DEF NextBatch, HasDue
<1>2. /\ queue \in Seq(Entries) /\ owed \in [Agents -> Int]
      /\ Sorted(queue) /\ owed = Counts(queue)
      /\ last # Nothing => \A i \in DOMAIN queue : last <= queue[i].time
  BY DEF SchedulerInv, SchedulerTypeOK, NothingLost, ServedBeforeRest
<1>3. /\ queue' \in Seq(Entries)
      /\ Sorted(queue')
      /\ \A i \in DOMAIN queue' : Head(queue).time <= queue'[i].time
      /\ \A b : Cardinality(Of(queue', b)) =
                  Cardinality(Of(queue, b)) - (IF b = Head(queue).agent THEN 1 ELSE 0)
  BY <1>1, <1>2, TailFacts
<1>4. /\ Head(queue) = queue[1] /\ 1 \in DOMAIN queue
      /\ Head(queue).agent \in Agents /\ Head(queue).time \in Int
  <2>1. Head(queue) = queue[1] /\ 1 \in DOMAIN queue /\ 1 \in 1..Len(queue)
    BY <1>1, <1>2
  <2> QED BY <1>2, <2>1, EntryFacts
<1>5. last' \in Int /\ (last # Nothing => last <= last')
  BY <1>1, <1>2, <1>4
<1>6. owed' \in [Agents -> Int]
  BY <1>1, <1>2, <1>4
<1>7. owed' = Counts(queue')
  <2>1. \A b \in Agents : owed[b] = Cardinality(Of(queue, b))
    BY <1>2 DEF Counts
  <2>2. \A b \in Agents : owed'[b] = owed[b] - (IF b = Head(queue).agent THEN 1 ELSE 0)
    BY <1>1, <1>2, <1>4
  <2>3. \A b \in Agents : owed'[b] = Cardinality(Of(queue', b))
    BY <1>3, <2>1, <2>2
  <2> QED BY <1>6, <2>3 DEF Counts
<1>8. ServedBeforeRest'
  BY <1>1, <1>3 DEF ServedBeforeRest
<1>9. NothingLost'
  BY <1>7 DEF NothingLost
<1>10. SchedulerTypeOK'
  BY <1>3, <1>5, <1>6 DEF SchedulerTypeOK
<1>11. Sorted(queue)'
  BY <1>3
<1> QED BY <1>5, <1>8, <1>9, <1>10, <1>11 DEF SchedulerInv

\* A step that leaves the list and the record of what is owed alone
LEMMA OtherStepsKeep ==
    ASSUME SchedulerInv, UNCHANGED <<queue, owed, last>> PROVE SchedulerInv'
<1>1. queue' = queue /\ owed' = owed /\ last' = last /\ Nothing' = Nothing
  BY DEF Nothing
<1>2. SchedulerTypeOK'
  BY <1>1 DEF SchedulerInv, SchedulerTypeOK
<1>3. Sorted(queue)'
  BY <1>1 DEF SchedulerInv, Sorted
<1>4. ServedBeforeRest'
  BY <1>1 DEF SchedulerInv, ServedBeforeRest
<1>5. NothingLost'
  BY <1>1 DEF SchedulerInv, NothingLost, Counts, Of
<1> QED BY <1>2, <1>3, <1>4, <1>5 DEF SchedulerInv

\* Every step keeps the invariant, and what is served is no earlier than what was.
LEMMA SchedulerStep ==
    ASSUME SchedulerInv, [SchedulerNext]_schedulerVars
    PROVE  /\ SchedulerInv'
           /\ last # Nothing /\ last' # Nothing => last <= last'
<1> last \in Int
  BY DEF SchedulerInv, SchedulerTypeOK
<1>1. CASE \E list \in Lists : Initialize(list)
  <2>1. last' = Nothing
    BY <1>1 DEF Initialize
  <2>2. Nothing' = Nothing
    BY DEF Nothing
  <2> QED BY <1>1, <2>1, <2>2, InitializeKeeps
<1>2. CASE \E a \in Agents, t \in EntryTimes : ScheduleAt(a, t)
  <2>1. PICK a \in Agents, t \in Int : Schedule(a, t)
    BY <1>2, EntryTimesAssumption DEF ScheduleAt
  <2>2. last' = Nothing
    BY <2>1 DEF Schedule
  <2> QED BY <2>1, <2>2, ScheduleKeeps
<1>3. CASE \E a \in Agents : AddAgent(a)
  <2>1. PICK a \in Agents : Schedule(a, 0)
    BY <1>3 DEF AddAgent
  <2>2. last' = Nothing
    BY <2>1 DEF Schedule
  <2> QED BY <2>1, <2>2, ScheduleKeeps
<1>4. CASE \E a \in Agents : RemoveAgent(a)
  <2>1. last' = Nothing
    BY <1>4 DEF RemoveAgent
  <2> QED BY <1>4, <2>1, RemoveAgentKeeps
<1>5. CASE NextBatch
  BY <1>5, NextBatchKeeps
<1>6. CASE BeginTick \/ Spin \/ EndTick \/ UNCHANGED schedulerVars
  <2>1. UNCHANGED <<queue, owed, last>>
    BY <1>6 DEF BeginTick, Spin, EndTick, schedulerVars
  <2> QED BY <2>1, OtherStepsKeep
<1> QED BY <1>1, <1>2, <1>3, <1>4, <1>5, <1>6 DEF SchedulerNext

\* The invariant of EventScheduler
THEOREM ThmSchedulerInvariant == SchedulerSpec => []SchedulerInv
<1>1. SchedulerInit => SchedulerInv
  BY SchedulerInitInv
<1>2. SchedulerInv /\ [SchedulerNext]_schedulerVars => SchedulerInv'
  BY SchedulerStep
<1> QED BY <1>1, <1>2, PTL DEF SchedulerSpec

\* What schedule_at, initialize and add_agent put into the list is there until it is
\* served or its agent removed, once for each call, and nothing else is.
THEOREM ThmNothingScheduledLost == SchedulerSpec => []NothingLost
<1>1. SchedulerInv => NothingLost
  BY DEF SchedulerInv
<1> QED BY <1>1, ThmSchedulerInvariant, PTL

\* While nothing is scheduled, next_batch serves the entries in the order of their times.
THEOREM ThmServedInOrder == SchedulerSpec => ServedInOrder
<1>1. SchedulerInv /\ [SchedulerNext]_schedulerVars
        => [last # Nothing /\ last' # Nothing => last <= last']_schedulerVars
  BY SchedulerStep
<1> QED BY <1>1, ThmSchedulerInvariant, PTL DEF SchedulerSpec, ServedInOrder

\* The entry that is first lies in the future.
Stalled == phase = "tick" /\ HasNext /\ ~HasDue

\* Why TickEnds holds, and where it stops: in a tick the list only gets shorter ...
TickDescends ==
    [][phase = "tick" /\ phase' = "tick" => queue' = Tail(queue) /\ Len(queue') < Len(queue)]_schedulerVars

\* Each turn of the model's loop takes one entry off the list, but once an entry
\* of the future is first, has_next stays true, next_batch stays empty, and the
\* step never ends.
THEOREM TickDescendsOrStalls ==
    SchedulerSpec => TickDescends /\ [](Stalled => []Stalled)
<1>1. SchedulerInv /\ [SchedulerNext]_schedulerVars
        => [phase = "tick" /\ phase' = "tick"
              => queue' = Tail(queue) /\ Len(queue') < Len(queue)]_schedulerVars
  <2>1. SUFFICES ASSUME SchedulerInv, SchedulerNext, ~UNCHANGED schedulerVars,
                        phase = "tick", phase' = "tick"
                 PROVE  queue' = Tail(queue) /\ Len(queue') < Len(queue)
    OBVIOUS
  <2>2. NextBatch
    BY <2>1 DEF SchedulerNext, Initialize, ScheduleAt, Schedule, AddAgent, RemoveAgent,
                BeginTick, Spin, EndTick
  <2>3. queue # <<>> /\ queue' = Tail(queue) /\ queue \in Seq(Entries)
    BY <2>1, <2>2 DEF NextBatch, HasDue, SchedulerInv, SchedulerTypeOK
  <2> QED BY <2>3
<1>2. Stalled /\ [SchedulerNext]_schedulerVars => Stalled'
  <2>1. SUFFICES ASSUME Stalled, SchedulerNext PROVE UNCHANGED schedulerVars
    BY DEF Stalled, HasNext, HasDue, schedulerVars
  <2> QED BY <2>1 DEF Stalled, SchedulerNext, Initialize, ScheduleAt, Schedule, AddAgent,
                      RemoveAgent, BeginTick, NextBatch, Spin, EndTick
<1> QED BY <1>1, <1>2, ThmSchedulerInvariant, PTL DEF SchedulerSpec, TickDescends
=============================================================================
