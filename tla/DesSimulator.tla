---------------------------- MODULE DesSimulator ----------------------------
(***************************************************************************)
(* DiscreteEventSimulator of gausstwin-des/src/lib.rs: one thread in run() *)
(* and others that schedule, cancel and roll back meanwhile; every method  *)
(* takes &self, and each lock is taken and released on its own.  A step    *)
(* here is what happens under one lock.  The queue and the map of events   *)
(* change together, under the queue's write lock, and are one set.         *)
(*                                                                         *)
(* The queue is a max-heap of (time, priority): the latest event comes out *)
(* first.  Priorities only decide ties, which are left open; the state     *)
(* history that events write is left out.                                  *)
(***************************************************************************)
EXTENDS Integers, FiniteSets, Functions

CONSTANTS
    Ids, Times,         \* of the events clients schedule
    Clients,            \* threads beside the one in run()
    MaxTime, MaxEvents, \* SimulationConfig: max_time, max_events
    Modes,              \* values of parallel_execution
    Checkpointing,      \* checkpoint_interval is Some(_)
    MaxCheckpoints,     \* 10 in the code
    MaxSchedules        \* bound: calls of schedule_event

ASSUME TimesAssumption == Times \subseteq Nat /\ MaxTime \in Nat
ASSUME CountsAssumption ==
    MaxEvents \in Nat /\ MaxCheckpoints \in Nat \ {0} /\ MaxSchedules \in Nat
ASSUME SwitchesAssumption == Modes \subseteq BOOLEAN /\ Checkpointing \in BOOLEAN

VARIABLES
    pending,        \* queue and events: a set of [id, time], one per id
    pendingCount,   \* stats.pending_events
    now,            \* current_time
    checkpoints,    \* a set of [time, events], one per time
    parallel,       \* parallel_execution
    pc,             \* where run() is
    peeked,         \* time of the event run() peeked
    count,          \* events_processed, local to run()
    ending,         \* the checkpoint being made is the one after the loop
    snapTime,       \* time of the checkpoint being made
    snapEvents,     \* its pending_events
    client,         \* what each client is in the middle of
    orphans,        \* history: events counted as pending that left the queue unnoticed
    scheduled,      \* history: events queued, per id
    processed,      \* history: executions, per id
    inRun           \* history: executions by the run() under way

runVars == <<parallel, pc, peeked, count, ending, snapTime, snapEvents, inRun>>
vars == <<pending, pendingCount, now, checkpoints, client, orphans, scheduled,
          processed, runVars>>

Idle == [op |-> "none"]

\* A rollback_to_time that called schedule_event holds the queue's lock for ever.
QueueFree == \A c \in Clients : client[c].op # "stuck"

Latest == { e \in pending : \A other \in pending : other.time <= e.time }

WithId(id) == { e \in pending : e.id = id }

-----------------------------------------------------------------------------
Init ==
    /\ pending = {}
    /\ pendingCount = 0
    /\ now = 0
    /\ checkpoints = {}
    /\ parallel \in Modes
    /\ pc = "idle"
    /\ peeked = 0
    /\ count = 0
    /\ ending = FALSE
    /\ snapTime = 0
    /\ snapEvents = {}
    /\ client = [c \in Clients |-> Idle]
    /\ orphans = 0
    /\ scheduled = [id \in Ids |-> 0]
    /\ processed = [id \in Ids |-> 0]
    /\ inRun = 0

\* schedule_event compares the time with the clock, releases it ...
ScheduleCheck(c, id, t) ==
    /\ client[c] = Idle
    /\ t >= now
    /\ client' = [client EXCEPT ![c] = [op |-> "schedule", id |-> id, time |-> t]]
    /\ UNCHANGED <<pending, pendingCount, now, checkpoints, orphans, scheduled,
                   processed, runVars>>

\* ... and queues the event; one of the same id is replaced and still counted.
SchedulePush(c) ==
    /\ client[c].op = "schedule"
    /\ QueueFree
    /\ FoldFunction(+, 0, scheduled) < MaxSchedules
    /\ LET id == client[c].id
       IN  /\ pending' = (pending \ WithId(id)) \union {[id |-> id, time |-> client[c].time]}
           /\ orphans' = orphans + Cardinality(WithId(id))
           /\ scheduled' = [scheduled EXCEPT ![id] = @ + 1]
    /\ pendingCount' = pendingCount + 1
    /\ client' = [client EXCEPT ![c] = Idle]
    /\ UNCHANGED <<now, checkpoints, processed, runVars>>

Cancel(c, id) ==
    /\ client[c] = Idle
    /\ QueueFree
    /\ WithId(id) # {}
    /\ pending' = pending \ WithId(id)
    /\ pendingCount' = pendingCount - 1
    /\ UNCHANGED <<now, checkpoints, client, orphans, scheduled, processed, runVars>>

-----------------------------------------------------------------------------
\* rollback_to_time compares the target with the clock ...
RollbackCheck(c, target) ==
    /\ client[c] = Idle
    /\ target <= now
    /\ client' = [client EXCEPT ![c] = [op |-> "find", target |-> target]]
    /\ UNCHANGED <<pending, pendingCount, now, checkpoints, orphans, scheduled,
                   processed, runVars>>

\* ... copies the last checkpoint up to the target, or fails ...
RollbackFind(c) ==
    /\ client[c].op = "find"
    /\ LET target == client[c].target
           upTo == { cp \in checkpoints : cp.time <= target }
       IN  \/ \E cp \in upTo :
                /\ \A other \in upTo : other.time <= cp.time
                /\ client' = [client EXCEPT ![c] =
                                [op |-> "clock", target |-> target, from |-> cp]]
           \/ upTo = {} /\ client' = [client EXCEPT ![c] = Idle]
    /\ UNCHANGED <<pending, pendingCount, now, checkpoints, orphans, scheduled,
                   processed, runVars>>

\* ... sets the clock ...
RollbackClock(c) ==
    /\ client[c].op = "clock"
    /\ now' = client[c].from.time
    /\ client' = [client EXCEPT ![c] =
                    [op |-> "queue", target |-> client[c].target, from |-> client[c].from]]
    /\ UNCHANGED <<pending, pendingCount, checkpoints, orphans, scheduled,
                   processed, runVars>>

\* ... and, under the queue's lock, clears the queue and schedules the pending
\* events at or after the target: schedule_event takes the same lock.
RollbackQueue(c) ==
    /\ client[c].op = "queue"
    /\ QueueFree
    /\ pending' = {}
    /\ orphans' = orphans + Cardinality(pending)
    /\ client' = [client EXCEPT ![c] =
                    IF \E e \in client[c].from.events : e.time >= client[c].target
                    THEN [op |-> "stuck"] ELSE Idle]
    /\ UNCHANGED <<pendingCount, now, checkpoints, scheduled, processed, runVars>>

-----------------------------------------------------------------------------
\* Faulty variants, for the properties to tell apart: a pop that is not
\* counted, one that leaves the event in the queue, a limit tested too late,
\* and a last checkpoint that resumes the loop.
PopUncounted ==
    \E e \in Latest :
        /\ pending' = pending \ {e}
        /\ processed' = [processed EXCEPT ![e.id] = @ + 1]
        /\ inRun' = inRun + 1
        /\ UNCHANGED pendingCount

PopLeavesEvent ==
    \E e \in Latest :
        /\ pendingCount' = pendingCount - 1
        /\ processed' = [processed EXCEPT ![e.id] = @ + 1]
        /\ inRun' = inRun + 1
        /\ UNCHANGED pending

ContinuesOneMore(e) == e.time <= MaxTime /\ count <= MaxEvents

SnapStoreResumes ==
    /\ pc = "store"
    /\ checkpoints' = {[time |-> snapTime, events |-> snapEvents]}
    /\ pc' = "peek"
    /\ UNCHANGED <<pending, pendingCount, now, client, orphans, scheduled,
                   processed, peeked, count, ending, snapTime, snapEvents, inRun, parallel>>

RunBegin ==
    /\ pc = "idle"
    /\ pc' = "peek"
    /\ count' = 0
    /\ inRun' = 0
    /\ ending' = FALSE
    /\ UNCHANGED <<pending, pendingCount, now, checkpoints, client, orphans, scheduled,
                   processed, peeked, snapTime, snapEvents, parallel>>

\* The loop goes on with the latest event, unless the queue is empty or the
\* event or their number is over the limit.
Continues(e) == e.time <= MaxTime /\ count < MaxEvents

Peek ==
    /\ pc = "peek"
    /\ QueueFree
    /\ \/ \E e \in Latest : Continues(e) /\ peeked' = e.time /\ pc' = "pop" /\ UNCHANGED ending
       \/ /\ \A e \in Latest : ~Continues(e)
          /\ ending' = (Checkpointing /\ count > 0)
          /\ pc' = IF ending' THEN "snap" ELSE "idle"
          /\ UNCHANGED peeked
    /\ UNCHANGED <<pending, pendingCount, now, checkpoints, client, orphans, scheduled,
                   processed, count, snapTime, snapEvents, inRun, parallel>>

\* What is executed is popped again: the latest event of this moment.
PopOne ==
    \E e \in Latest :
        /\ pending' = pending \ {e}
        /\ pendingCount' = pendingCount - 1
        /\ processed' = [processed EXCEPT ![e.id] = @ + 1]
        /\ inRun' = inRun + 1

\* Sequentially one event is executed, if there still is one ...
Pop ==
    /\ pc = "pop"
    /\ QueueFree
    /\ ~parallel
    /\ PopOne \/ (pending = {} /\ UNCHANGED <<pending, pendingCount, processed, inRun>>)
    /\ count' = count + 1
    /\ pc' = "clock"
    /\ UNCHANGED <<now, checkpoints, client, orphans, scheduled, peeked, ending, snapTime,
                   snapEvents, parallel>>

\* ... in parallel the whole queue, whatever the limits.
PopParallel ==
    /\ pc = "pop"
    /\ QueueFree
    /\ parallel
    /\ \/ PopOne /\ UNCHANGED <<count, pc>>
       \/ /\ pending = {}
          /\ count' = count + 1
          /\ pc' = "clock"
          /\ UNCHANGED <<pending, pendingCount, processed, inRun>>
    /\ UNCHANGED <<now, checkpoints, client, orphans, scheduled, peeked, ending, snapTime,
                   snapEvents, parallel>>

SetClock ==
    /\ pc = "clock"
    /\ now' = peeked
    /\ \/ pc' = "peek"
       \/ Checkpointing /\ pc' = "snap"     \* the interval has elapsed
    /\ UNCHANGED <<pending, pendingCount, checkpoints, client, orphans, scheduled,
                   processed, peeked, count, ending, snapTime, snapEvents, inRun, parallel>>

\* create_checkpoint reads the clock, then the queue ...
SnapClock ==
    /\ pc = "snap"
    /\ snapTime' = now
    /\ pc' = "collect"
    /\ UNCHANGED <<pending, pendingCount, now, checkpoints, client, orphans, scheduled,
                   processed, peeked, count, ending, snapEvents, inRun, parallel>>

SnapQueue ==
    /\ pc = "collect"
    /\ QueueFree
    /\ snapEvents' = pending
    /\ pc' = "store"
    /\ UNCHANGED <<pending, pendingCount, now, checkpoints, client, orphans, scheduled,
                   processed, peeked, count, ending, snapTime, inRun, parallel>>

\* ... and stores the checkpoint in place of one of the same time; beyond the
\* limit the earliest time goes.
Stored(cps) ==
    IF Cardinality(cps) <= MaxCheckpoints THEN cps
    ELSE { cp \in cps : \E other \in cps : other.time < cp.time }

SnapStore ==
    /\ pc = "store"
    /\ checkpoints' = Stored({ cp \in checkpoints : cp.time # snapTime }
                             \union {[time |-> snapTime, events |-> snapEvents]})
    /\ pc' = IF ending THEN "idle" ELSE "peek"
    /\ snapEvents' = {}
    /\ UNCHANGED <<pending, pendingCount, now, client, orphans, scheduled,
                   processed, peeked, count, ending, snapTime, inRun, parallel>>

-----------------------------------------------------------------------------
Run == Peek \/ Pop \/ PopParallel \/ SetClock \/ SnapClock \/ SnapQueue \/ SnapStore

Rollback(c) == RollbackFind(c) \/ RollbackClock(c) \/ RollbackQueue(c)

Next ==
    \/ \E c \in Clients :
        \/ \E id \in Ids, t \in Times : ScheduleCheck(c, id, t)
        \/ SchedulePush(c)
        \/ \E id \in Ids : Cancel(c, id)
        \/ \E t \in Times : RollbackCheck(c, t)
        \/ Rollback(c)
    \/ RunBegin
    \/ Run

\* A thread inside a call goes on; no call has to be made.
Spec == Init /\ [][Next]_vars /\ WF_vars(Run) /\ \A c \in Clients : WF_vars(Rollback(c))

-----------------------------------------------------------------------------
\* stats.pending_events is the length of the queue plus the events that left it
\* unnoticed: replaced by one of the same id, or dropped by a rollback.  It is
\* never below that, so that no `-= 1` on the u64 wraps.
PendingAddsUp == pendingCount = Cardinality(pending) + orphans

\* No event is executed more often than it was scheduled, though what run()
\* peeked may be cancelled, replaced or rolled back before it pops, and no
\* rollback brings an executed event back.
NeverTwice ==
    \A id \in Ids : processed[id] + Cardinality(WithId(id)) <= scheduled[id]

\* A sequential run() stays within max_events, whatever is scheduled meanwhile.
EventsCapped == ~parallel => inRun <= MaxEvents

\* run() comes to its end, unless a rollback keeps the queue locked.
RunEnds == (pc # "idle") ~> (pc = "idle" \/ ~QueueFree)

-----------------------------------------------------------------------------
\* "Rollback to any checkpoint or time", PROGRESS.md:272
RollbackReturns ==
    \A c \in Clients : (client[c].op = "find") ~> (client[c] = Idle)
=============================================================================
