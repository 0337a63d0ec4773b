--------------------------- MODULE CoreEventQueue ---------------------------
(***************************************************************************)
(* EventQueue of gausstwin-core/src/event.rs: a heap ordered by time, then *)
(* by descending priority, beside an index by event id.  An event that may *)
(* run more than once goes back into the heap under a fresh id each time   *)
(* it is returned.  StandardModel::step drains the queue with              *)
(* `while let Some(event) = next_event()`.                                 *)
(***************************************************************************)
EXTENDS Integers, FiniteSets

CONSTANTS
    MaxEvents,      \* bound: events clients schedule, numbered in that order; a
                    \* recurring event stands for all its copies
    Times,          \* scheduled times and values of the clock
    Expiries,       \* values of expires_at; one after all Times is "never"
    EventPriorities,
    Maxes,          \* values of max_executions, 0 for unlimited
    Capacity        \* 1_000_000 in the code

ASSUME TimesAssumption ==
    Times \subseteq Int /\ Expiries \subseteq Int /\ EventPriorities \subseteq Int
ASSUME LimitsAssumption ==
    Maxes \subseteq Nat /\ Capacity \in Nat /\ MaxEvents \in Nat

VARIABLES
    heap,           \* items [event, time, priority, expires, max, count]
    byId,           \* keys of events_by_id
    now,            \* current_time
    inQueue,        \* stats.events_in_queue
    pc,             \* "drain" inside the model's loop
    made,           \* number of events scheduled
    runs,           \* history: times each event was returned, up to one more
                    \* than its limit
    cancelled,      \* history: ids for which cancel returned true
    returned,       \* history: id the last step returned, or NoId
    unsettled       \* history: events_scheduled less those processed, expired, cleared

queueVars == <<heap, byId, now, inQueue, pc, made, runs, cancelled, returned, unsettled>>

Events == 1..MaxEvents

NoId == <<0, 0>>

Items == [event : Events, time : Times, priority : EventPriorities,
          expires : Expiries, max : Maxes, count : Nat]

\* Every copy of a recurring event has its own EventId.
Id(it) == <<it.event, it.count>>
Ids(S) == { Id(it) : it \in S }

Expired(it, t) == t > it.expires
CanExecute(it) == it.max = 0 \/ it.count < it.max
IsRecurring(it) == it.max = 0 \/ it.max > 1

\* Faulty variants, for the properties to tell apart: a heap ordered by
\* priority first, and a copy whose execution count starts anew.
BeforeByPriority(x, y) ==
    x.priority > y.priority \/ (x.priority = y.priority /\ x.time < y.time)

CopiesUncounted(it) == IF IsRecurring(it) THEN {it} ELSE {}

HasRoom == Cardinality(heap) < Capacity

\* Ord for Event; ties come out of the heap in any order
Before(x, y) == x.time < y.time \/ (x.time = y.time /\ x.priority > y.priority)

Due == { it \in heap : it.time <= now }
Valid == { it \in Due : ~Expired(it, now) /\ CanExecute(it) }
FirstValid == { e \in Valid : \A other \in Valid : ~Before(other, e) }

\* mark_executed; of an unlimited event only "never" and "some" matter
Executed(it) == [it EXCEPT !.count = IF it.max = 0 THEN 1 ELSE @ + 1]

\* The copy that goes back, if any
Copies(it) ==
    IF IsRecurring(it) /\ CanExecute(Executed(it)) THEN {Executed(it)} ELSE {}

-----------------------------------------------------------------------------
QueueInit ==
    /\ heap = {}
    /\ byId = {}
    /\ now = 0
    /\ inQueue = 0
    /\ pc = "idle"
    /\ made = 0
    /\ runs = [e \in Events |-> 0]
    /\ cancelled = {}
    /\ returned = NoId
    /\ unsettled = 0

\* Clients schedule new events, as Event::new makes them: with an id of their own
\* and not executed yet.  The code would accept an id that is queued already.
Schedule(t, p, x, m) ==
    LET it == [event |-> made + 1, time |-> t, priority |-> p,
               expires |-> x, max |-> m, count |-> 0]
    IN  /\ pc = "idle"
        /\ made < MaxEvents
        /\ HasRoom         \* else EventQueueOverflow
        /\ heap' = heap \union {it}
        /\ byId' = byId \union {Id(it)}
        /\ inQueue' = Cardinality(heap')
        /\ made' = made + 1
        /\ unsettled' = unsettled + 1
        /\ returned' = NoId
        /\ UNCHANGED <<now, pc, runs, cancelled>>

\* set_current_time, which removes what has expired
SetCurrentTime(t) ==
    LET gone == { it \in heap : Expired(it, t) }
    IN  /\ pc = "idle"
        /\ now' = t
        /\ heap' = heap \ gone
        /\ byId' = byId \ Ids(gone)
        /\ inQueue' = Cardinality(heap')
        /\ unsettled' = unsettled - Cardinality(gone)
        /\ returned' = NoId
        /\ UNCHANGED <<pc, made, runs, cancelled>>

\* Faulty variants: an event cancelled behind the statistics' back, and a heap
\* cleared without its index.
CancelFromHeap(e) ==
    /\ pc = "idle"
    /\ \E it \in heap : it.event = e /\ heap' = heap \ {it} /\ byId' = byId \ {Id(it)}
    /\ returned' = NoId
    /\ UNCHANGED <<now, inQueue, pc, made, runs, cancelled, unsettled>>

ClearHeapOnly ==
    /\ pc = "idle"
    /\ heap' = {}
    /\ inQueue' = 0
    /\ unsettled' = 0
    /\ returned' = NoId
    /\ UNCHANGED <<byId, now, pc, made, runs, cancelled>>

\* Only the index is told: the event stays in the heap.
Cancel(e) ==
    /\ pc = "idle"
    /\ \E id \in byId :
        /\ id[1] = e
        /\ byId' = byId \ {id}
        /\ cancelled' = cancelled \union {id}
    /\ returned' = NoId
    /\ UNCHANGED <<heap, now, inQueue, pc, made, runs, unsettled>>

Clear ==
    /\ pc = "idle"
    /\ heap' = {}
    /\ byId' = {}
    /\ inQueue' = 0
    /\ unsettled' = 0
    /\ returned' = NoId
    /\ UNCHANGED <<now, pc, made, runs, cancelled>>

\* next_event: the invalid events ahead of the first valid one are dropped
\* (those level with it, or not), and that one is returned ...
ReturnEvent(e) ==
    \E level \in SUBSET { x \in Due \ Valid : ~Before(x, e) /\ ~Before(e, x) } :
        LET dropped == { x \in Due \ Valid : Before(x, e) } \union level
            copies == Copies(e)
        IN  /\ heap' = (heap \ (dropped \union {e})) \union copies
            /\ byId' = (byId \ Ids(dropped \union {e})) \union Ids(copies)
            /\ cancelled' = cancelled \ Ids(copies)
            /\ inQueue' = Cardinality(heap')
            /\ runs' = [runs EXCEPT ![e.event] = IF @ > e.max THEN @ ELSE @ + 1]
            /\ returned' = Id(e)
            /\ unsettled' = unsettled + Cardinality(copies) - 1 - Cardinality(dropped)
            /\ UNCHANGED <<now, pc, made>>

\* ... or, when no due event is valid, all of them go and None is returned.
ReturnNone ==
    /\ Valid = {}
    /\ heap' = heap \ Due
    /\ byId' = byId \ Ids(Due)
    /\ inQueue' = IF Due = {} THEN inQueue ELSE Cardinality(heap')
    /\ unsettled' = unsettled - Cardinality(Due)
    /\ pc' = "idle"
    /\ returned' = NoId
    /\ UNCHANGED <<now, made, runs, cancelled>>

NextEvent == (\E e \in FirstValid : ReturnEvent(e)) \/ ReturnNone

BeginDrain ==
    /\ pc = "idle"
    /\ pc' = "drain"
    /\ returned' = NoId
    /\ UNCHANGED <<heap, byId, now, inQueue, made, runs, cancelled, unsettled>>

QueueNext ==
    \/ \E t \in Times, p \in EventPriorities, x \in Expiries, m \in Maxes :
        Schedule(t, p, x, m)
    \/ \E t \in Times : SetCurrentTime(t)
    \/ \E e \in Events : Cancel(e)
    \/ Clear
    \/ BeginDrain
    \/ NextEvent

\* A drain that was begun goes on.
QueueSpec == QueueInit /\ [][QueueNext]_queueVars /\ WF_queueVars(pc = "drain" /\ NextEvent)

-----------------------------------------------------------------------------
\* The index holds exactly the queued events that were not cancelled, through
\* every pop, expiry and re-insertion under a new id.
IndexMatchesHeap == byId = Ids(heap) \ cancelled

\* Every scheduled event, copies included, is processed, dropped as expired,
\* cleared or still queued; the published length is the real one; and the queue
\* keeps within its capacity, so that no re-inserted copy is refused.
NothingLost ==
    /\ unsettled = Cardinality(heap)
    /\ inQueue = Cardinality(heap)
    /\ Cardinality(heap) <= Capacity

\* A limited event is returned no more often than its limit, although each
\* copy is another event with another id.
LimitRespected ==
    \A it \in heap : it.max > 0 => runs[it.event] = it.count /\ it.count < it.max

\* What is returned is due, not expired, and nothing valid was due before it.
InOrder ==
    [][\A it \in heap :
        returned' = Id(it) =>
            /\ it.time <= now /\ now <= it.expires
            /\ \A other \in heap \intersect heap' :
                \/ other.expires < now
                \/ other.time > it.time
                \/ other.time = it.time /\ other.priority <= it.priority]_queueVars

\* The model's loop over the due events comes to its end when each of them has a
\* limit: the copies are due at once, but there are only so many of them.
\* ("reschedule at the same time + 1 step", event.rs:294, would end every drain;
\* the code leaves the time as it is.)
DrainEnds ==
    (pc = "drain" /\ \A it \in Due : it.max > 0) ~> (pc = "idle")
=============================================================================
