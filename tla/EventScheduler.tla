-------------------------- MODULE EventScheduler --------------------------
(***************************************************************************)
(* EventScheduler of gausstwin-core/src/scheduler.rs under the tick loop   *)
(* of StandardModel::step (model.rs): a list of (agent, time) entries      *)
(* sorted by time.  initialize and add_agent schedule an agent at time     *)
(* zero; nothing schedules it again, only a client's schedule_at.          *)
(* The loop runs `while has_next()`, and has_next does not look at the     *)
(* time.                                                                   *)
(***************************************************************************)
EXTENDS Integers, FiniteSets, SequencesExt

CONSTANTS
    Agents,
    Start,          \* ModelConfig::start_time
    EntryTimes,     \* times a client passes to schedule_at
    MaxEntries,     \* bound: entries in the list, and agents counted
    MaxTick         \* bound: ticks stop here

ASSUME EntryTimesAssumption == Start \in Int /\ EntryTimes \subseteq Int /\ MaxTick \in Int
ASSUME EntriesAssumption == IsFiniteSet(Agents) /\ MaxEntries \in Nat

VARIABLES
    queue,          \* event_queue
    clock,          \* the model's current_time
    phase,          \* "idle", or "tick" inside the model's loop
    active,         \* stats.active_agents
    owed,           \* history: entries scheduled and neither served nor removed
    last            \* history: time of the entry served last, while nothing is
                    \* scheduled in between; Nothing otherwise

schedulerVars == <<queue, clock, phase, active, owed, last>>

Nothing == MaxTick + 1

Entry(a, t) == [agent |-> a, time |-> t]

\* schedule_at: before the first entry that is not earlier
InsertPos(q, t) ==
    CHOOSE i \in 1..Len(q) + 1 :
        /\ i <= Len(q) => t <= q[i].time
        /\ \A j \in 1..i-1 : q[j].time < t

\* Faulty variant: an entry appended without looking at its time
InsertLast(q, a, t) == Append(q, Entry(a, t))

Insert(q, a, t) == InsertAt(q, InsertPos(q, t), Entry(a, t))

HasNext == queue # <<>>
HasDue == queue # <<>> /\ Head(queue).time <= clock

\* Where the entries of an agent stand, and how many it has
Of(q, a) == { i \in DOMAIN q : q[i].agent = a }
Counts(q) == [a \in Agents |-> Cardinality(Of(q, a))]

-----------------------------------------------------------------------------
\* Faulty variants, for the properties to tell apart: an entry served and left in
\* the list, and a removal of one entry only.
NextBatchPeeks ==
    /\ phase = "tick"
    /\ HasDue
    /\ last' = Head(queue).time
    /\ UNCHANGED <<queue, owed, clock, phase, active>>

RemoveFirstEntry(a) ==
    /\ phase = "idle"
    /\ \E i \in DOMAIN queue :
        /\ queue[i].agent = a
        /\ queue' = RemoveAt(queue, i)
    /\ active' = IF active = 0 THEN 0 ELSE active - 1
    /\ owed' = [owed EXCEPT ![a] = 0]
    /\ last' = Nothing
    /\ UNCHANGED <<clock, phase>>

-----------------------------------------------------------------------------
SchedulerInit ==
    /\ queue = <<>>
    /\ clock = 0
    /\ phase = "idle"
    /\ active = 0
    /\ owed = [a \in Agents |-> 0]
    /\ last = Nothing

\* initialize, with the model's clock: of a list of distinct ids each is scheduled
\* at time zero, in front of those before it, so that the last one stands first
Initialize(list) ==
    /\ phase = "idle"
    /\ queue' = [i \in DOMAIN list |-> Entry(Reverse(list)[i], 0)]
    /\ clock' = Start
    /\ active' = Len(list)
    /\ owed' = [a \in Agents |-> IF a \in ToSet(list) THEN 1 ELSE 0]
    /\ last' = Nothing
    /\ UNCHANGED phase

Schedule(a, t) ==
    /\ phase = "idle"
    /\ Len(queue) < MaxEntries
    /\ queue' = Insert(queue, a, t)
    /\ owed' = [owed EXCEPT ![a] = @ + 1]
    /\ last' = Nothing
    /\ UNCHANGED <<clock, phase>>

ScheduleAt(a, t) == Schedule(a, t) /\ UNCHANGED <<active>>

\* No check that the agent is new: it then has two entries and counts twice.
AddAgent(a) ==
    /\ active < MaxEntries      \* bound: the counter grows with every call
    /\ Schedule(a, 0)
    /\ active' = active + 1

\* Every entry of the agent goes, and the others stay in their order; the counter
\* drops even for an unknown agent.
RemoveAgent(a) ==
    /\ phase = "idle"
    /\ LET others == DOMAIN queue \ Of(queue, a)
       IN  \E stay \in [1..Cardinality(others) -> others] :
            /\ \A i, j \in DOMAIN stay : i < j => stay[i] < stay[j]
            /\ queue' = [i \in DOMAIN stay |-> queue[stay[i]]]
    /\ active' = IF active = 0 THEN 0 ELSE active - 1
    /\ owed' = [owed EXCEPT ![a] = 0]
    /\ last' = Nothing
    /\ UNCHANGED <<clock, phase>>

\* reset_step does nothing
BeginTick ==
    /\ phase = "idle"
    /\ clock < MaxTick
    /\ phase' = "tick"
    /\ UNCHANGED <<queue, clock, active, owed, last>>

NextBatch ==
    /\ phase = "tick"
    /\ HasDue
    /\ queue' = Tail(queue)
    /\ owed' = [owed EXCEPT ![Head(queue).agent] = @ - 1]
    /\ last' = Head(queue).time
    /\ UNCHANGED <<clock, phase, active>>

\* has_next is true and next_batch returns an empty batch: the loop turns
Spin ==
    /\ phase = "tick"
    /\ HasNext
    /\ ~HasDue
    /\ UNCHANGED schedulerVars

EndTick ==
    /\ phase = "tick"
    /\ ~HasNext
    /\ clock' = clock + 1
    /\ phase' = "idle"
    /\ UNCHANGED <<queue, active, owed, last>>

Lists == UNION { { s \in [1..n -> Agents] : IsInjective(s) } : n \in 0..Cardinality(Agents) }

SchedulerNext ==
    \/ \E list \in Lists : Initialize(list)
    \/ \E a \in Agents, t \in EntryTimes : ScheduleAt(a, t)
    \/ \E a \in Agents : AddAgent(a) \/ RemoveAgent(a)
    \/ BeginTick
    \/ NextBatch
    \/ Spin
    \/ EndTick

\* The loop of a started tick goes on turning.
SchedulerSpec ==
    /\ SchedulerInit
    /\ [][SchedulerNext]_schedulerVars
    /\ WF_schedulerVars(NextBatch \/ Spin \/ EndTick)

-----------------------------------------------------------------------------
\* An entry is served once and never lost: what was scheduled and neither
\* served nor removed with its agent is in the list, and nothing else is.
NothingLost == owed = Counts(queue)

\* Within a tick, and over ticks between which nothing is scheduled, the
\* entries are served in the order of their times.
ServedInOrder == [][last # Nothing /\ last' # Nothing => last <= last']_schedulerVars

\* A tick of the model comes to its end unless an entry lies in the future: the
\* loop `while has_next()` of StandardModel::step then turns for ever.
TickEnds ==
    (phase = "tick" /\ \A i \in DOMAIN queue : queue[i].time <= clock) ~> (phase = "idle")
=============================================================================
