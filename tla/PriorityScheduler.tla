------------------------- MODULE PriorityScheduler -------------------------
(***************************************************************************)
(* PriorityScheduler of gausstwin-core/src/scheduler.rs: a heap of items   *)
(* carrying the priority an agent had when it was pushed, next to the map  *)
(* of the current priorities.  The heap is rebuilt from the map by         *)
(* initialize, remove_agent and reset_step, and only grows or shrinks by   *)
(* one item elsewhere; set_priority touches the map alone.                 *)
(***************************************************************************)
EXTENDS Integers

CONSTANTS
    Agents,         \* the agent ids
    Priorities      \* the i32 priorities a client sets

ASSUME PrioritiesAssumption == Priorities \subseteq Int

VARIABLES
    queue,          \* priority_queue: items [agent, priority]
    priorities,     \* agent_priorities: a function on the known agents
    members,        \* history: agents enrolled by initialize or add_agent
    ran,            \* history: hand-outs in this tick, 2 for more
    stale,          \* history: agents whose priority was set after they were queued
    rebuilt         \* history: remove_agent rebuilt the heap in this tick

vars == <<queue, priorities, members, ran, stale, rebuilt>>

Known == DOMAIN priorities

Item(a, p) == [agent |-> a, priority |-> p]

\* rebuild_queue
Rebuilt(prios) == { Item(a, prios[a]) : a \in DOMAIN prios }

WithPriority(prios, a, p) ==
    [b \in DOMAIN prios \union {a} |-> IF b = a THEN p ELSE prios[b]]

GetPriority(a) == IF a \in Known THEN priorities[a] ELSE 0

\* Items whose agent is still known, and the greatest of them: BinaryHeap::pop
\* returns equal priorities in any order (Bottoms: a faulty min-heap)
Alive == { it \in queue : it.agent \in Known }
Bottoms == { it \in Alive : \A other \in Alive : other.priority >= it.priority }
Tops == { it \in Alive : \A other \in Alive : other.priority <= it.priority }

Queued(a) == \E it \in queue : it.agent = a

CountRun(a) == ran' = [ran EXCEPT ![a] = IF @ < 2 THEN @ + 1 ELSE @]

HasNext == queue # {}

-----------------------------------------------------------------------------
\* Faulty variants, for the properties to tell apart: an agent that leaves but
\* stays in the heap, one that joins without being queued, and one queued each
\* time it is added.
RemoveKeepsHeap(a) ==
    /\ a \in Known
    /\ priorities' = [b \in Known \ {a} |-> priorities[b]]
    /\ members' = members \ {a}
    /\ ran' = [ran EXCEPT ![a] = 0]
    /\ UNCHANGED <<queue, stale, rebuilt>>

AddNotQueued(a) ==
    /\ a \notin Known
    /\ priorities' = WithPriority(priorities, a, 0)
    /\ members' = members \union {a}
    /\ UNCHANGED <<queue, ran, stale, rebuilt>>

AddQueuedAgain(a) ==
    /\ members' = members \union {a}
    /\ priorities' = WithPriority(priorities, a, GetPriority(a))
    /\ queue' = queue \union {Item(a, GetPriority(a))}
    /\ UNCHANGED <<ran, stale, rebuilt>>

-----------------------------------------------------------------------------
Init ==
    /\ queue = {}
    /\ priorities = << >>
    /\ members = {}
    /\ ran = [a \in Agents |-> 0]
    /\ stale = {}
    /\ rebuilt = FALSE

SetPriority(a, p) ==
    /\ priorities' = WithPriority(priorities, a, p)
    /\ stale' = stale \union {a}
    /\ UNCHANGED <<queue, members, ran, rebuilt>>

Initialize(S) ==
    /\ priorities' = [a \in S |-> 0]
    /\ queue' = Rebuilt(priorities')
    /\ members' = S
    /\ ran' = [a \in Agents |-> 0]
    /\ stale' = {}
    /\ rebuilt' = FALSE

\* An agent the map knows, even only from set_priority, is not queued again.
AddAgent(a) ==
    /\ members' = members \union {a}
    /\ IF a \in Known
       THEN UNCHANGED <<queue, priorities>>
       ELSE /\ priorities' = WithPriority(priorities, a, 0)
            /\ queue' = queue \union {Item(a, 0)}
    /\ UNCHANGED <<ran, stale, rebuilt>>

\* The rebuild queues everybody again, those that already ran included.
RemoveAgent(a) ==
    /\ a \in Known
    /\ priorities' = [b \in Known \ {a} |-> priorities[b]]
    /\ queue' = Rebuilt(priorities')
    /\ members' = members \ {a}
    /\ ran' = [ran EXCEPT ![a] = 0]
    /\ stale' = {}
    /\ rebuilt' = TRUE

\* The loop pops items until one belongs to a known agent, or none is left.
NextBatch ==
    \/ \E it \in Tops :
        /\ \E kept \in SUBSET { d \in queue \ Alive : d.priority <= it.priority } :
             queue' = (Alive \ {it}) \union kept
        /\ CountRun(it.agent)
        /\ UNCHANGED <<priorities, members, stale, rebuilt>>
    \/ /\ Alive = {}
       /\ queue' = {}
       /\ UNCHANGED <<priorities, members, ran, stale, rebuilt>>

ResetStep ==
    /\ queue' = Rebuilt(priorities)
    /\ ran' = [a \in Agents |-> 0]
    /\ stale' = {}
    /\ rebuilt' = FALSE
    /\ UNCHANGED <<priorities, members>>

Next ==
    \/ \E a \in Agents, p \in Priorities : SetPriority(a, p)
    \/ \E S \in SUBSET Agents : Initialize(S)
    \/ \E a \in Agents : AddAgent(a) \/ RemoveAgent(a)
    \/ NextBatch
    \/ ResetStep

Spec == Init /\ [][Next]_vars

-----------------------------------------------------------------------------
TypeOK ==
    /\ queue \subseteq [agent : Agents, priority : Priorities \union {0}]
    /\ Known \subseteq Agents
    /\ \A a \in Known : priorities[a] \in Priorities \union {0}
    /\ members \subseteq Known
    /\ ran \in [Agents -> 0..2]
    /\ stale \subseteq Known

\* Heap and map agree although they are updated apart: an agent is queued at
\* most once, every queued agent is known (so the "Agent was removed, continue
\* to next one" branch of next_batch is never taken), and the queued priority
\* is the current one unless it was set afterwards.
HeapMatchesMap ==
    /\ \A it \in queue : it.agent \in Known
    /\ \A it, other \in queue : it.agent = other.agent => it = other
    /\ \A it \in queue : it.agent \in stale \/ it.priority = priorities[it.agent]

\* A known agent is queued or has run in this tick; only one whose priority
\* was set in this tick may be absent (set_priority before add_agent).
NobodyForgotten ==
    \A a \in Known : Queued(a) \/ ran[a] > 0 \/ a \in stale

\* Between agents whose priorities are not stale, the higher goes first.
HigherGoesFirst ==
    [][\A a, b \in Known \ stale :
        ran'[a] > ran[a] /\ Queued(b) => priorities[a] >= priorities[b]]_vars

\* As long as nobody leaves in the middle of a tick, nobody runs twice in it.
OnceUnlessRebuilt == ~rebuilt => \A a \in Agents : ran[a] <= 1
=============================================================================
