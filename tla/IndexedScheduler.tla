-------------------------- MODULE IndexedScheduler --------------------------
(***************************************************************************)
(* RandomScheduler, SequentialScheduler and ParallelScheduler of           *)
(* gausstwin-core/src/scheduler.rs.  The three share one representation, a *)
(* Vec of agents and current_index, and differ in two parameters: Random   *)
(* shuffles the Vec in initialize and reset_step, Parallel hands out up to *)
(* batch_size agents at a time.  Agents may join and leave between any two *)
(* calls of next_batch, so the index has to follow removals.               *)
(***************************************************************************)
EXTENDS Naturals, FiniteSets, SequencesExt

CONSTANTS
    Agents,     \* the agent ids
    BatchSize,  \* ParallelScheduler::batch_size; 1 for the other two
    Shuffles    \* TRUE for RandomScheduler

\* ParallelScheduler::new stores batch_size.max(1)
ASSUME BatchSizeAssumption == BatchSize \in Nat \ {0}
ASSUME ShufflesAssumption == Shuffles \in BOOLEAN

VARIABLES
    order,      \* self.agents
    index,      \* self.current_index
    ran         \* history: hand-outs of each agent since it joined or the tick began

vars == <<order, index, ran>>

AgentLists == UNION { [1..n -> Agents] : n \in 0..Cardinality(Agents) }

\* The lists StandardModel passes to initialize: ids are keys of a map
DistinctLists == { s \in AgentLists : IsInjective(s) }

\* shuffle: any rearrangement for Random, nothing for the other two
Arrangements(s) ==
    IF Shuffles
    THEN { [i \in 1..Len(s) |-> s[p[i]]] : p \in Bijection(1..Len(s), 1..Len(s)) }
    ELSE {s}

NoRuns == [a \in Agents |-> 0]

BatchEnd == IF index + BatchSize < Len(order) THEN index + BatchSize ELSE Len(order)

Handed == { order[i] : i \in index+1..BatchEnd }

HasNext == index < Len(order)

Init ==
    /\ order = <<>>
    /\ index = 0
    /\ ran = NoRuns

Initialize(list) ==
    /\ order' \in Arrangements(list)
    /\ index' = 0
    /\ ran' = NoRuns

\* Faulty variants, which the properties below must tell from the real ones:
\* remove_agent leaving the index where it was ...
RemoveKeepsIndex(a) ==
    \E pos \in DOMAIN order :
        /\ order[pos] = a
        /\ order' = RemoveAt(order, pos)
        /\ ran' = [ran EXCEPT ![a] = 0]
        /\ UNCHANGED index

\* ... and remove_agent moving it back for any removal.
RemoveAlwaysMovesIndex(a) ==
    \E pos \in DOMAIN order :
        /\ order[pos] = a
        /\ order' = RemoveAt(order, pos)
        /\ index' = IF index = 0 THEN 0 ELSE index - 1
        /\ ran' = [ran EXCEPT ![a] = 0]

\* Pushed at the end whatever the index: the agent still gets its turn in
\* this tick.  A present agent is left where it is.
AddAgent(a) ==
    /\ ~Contains(order, a)
    /\ order' = Append(order, a)
    /\ ran' = [ran EXCEPT ![a] = 0]
    /\ UNCHANGED index

\* The index follows only when the removed position had been passed.
RemoveAgent(a) ==
    \E pos \in DOMAIN order :
        /\ order[pos] = a
        /\ order' = RemoveAt(order, pos)
        /\ index' = IF pos <= index THEN index - 1 ELSE index
        /\ ran' = [ran EXCEPT ![a] = 0]

NextBatch ==
    /\ index < BatchEnd
    /\ index' = BatchEnd
    /\ ran' = [a \in Agents |-> IF a \in Handed THEN ran[a] + 1 ELSE ran[a]]
    /\ UNCHANGED order

ResetStep ==
    /\ order' \in Arrangements(order)
    /\ index' = 0
    /\ ran' = NoRuns

Next ==
    \/ \E list \in DistinctLists : Initialize(list)
    \/ \E a \in Agents : AddAgent(a)
    \/ \E a \in Agents : RemoveAgent(a)
    \/ NextBatch
    \/ ResetStep

Spec == Init /\ [][Next]_vars

-----------------------------------------------------------------------------
TypeOK ==
    /\ order \in Seq(Agents)
    /\ index \in Nat
    /\ ran \in [Agents -> Nat]

\* An agent occupies one place of the list: add_agent's contains() check and
\* remove_agent's single remove() keep it so.
NoDuplicates == IsInjective(order)

\* What the loop of StandardModel::step relies on, and the tests call
\* "exactly once per tick": whatever joined or left in between, nobody is
\* handed out twice in a tick.
HandedOutOnce == \A a \in Agents : ran[a] <= 1

\* When has_next turns false, every agent in the scheduler has had its turn:
\* a removal never makes the index jump over somebody.
NoneSkipped == ~HasNext => \A i \in DOMAIN order : ran[order[i]] = 1

\* The inductive invariant: the passed part of the list is exactly the part
\* that has run.
RanIsPassed ==
    \A i \in DOMAIN order : ran[order[i]] = IF i <= index THEN 1 ELSE 0

OutsideNeverRan == \A a \in Agents : ~Contains(order, a) => ran[a] = 0

IInv ==
    /\ TypeOK
    /\ index <= Len(order)
    /\ NoDuplicates
    /\ RanIsPassed
    /\ OutsideNeverRan

-----------------------------------------------------------------------------
members == { order[i] : i \in 1..Len(order) }
due == { order[i] : i \in index+1..Len(order) }

\* The list and the index implement the set of due agents.
Tick == INSTANCE TickScheduler WITH members <- members, due <- due
TickSpec == Tick!TickSpec
=============================================================================
