------------------------- MODULE HeapQueues_proofs -------------------------
(***************************************************************************)
(* Proofs about the two heaps of gausstwin-core that have a map beside     *)
(* them.  PriorityScheduler, for any agents and any integer priorities:    *)
(* heap and map agree, nobody is forgotten, nobody runs twice in a tick    *)
(* without a rebuild, and the higher priority goes first.  CoreEventQueue, *)
(* for any events, times, limits and capacity: its index, its accounts,    *)
(* the limit of a recurring event and the order of service.                *)
(***************************************************************************)
EXTENDS PriorityScheduler, CoreEventQueue, TLAPS, FiniteSetTheorems

\* Who is still queued has not run, and who is unknown has not run, as long as
\* the heap was not rebuilt in this tick.
QueuedNotRun ==
    ~rebuilt => \A a \in Agents : (Queued(a) \/ a \notin Known) => ran[a] = 0

Inv == TypeOK /\ HeapMatchesMap /\ NobodyForgotten /\ QueuedNotRun /\ OnceUnlessRebuilt

Values == Priorities \union {0}

\* A map of priorities and the heap built from it.
LEMMA RebuiltLemma ==
    ASSUME NEW prios, DOMAIN prios \subseteq Agents,
           \A a \in DOMAIN prios : prios[a] \in Values
    PROVE  /\ Rebuilt(prios) \subseteq [agent : Agents, priority : Values]
           /\ \A it \in Rebuilt(prios) :
                it.agent \in DOMAIN prios /\ it.priority = prios[it.agent]
           /\ \A a \in DOMAIN prios : \E it \in Rebuilt(prios) : it.agent = a
<1>1. ASSUME NEW a \in DOMAIN prios
      PROVE  /\ Item(a, prios[a]) \in [agent : Agents, priority : Values]
             /\ Item(a, prios[a]).agent = a
             /\ Item(a, prios[a]).priority = prios[a]
  BY DEF Item
<1>2. ASSUME NEW it \in Rebuilt(prios)
      PROVE  /\ it \in [agent : Agents, priority : Values]
             /\ it.agent \in DOMAIN prios /\ it.priority = prios[it.agent]
  <2>1. PICK a \in DOMAIN prios : it = Item(a, prios[a])
    BY DEF Rebuilt
  <2> QED BY <1>1, <2>1
<1>3. ASSUME NEW a \in DOMAIN prios
      PROVE  \E it \in Rebuilt(prios) : it.agent = a
  <2>1. Item(a, prios[a]) \in Rebuilt(prios)
    BY DEF Rebuilt
  <2> QED BY <1>1, <2>1
<1> QED BY <1>2, <1>3

\* Whatever map the heap is rebuilt from, the two agree and all are queued.
LEMMA AfterRebuild ==
    ASSUME DOMAIN priorities' \subseteq Agents,
           \A a \in DOMAIN priorities' : priorities'[a] \in Values,
           members' \subseteq DOMAIN priorities',
           ran' \in [Agents -> 0..2],
           stale' = {},
           queue' = Rebuilt(priorities')
    PROVE  TypeOK' /\ HeapMatchesMap' /\ NobodyForgotten'
<1>1. /\ queue' \subseteq [agent : Agents, priority : Values]
      /\ \A it \in queue' :
            it.agent \in DOMAIN priorities' /\ it.priority = priorities'[it.agent]
      /\ \A a \in DOMAIN priorities' : \E it \in queue' : it.agent = a
  BY RebuiltLemma
<1>2. TypeOK'
  BY <1>1 DEF TypeOK, Known, Values
<1>3. HeapMatchesMap'
  BY <1>1 DEF HeapMatchesMap, Known
<1>4. NobodyForgotten'
  BY <1>1 DEF NobodyForgotten, Known, Queued
<1> QED BY <1>2, <1>3, <1>4

LEMMA InitInv ==
    ASSUME Init
    PROVE  Inv
  BY DEF Init, Inv, TypeOK, HeapMatchesMap, NobodyForgotten, QueuedNotRun,
         OnceUnlessRebuilt, Known, Queued

LEMMA SetPriorityKeepsInv ==
    ASSUME Inv, NEW a \in Agents, NEW p \in Priorities, SetPriority(a, p)
    PROVE  Inv'
<1> USE DEF Inv, TypeOK, Known
<1>1. /\ DOMAIN priorities' = Known \union {a}
      /\ \A b \in Known \union {a} : priorities'[b] = IF b = a THEN p ELSE priorities[b]
      /\ stale' = stale \union {a}
      /\ UNCHANGED <<queue, members, ran, rebuilt>>
  BY DEF SetPriority, WithPriority
<1>2. TypeOK'
  BY <1>1
<1>3. HeapMatchesMap'
  BY <1>1 DEF HeapMatchesMap
<1>4. NobodyForgotten'
  BY <1>1 DEF NobodyForgotten, Queued
<1>5. QueuedNotRun' /\ OnceUnlessRebuilt'
  BY <1>1 DEF QueuedNotRun, OnceUnlessRebuilt, Queued
<1> QED BY <1>2, <1>3, <1>4, <1>5

LEMMA InitializeKeepsInv ==
    ASSUME Inv, NEW S \in SUBSET Agents, Initialize(S)
    PROVE  Inv'
<1>1. /\ DOMAIN priorities' = S /\ \A a \in S : priorities'[a] = 0
      /\ queue' = Rebuilt(priorities') /\ members' = S
      /\ ran' = [a \in Agents |-> 0] /\ stale' = {}
  BY DEF Initialize
<1>2. TypeOK' /\ HeapMatchesMap' /\ NobodyForgotten'
  BY <1>1, AfterRebuild DEF Values
<1>3. QueuedNotRun' /\ OnceUnlessRebuilt'
  BY <1>1 DEF QueuedNotRun, OnceUnlessRebuilt
<1> QED BY <1>2, <1>3 DEF Inv

LEMMA AddAgentKeepsInv ==
    ASSUME Inv, NEW a \in Agents, AddAgent(a)
    PROVE  Inv'
<1> USE DEF Inv, TypeOK, Known
<1>1. CASE a \in Known
  <2>1. members' = members \union {a} /\ UNCHANGED <<queue, priorities, ran, stale, rebuilt>>
    BY <1>1 DEF AddAgent
  <2> QED BY <1>1, <2>1 DEF HeapMatchesMap, NobodyForgotten, QueuedNotRun,
                            OnceUnlessRebuilt, Queued
<1>2. CASE a \notin Known
  <2>1. /\ DOMAIN priorities' = Known \union {a}
        /\ \A b \in Known \union {a} : priorities'[b] = IF b = a THEN 0 ELSE priorities[b]
        /\ queue' = queue \union {Item(a, 0)}
        /\ members' = members \union {a}
        /\ UNCHANGED <<ran, stale, rebuilt>>
    BY <1>2 DEF AddAgent, WithPriority
  <2>2. Item(a, 0).agent = a /\ Item(a, 0).priority = 0
        /\ Item(a, 0) \in [agent : Agents, priority : Values]
    BY DEF Item, Values
  <2>3. TypeOK'
    BY <2>1, <2>2 DEF Values
  <2>4. HeapMatchesMap'
    BY <1>2, <2>1, <2>2 DEF HeapMatchesMap
  <2>5. NobodyForgotten'
    BY <2>1, <2>2 DEF NobodyForgotten, Queued
  <2>6. QueuedNotRun' /\ OnceUnlessRebuilt'
    BY <1>2, <2>1, <2>2 DEF QueuedNotRun, OnceUnlessRebuilt, Queued
  <2> QED BY <2>3, <2>4, <2>5, <2>6
<1> QED BY <1>1, <1>2

LEMMA RemoveAgentKeepsInv ==
    ASSUME Inv, NEW a \in Agents, RemoveAgent(a)
    PROVE  Inv'
<1> USE DEF Inv, TypeOK, Known
<1>1. /\ DOMAIN priorities' = Known \ {a}
      /\ \A b \in Known \ {a} : priorities'[b] = priorities[b]
      /\ queue' = Rebuilt(priorities') /\ members' = members \ {a}
      /\ ran' = [ran EXCEPT ![a] = 0] /\ stale' = {} /\ rebuilt' = TRUE
  BY DEF RemoveAgent
<1>2. TypeOK' /\ HeapMatchesMap' /\ NobodyForgotten'
  <2>1. DOMAIN priorities' \subseteq Agents /\ members' \subseteq DOMAIN priorities'
    BY <1>1
  <2>2. \A b \in DOMAIN priorities' : priorities'[b] \in Values
    BY <1>1 DEF Values
  <2>3. ran' \in [Agents -> 0..2]
    BY <1>1
  <2> QED BY <1>1, <2>1, <2>2, <2>3, AfterRebuild
<1>3. QueuedNotRun' /\ OnceUnlessRebuilt'
  BY <1>1 DEF QueuedNotRun, OnceUnlessRebuilt
<1> QED BY <1>2, <1>3

LEMMA ResetStepKeepsInv ==
    ASSUME Inv, ResetStep
    PROVE  Inv'
<1>1. /\ queue' = Rebuilt(priorities') /\ UNCHANGED <<priorities, members>>
      /\ ran' = [a \in Agents |-> 0] /\ stale' = {}
  BY DEF ResetStep
<1>2. TypeOK' /\ HeapMatchesMap' /\ NobodyForgotten'
  BY <1>1, AfterRebuild DEF Inv, TypeOK, Known, Values
<1>3. QueuedNotRun' /\ OnceUnlessRebuilt'
  BY <1>1 DEF QueuedNotRun, OnceUnlessRebuilt
<1> QED BY <1>2, <1>3 DEF Inv

\* Every queued item belongs to a known agent, so next_batch pops just one.
LEMMA NextBatchPops ==
    ASSUME Inv, NextBatch
    PROVE  \/ UNCHANGED vars
           \/ \E it \in Tops : /\ queue' = queue \ {it}
                               /\ CountRun(it.agent)
                               /\ UNCHANGED <<priorities, members, stale, rebuilt>>
<1>1. Alive = queue
  BY DEF Inv, HeapMatchesMap, Alive
<1>2. CASE Alive = {}
  BY <1>1, <1>2 DEF NextBatch, Tops, vars
<1>3. CASE Alive # {}
  BY <1>1, <1>3 DEF NextBatch
<1> QED BY <1>2, <1>3

LEMMA NextBatchKeepsInv ==
    ASSUME Inv, NextBatch
    PROVE  Inv'
<1> USE DEF Inv, TypeOK, Known
<1>1. CASE UNCHANGED vars
  BY <1>1 DEF vars, HeapMatchesMap, NobodyForgotten, QueuedNotRun, OnceUnlessRebuilt, Queued
<1>2. ASSUME NEW it \in Tops, queue' = queue \ {it}, CountRun(it.agent),
             UNCHANGED <<priorities, members, stale, rebuilt>>
      PROVE  Inv'
  <2>1. it \in queue /\ it.agent \in Agents /\ it.agent \in Known
    BY DEF Tops, Alive
  <2>2. /\ ran' \in [Agents -> 0..2]
        /\ \A b \in Agents \ {it.agent} : ran'[b] = ran[b]
        /\ ran'[it.agent] > 0
        /\ ran[it.agent] = 0 => ran'[it.agent] = 1
    BY <1>2, <2>1 DEF CountRun
  <2>3. \A b \in Agents : b # it.agent /\ Queued(b) => Queued(b)'
    BY <1>2 DEF Queued
  <2>4. ~(Queued(it.agent)')
    BY <1>2, <2>1 DEF Queued, HeapMatchesMap
  <2>5. \A b \in Agents : Queued(b)' => Queued(b)
    BY <1>2 DEF Queued
  <2>6. TypeOK' /\ HeapMatchesMap'
    BY <1>2, <2>2 DEF HeapMatchesMap
  <2>7. NobodyForgotten'
    BY <1>2, <2>2, <2>3 DEF NobodyForgotten
  <2>8. Queued(it.agent)
    BY <2>1 DEF Queued
  <2>9. QueuedNotRun' /\ OnceUnlessRebuilt'
    BY <1>2, <2>1, <2>2, <2>4, <2>5, <2>8 DEF QueuedNotRun, OnceUnlessRebuilt
  <2> QED BY <2>6, <2>7, <2>9
<1> QED BY <1>1, <1>2, NextBatchPops

LEMMA NextKeepsInv ==
    ASSUME Inv, [Next]_vars
    PROVE  Inv'
<1>1. CASE UNCHANGED vars
  BY <1>1 DEF vars, Inv, TypeOK, HeapMatchesMap, NobodyForgotten, QueuedNotRun,
              OnceUnlessRebuilt, Queued, Known
<1>2. CASE Next
  BY <1>2, SetPriorityKeepsInv, InitializeKeepsInv, AddAgentKeepsInv,
     RemoveAgentKeepsInv, NextBatchKeepsInv, ResetStepKeepsInv DEF Next
<1> QED BY <1>1, <1>2

\* Only next_batch makes somebody run, and it takes a greatest item.
LEMMA StepGoesByPriority ==
    ASSUME Inv, [Next]_vars, NEW a \in Known \ stale, NEW b \in Known \ stale,
           ran'[a] > ran[a], Queued(b)
    PROVE  priorities[a] >= priorities[b]
<1> USE DEF Inv, TypeOK, Known
<1>1. a \in Agents /\ ran[a] \in 0..2 /\ ran'[a] \in 0..2
  BY NextKeepsInv
<1>2. NextBatch
  <2>1. ASSUME NEW c \in Agents, RemoveAgent(c)
        PROVE  ran'[a] <= ran[a]
    BY <1>1, <2>1 DEF RemoveAgent
  <2>2. ASSUME NEW c \in Agents, AddAgent(c)
        PROVE  ran'[a] <= ran[a]
    BY <1>1, <2>2 DEF AddAgent
  <2>3. ASSUME NEW S \in SUBSET Agents, Initialize(S)
        PROVE  ran'[a] <= ran[a]
    BY <1>1, <2>3 DEF Initialize
  <2>4. ASSUME NEW c \in Agents, NEW p \in Priorities, SetPriority(c, p)
        PROVE  ran'[a] <= ran[a]
    BY <1>1, <2>4 DEF SetPriority
  <2>5. ResetStep => ran'[a] <= ran[a]
    BY <1>1 DEF ResetStep
  <2>6. UNCHANGED vars => ran'[a] <= ran[a]
    BY <1>1 DEF vars
  <2>7. ~(ran'[a] <= ran[a])
    BY <1>1
  <2> QED BY <2>1, <2>2, <2>3, <2>4, <2>5, <2>6, <2>7 DEF Next
<1>3. ~UNCHANGED vars
  BY <1>1 DEF vars
<1>4. PICK it \in Tops : CountRun(it.agent)
  BY <1>2, <1>3, NextBatchPops
<1>5. it.agent = a
  BY <1>1, <1>4 DEF CountRun
<1>6. it \in queue /\ it.priority = priorities[a]
  BY <1>4, <1>5 DEF Tops, Alive, HeapMatchesMap
<1>7. PICK other \in queue : other.agent = b
  BY DEF Queued
<1>8. other \in Alive /\ other.priority = priorities[b]
  BY <1>7 DEF Alive, HeapMatchesMap
<1>9. other.priority <= it.priority
  BY <1>4, <1>8 DEF Tops
<1>10. other.priority \in Int /\ it.priority \in Int
  BY <1>6, <1>7, PrioritiesAssumption
<1> QED BY <1>6, <1>8, <1>9, <1>10

-----------------------------------------------------------------------------
\* Type correctness of the heap, the map and the histories.
THEOREM ThmTypeOK == Spec => []TypeOK
<1>1. Inv => TypeOK
  BY DEF Inv
<1> QED BY <1>1, InitInv, NextKeepsInv, PTL DEF Spec

\* The heap holds each agent at most once, only known ones, and with their
\* current priority unless it was set afterwards.
THEOREM ThmHeapMatchesMap == Spec => []HeapMatchesMap
<1>1. Inv => HeapMatchesMap
  BY DEF Inv
<1> QED BY <1>1, InitInv, NextKeepsInv, PTL DEF Spec

\* A known agent is queued or has run, unless its priority was set in this tick.
THEOREM ThmNobodyForgotten == Spec => []NobodyForgotten
<1>1. Inv => NobodyForgotten
  BY DEF Inv
<1> QED BY <1>1, InitInv, NextKeepsInv, PTL DEF Spec

\* Without a removal in the middle of a tick nobody runs twice in it.
THEOREM ThmOnceUnlessRebuilt == Spec => []OnceUnlessRebuilt
<1>1. Inv => OnceUnlessRebuilt
  BY DEF Inv
<1> QED BY <1>1, InitInv, NextKeepsInv, PTL DEF Spec

\* next_batch never takes an agent ahead of a queued one of higher priority.
THEOREM ThmHigherGoesFirst == Spec => HigherGoesFirst
<1>1. Inv /\ [Next]_vars =>
        [\A a, b \in Known \ stale :
            ran'[a] > ran[a] /\ Queued(b) => priorities[a] >= priorities[b]]_vars
  BY StepGoesByPriority
<1> QED BY <1>1, InitInv, NextKeepsInv, PTL DEF Spec, HigherGoesFirst

-----------------------------------------------------------------------------
(***************************************************************************)
(* CoreEventQueue                                                          *)
(***************************************************************************)
CoreTypeOK ==
    /\ heap \subseteq Items
    /\ IsFiniteSet(heap)
    /\ now \in Int
    /\ made \in Nat
    /\ runs \in [Events -> Nat]

\* However often it recurs, an event is in the heap once.
OncePerEvent == \A x, y \in heap : x.event = y.event => x = y

\* The next event to be scheduled has left no trace.
MadeBounds ==
    /\ \A it \in heap : it.event <= made
    /\ \A id \in cancelled : id[1] \in 1..made
    /\ \A ev \in Events : ev > made => runs[ev] = 0

CoreInv ==
    /\ CoreTypeOK
    /\ OncePerEvent
    /\ MadeBounds
    /\ IndexMatchesHeap
    /\ NothingLost
    /\ LimitRespected

-----------------------------------------------------------------------------
\* What an item is made of
LEMMA ItemFacts ==
    ASSUME NEW it \in Items
    PROVE  /\ it.event \in 1..MaxEvents /\ it.event \in Nat
           /\ it.time \in Int /\ it.priority \in Int /\ it.expires \in Int
           /\ it.max \in Nat /\ it.count \in Nat
           /\ Id(it) = <<it.event, it.count>>
           /\ Id(it) # NoId
<1>1. /\ it.event \in 1..MaxEvents /\ it.time \in Times /\ it.priority \in EventPriorities
      /\ it.expires \in Expiries /\ it.max \in Maxes /\ it.count \in Nat
  BY DEF Items, Events
<1>2. /\ it.event \in Nat /\ it.event > 0
      /\ it.time \in Int /\ it.priority \in Int /\ it.expires \in Int /\ it.max \in Nat
  <2>1. MaxEvents \in Nat /\ Maxes \subseteq Nat
    BY LimitsAssumption
  <2>2. Times \subseteq Int /\ Expiries \subseteq Int /\ EventPriorities \subseteq Int
    BY TimesAssumption
  <2>3. it.event \in Nat /\ it.event > 0
    <3>1. \A n \in 1..MaxEvents : n \in Nat /\ n > 0
      BY <2>1
    <3> QED BY <1>1, <3>1
  <2>4. it.time \in Int /\ it.priority \in Int /\ it.expires \in Int
    BY <1>1, <2>2
  <2>5. it.max \in Nat
    BY <1>1, <2>1
  <2> QED BY <2>3, <2>4, <2>5
<1>3. Id(it) = <<it.event, it.count>> /\ Id(it)[1] # NoId[1]
  BY <1>2 DEF Id, NoId
<1> QED BY <1>1, <1>2, <1>3

\* Ids tell queued items apart.
LEMMA IdIsUnique ==
    ASSUME OncePerEvent, NEW x \in heap, NEW y \in heap, Id(x) = Id(y)
    PROVE  x = y
BY DEF OncePerEvent, Id

\* The ids of what remains are those that do not belong to what goes.
LEMMA IdsOfRest ==
    ASSUME OncePerEvent, NEW D \in SUBSET heap
    PROVE  Ids(heap \ D) = Ids(heap) \ Ids(D)
<1>1. ASSUME NEW id \in Ids(heap \ D)
      PROVE  id \in Ids(heap) \ Ids(D)
  <2>1. PICK x \in heap \ D : id = Id(x)
    BY DEF Ids
  <2>2. \A y \in D : Id(y) # id
    BY <2>1, IdIsUnique
  <2> QED BY <2>1, <2>2 DEF Ids
<1>2. ASSUME NEW id \in Ids(heap) \ Ids(D)
      PROVE  id \in Ids(heap \ D)
  BY DEF Ids
<1> QED BY <1>1, <1>2

\* Taking items out of the heap, out of the index and out of the accounts
LEMMA DropKeeps ==
    ASSUME CoreInv, NEW D \in SUBSET heap,
           heap' = heap \ D, byId' = byId \ Ids(D),
           inQueue' = Cardinality(heap'), unsettled' = unsettled - Cardinality(D),
           now' \in Int, UNCHANGED <<made, runs, cancelled>>
    PROVE  CoreInv'
<1>1. CoreTypeOK' /\ OncePerEvent' /\ MadeBounds'
  <2>1. IsFiniteSet(heap \ D)
    BY FS_Subset DEF CoreInv, CoreTypeOK
  <2> QED BY <2>1 DEF CoreInv, CoreTypeOK, OncePerEvent, MadeBounds, Events, Items
<1>2. IndexMatchesHeap'
  BY IdsOfRest DEF CoreInv, IndexMatchesHeap, Ids, Id
<1>3. NothingLost'
  <2>1. /\ IsFiniteSet(heap) /\ heap \cap D = D
        /\ unsettled = Cardinality(heap) /\ Cardinality(heap) <= Capacity
    BY DEF CoreInv, CoreTypeOK, NothingLost
  <2>2. Cardinality(heap \ D) = Cardinality(heap) - Cardinality(D)
    BY <2>1, FS_Difference
  <2>3. Cardinality(heap) \in Nat /\ Cardinality(D) \in Nat /\ Capacity \in Nat
    BY <2>1, FS_Subset, FS_CardinalityType, LimitsAssumption
  <2> QED BY <2>1, <2>2, <2>3 DEF NothingLost
<1>4. LimitRespected'
  BY DEF CoreInv, LimitRespected
<1> QED BY <1>1, <1>2, <1>3, <1>4 DEF CoreInv

\* At most one copy goes back, of the same event, and it may still run.
LEMMA CopyFacts ==
    ASSUME NEW e \in Items
    PROVE  \/ Copies(e) = {}
           \/ \E c \in Items :
                /\ Copies(e) = {c}
                /\ c.event = e.event /\ c.max = e.max
                /\ c.max > 0 => c.count = e.count + 1 /\ c.count < c.max
<1> DEFINE c == Executed(e)
<1>1. e.max \in Nat /\ e.count \in Nat
  BY ItemFacts
<1>2. /\ c \in Items /\ c.event = e.event /\ c.max = e.max
      /\ c.max > 0 => c.count = e.count + 1
  BY <1>1 DEF Executed, Items
<1>3. CASE IsRecurring(e) /\ CanExecute(Executed(e))
  BY <1>1, <1>2, <1>3 DEF Copies, CanExecute
<1>4. CASE ~(IsRecurring(e) /\ CanExecute(Executed(e)))
  BY <1>4 DEF Copies
<1> QED BY <1>3, <1>4

-----------------------------------------------------------------------------
LEMMA CoreInitHolds ==
    ASSUME QueueInit
    PROVE  CoreInv
<1>1. IsFiniteSet({}) /\ Cardinality({}) = 0
  BY FS_EmptySet
<1>2. CoreTypeOK /\ OncePerEvent /\ MadeBounds
  BY <1>1 DEF QueueInit, CoreTypeOK, OncePerEvent, MadeBounds
<1>3. IndexMatchesHeap /\ NothingLost /\ LimitRespected
  BY <1>1, LimitsAssumption DEF QueueInit, IndexMatchesHeap, Ids, NothingLost, LimitRespected
<1> QED BY <1>2, <1>3 DEF CoreInv

LEMMA ScheduleKeeps ==
    ASSUME CoreInv,
           NEW t \in Times, NEW p \in EventPriorities, NEW x \in Expiries, NEW m \in Maxes,
           Schedule(t, p, x, m)
    PROVE  CoreInv'
<1> DEFINE it == [event |-> made + 1, time |-> t, priority |-> p,
                  expires |-> x, max |-> m, count |-> 0]
<1>1. /\ heap' = heap \cup {it} /\ byId' = byId \cup {Id(it)}
      /\ inQueue' = Cardinality(heap') /\ unsettled' = unsettled + 1
      /\ made' = made + 1 /\ made < MaxEvents /\ Cardinality(heap) < Capacity
      /\ UNCHANGED <<now, runs, cancelled>>
  BY DEF Schedule, HasRoom
<1>2. /\ MaxEvents \in Nat /\ m \in Nat /\ made \in Nat /\ Capacity \in Nat
  BY LimitsAssumption DEF CoreInv, CoreTypeOK
<1>3. it \in Items /\ made + 1 \in Events
  BY <1>1, <1>2 DEF Items, Events
<1>4. \A y \in heap : y.event <= made /\ y.event \in Nat
  BY ItemFacts DEF CoreInv, CoreTypeOK, MadeBounds
<1>5. it \notin heap /\ \A y \in heap : y.event # it.event
  BY <1>2, <1>4
<1>6. CoreTypeOK' /\ OncePerEvent'
  <2>1. IsFiniteSet(heap')
    BY <1>1, FS_AddElement DEF CoreInv, CoreTypeOK
  <2> QED BY <1>1, <1>2, <1>3, <1>5, <2>1 DEF CoreInv, CoreTypeOK, OncePerEvent, Items, Events
<1>7. MadeBounds'
  <2>1. \A y \in heap' : y.event <= made + 1
    BY <1>1, <1>2, <1>4
  <2>2. \A id \in cancelled : id[1] \in 1..made + 1
    BY <1>2 DEF CoreInv, MadeBounds
  <2>3. \A ev \in Events : ev > made + 1 => runs[ev] = 0
    BY <1>2 DEF CoreInv, MadeBounds, Events
  <2> QED BY <1>1, <2>1, <2>2, <2>3 DEF MadeBounds, Events
<1>8. IndexMatchesHeap'
  <2>1. Id(it) \notin cancelled
    BY <1>2 DEF CoreInv, MadeBounds, Id
  <2>2. Ids(heap') = Ids(heap) \cup {Id(it)}
    BY <1>1 DEF Ids
  <2> HIDE DEF it
  <2>3. byId = Ids(heap) \ cancelled
    BY DEF CoreInv, IndexMatchesHeap
  <2>4. byId' = Ids(heap') \ cancelled'
    BY <1>1, <2>1, <2>2, <2>3
  <2> QED BY <2>4 DEF IndexMatchesHeap, Ids, Id
<1>9. NothingLost'
  <2>1. IsFiniteSet(heap) /\ unsettled = Cardinality(heap)
    BY DEF CoreInv, CoreTypeOK, NothingLost
  <2>2. Cardinality(heap) \in Nat /\ Cardinality(heap') = Cardinality(heap) + 1
    BY <1>1, <1>5, <2>1, FS_AddElement, FS_CardinalityType
  <2> QED BY <1>1, <1>2, <2>1, <2>2 DEF NothingLost
<1>10. LimitRespected'
  <2>1. runs[it.event] = 0
    BY <1>2, <1>3 DEF CoreInv, MadeBounds
  <2>2. it.count = 0 /\ it.max = m
    OBVIOUS
  <2> HIDE DEF it
  <2>3. it.max > 0 => runs[it.event] = it.count /\ it.count < it.max
    BY <1>2, <2>1, <2>2
  <2> QED BY <1>1, <2>3 DEF CoreInv, LimitRespected
<1> QED BY <1>6, <1>7, <1>8, <1>9, <1>10 DEF CoreInv

LEMMA SetCurrentTimeKeeps ==
    ASSUME CoreInv, NEW t \in Times, SetCurrentTime(t)
    PROVE  CoreInv'
<1> DEFINE gone == { it \in heap : Expired(it, t) }
<1>1. /\ heap' = heap \ gone /\ byId' = byId \ Ids(gone)
      /\ inQueue' = Cardinality(heap') /\ unsettled' = unsettled - Cardinality(gone)
      /\ now' = t /\ UNCHANGED <<made, runs, cancelled>>
  BY DEF SetCurrentTime
<1>2. gone \in SUBSET heap /\ t \in Int
  BY TimesAssumption
<1> QED BY <1>1, <1>2, DropKeeps

LEMMA ClearKeeps ==
    ASSUME CoreInv, Clear
    PROVE  CoreInv'
<1>1. /\ heap' = {} /\ byId' = {} /\ inQueue' = 0 /\ unsettled' = 0
      /\ UNCHANGED <<now, made, runs, cancelled>>
  BY DEF Clear
<1>2. heap' = heap \ heap /\ byId' = byId \ Ids(heap)
  BY <1>1 DEF CoreInv, IndexMatchesHeap
<1>3. /\ IsFiniteSet(heap) /\ unsettled = Cardinality(heap) /\ now \in Int
  BY DEF CoreInv, CoreTypeOK, NothingLost
<1>4. Cardinality(heap) \in Nat /\ Cardinality({}) = 0
  BY <1>3, FS_CardinalityType, FS_EmptySet
<1>5. inQueue' = Cardinality(heap') /\ unsettled' = unsettled - Cardinality(heap)
  BY <1>1, <1>3, <1>4
<1> QED BY <1>1, <1>2, <1>3, <1>5, DropKeeps

LEMMA CoreCancelKeeps ==
    ASSUME CoreInv, NEW ev \in Events, Cancel(ev)
    PROVE  CoreInv'
<1>1. PICK id \in byId : byId' = byId \ {id} /\ cancelled' = cancelled \cup {id}
  BY DEF Cancel
<1>2. UNCHANGED <<heap, now, inQueue, made, runs, unsettled>>
  BY DEF Cancel
<1>3. id[1] \in 1..made
  <2>1. PICK it \in heap : id = Id(it)
    BY DEF CoreInv, IndexMatchesHeap, Ids
  <2>2. it.event \in 1..MaxEvents /\ id[1] = it.event /\ it.event <= made
    BY <2>1, ItemFacts DEF CoreInv, CoreTypeOK, MadeBounds
  <2> QED BY <2>2, LimitsAssumption DEF CoreInv, CoreTypeOK
<1>4. CoreTypeOK' /\ OncePerEvent' /\ NothingLost' /\ LimitRespected'
  BY <1>2 DEF CoreInv, CoreTypeOK, OncePerEvent, NothingLost, LimitRespected,
              Items, Events
<1>5. MadeBounds'
  BY <1>1, <1>2, <1>3 DEF CoreInv, MadeBounds, Events
<1>6. IndexMatchesHeap'
  BY <1>1, <1>2 DEF CoreInv, IndexMatchesHeap, Ids, Id
<1> QED BY <1>4, <1>5, <1>6 DEF CoreInv

\* What next_event does to the queue when it returns e: some items go with e, and its
\* copy comes.
LEMMA ReturnEffect ==
    ASSUME NEW e \in heap, e \in FirstValid, ReturnEvent(e)
    PROVE  \E D \in SUBSET (heap \ {e}) :
                /\ heap' = (heap \ (D \cup {e})) \cup Copies(e)
                /\ byId' = (byId \ Ids(D \cup {e})) \cup Ids(Copies(e))
                /\ unsettled' = unsettled + Cardinality(Copies(e)) - 1 - Cardinality(D)
<1>1. e \in Valid
  BY DEF FirstValid
<1>2. PICK level \in SUBSET { x \in Due \ Valid :
                                 ~Before(x, e) /\ ~Before(e, x) } :
        LET D == { x \in Due \ Valid : Before(x, e) } \cup level
        IN  /\ heap' = (heap \ (D \cup {e})) \cup Copies(e)
            /\ byId' = (byId \ Ids(D \cup {e})) \cup Ids(Copies(e))
            /\ unsettled' = unsettled + Cardinality(Copies(e)) - 1 - Cardinality(D)
  BY DEF ReturnEvent
<1> DEFINE D == { x \in Due \ Valid : Before(x, e) } \cup level
<1>3. D \in SUBSET (heap \ {e})
  BY <1>1 DEF Due
<1> QED BY <1>2, <1>3

LEMMA ReturnEventKeeps ==
    ASSUME CoreInv, NEW e \in FirstValid, ReturnEvent(e)
    PROVE  CoreInv'
<1>0. e \in heap
  BY DEF FirstValid, Valid, Due
<1>1. PICK D \in SUBSET (heap \ {e}) :
         /\ heap' = (heap \ (D \cup {e})) \cup Copies(e)
         /\ byId' = (byId \ Ids(D \cup {e})) \cup Ids(Copies(e))
         /\ unsettled' = unsettled + Cardinality(Copies(e)) - 1 - Cardinality(D)
  BY <1>0, ReturnEffect
<1>2. /\ cancelled' = cancelled \ Ids(Copies(e))
      /\ inQueue' = Cardinality(heap')
      /\ runs' = [runs EXCEPT ![e.event] = IF @ > e.max THEN @ ELSE @ + 1]
      /\ UNCHANGED <<now, made>>
  BY DEF ReturnEvent
<1> DEFINE rest == heap \ (D \cup {e})
           back == Copies(e)
<1>3. /\ e \in Items /\ e.event \in Events /\ e.event \in Nat /\ e.event >= 1
      /\ e.max \in Nat /\ e.count \in Nat /\ e.event <= made /\ made \in Nat
      /\ heap \subseteq Items
  BY <1>0, ItemFacts DEF CoreInv, CoreTypeOK, MadeBounds, Events
<1>4. /\ back \subseteq Items /\ rest \subseteq Items /\ heap' = rest \cup back
      /\ \A c \in back : c.event = e.event
      /\ \A x \in rest : x.event # e.event
      /\ \A c, d \in back : c = d
  BY <1>0, <1>1, <1>3, CopyFacts DEF CoreInv, OncePerEvent
<1>5. /\ runs' \in [Events -> Nat]
      /\ \A ev \in Events : ev # e.event => runs'[ev] = runs[ev]
      /\ runs'[e.event] = IF runs[e.event] > e.max THEN runs[e.event] ELSE runs[e.event] + 1
  <2>1. runs \in [Events -> Nat]
    BY DEF CoreInv, CoreTypeOK
  <2> QED BY <1>2, <1>3, <2>1
<1>C. IsFiniteSet(back) /\ Cardinality(back) <= 1
  <2>1. back = {} \/ \E c \in Items : back = {c}
    BY <1>3, CopyFacts
  <2>2. IsFiniteSet({}) /\ Cardinality({}) = 0
    BY FS_EmptySet
  <2>3. \A c \in Items : IsFiniteSet({c}) /\ Cardinality({c}) = 1
    BY FS_Singleton
  <2> QED BY <2>1, <2>2, <2>3
<1>6. IsFiniteSet(heap) /\ IsFiniteSet(D) /\ IsFiniteSet(rest) /\ IsFiniteSet(back)
  <2>1. IsFiniteSet(heap)
    BY DEF CoreInv, CoreTypeOK
  <2> QED BY <1>C, <2>1, FS_Subset
<1>7. CoreTypeOK'
  <2>1. IsFiniteSet(heap')
    BY <1>4, <1>6, FS_Union
  <2> QED BY <1>2, <1>4, <1>5, <2>1 DEF CoreInv, CoreTypeOK, Items, Events
<1>8. OncePerEvent'
  BY <1>4 DEF CoreInv, OncePerEvent
<1>9. MadeBounds'
  <2>1. \A y \in heap' : y.event <= made
    BY <1>3, <1>4 DEF CoreInv, MadeBounds
  <2>2. \A ev \in Events : ev > made => runs'[ev] = 0
    BY <1>3, <1>5 DEF CoreInv, MadeBounds
  <2> QED BY <1>2, <2>1, <2>2 DEF CoreInv, MadeBounds, Events
<1>10. IndexMatchesHeap'
  <2>1. Ids(rest) = Ids(heap) \ Ids(D \cup {e})
    BY <1>0, IdsOfRest DEF CoreInv
  <2>2. Ids(heap') = Ids(rest) \cup Ids(back)
    BY <1>4 DEF Ids
  <2>3. byId = Ids(heap) \ cancelled
    BY DEF CoreInv, IndexMatchesHeap
  <2>4. byId' = Ids(heap') \ cancelled'
    BY <1>1, <1>2, <2>1, <2>2, <2>3
  <2> QED BY <2>4 DEF IndexMatchesHeap, Ids, Id
<1>11. NothingLost'
  <2>1. /\ unsettled = Cardinality(heap) /\ Cardinality(heap) <= Capacity
    BY DEF CoreInv, NothingLost
  <2>2. /\ Cardinality(heap) \in Nat /\ Cardinality(D) \in Nat /\ Cardinality(rest) \in Nat
        /\ Cardinality(back) \in Nat /\ Capacity \in Nat
    BY <1>6, FS_CardinalityType, LimitsAssumption
  <2>3. Cardinality(D \cup {e}) = Cardinality(D) + 1
    BY <1>6, FS_AddElement
  <2>4. Cardinality(rest) = Cardinality(heap) - Cardinality(D \cup {e})
    <3>1. heap \cap (D \cup {e}) = D \cup {e}
      BY <1>0
    <3> QED BY <1>6, <3>1, FS_Difference
  <2>5. Cardinality(back) <= 1
    BY <1>C
  <2>6. Cardinality(heap') = Cardinality(rest) + Cardinality(back)
    <3>1. rest \cap back = {}
      BY <1>4
    <3>2. Cardinality(rest \cup back) = Cardinality(rest) + Cardinality(back) - Cardinality({})
      BY <1>6, <3>1, FS_Union
    <3> HIDE DEF rest, back
    <3> QED BY <1>4, <2>2, <3>2, FS_EmptySet
  <2>7. unsettled' = unsettled + Cardinality(back) - 1 - Cardinality(D)
    BY <1>1
  <2> HIDE DEF rest, back
  <2>8. unsettled' = Cardinality(heap') /\ Cardinality(heap') <= Capacity
    BY <2>1, <2>2, <2>3, <2>4, <2>5, <2>6, <2>7
  <2> QED BY <1>2, <2>8 DEF NothingLost
<1>12. LimitRespected'
  <2>1. ASSUME NEW it \in rest, it.max > 0
        PROVE  runs'[it.event] = it.count /\ it.count < it.max
    BY <1>4, <1>5, <2>1 DEF CoreInv, LimitRespected, Items
  <2>2. ASSUME NEW it \in back, it.max > 0
        PROVE  runs'[it.event] = it.count /\ it.count < it.max
    <3>1. /\ it.event = e.event /\ it.max = e.max
          /\ it.count = e.count + 1 /\ it.count < it.max
      BY <1>3, <2>2, CopyFacts
    <3>2. runs[e.event] = e.count /\ e.count < e.max
      BY <1>0, <2>2, <3>1 DEF CoreInv, LimitRespected
    <3> HIDE DEF back
    <3> QED BY <1>3, <1>5, <3>1, <3>2
  <2> QED BY <1>4, <2>1, <2>2 DEF LimitRespected
<1> QED BY <1>7, <1>8, <1>9, <1>10, <1>11, <1>12 DEF CoreInv

LEMMA ReturnNoneKeeps ==
    ASSUME CoreInv, ReturnNone
    PROVE  CoreInv'
<1>1. /\ heap' = heap \ Due /\ byId' = byId \ Ids(Due)
      /\ inQueue' = IF Due = {} THEN inQueue ELSE Cardinality(heap')
      /\ unsettled' = unsettled - Cardinality(Due)
      /\ UNCHANGED <<now, made, runs, cancelled>>
  BY DEF ReturnNone
<1>2. Due \in SUBSET heap
  BY DEF Due
<1>3. inQueue' = Cardinality(heap') /\ now \in Int
  BY <1>1 DEF CoreInv, CoreTypeOK, NothingLost
<1> QED BY <1>1, <1>2, <1>3, DropKeeps

LEMMA CoreStepHolds ==
    CoreInv /\ [QueueNext]_(queueVars) => CoreInv'
<1> SUFFICES ASSUME CoreInv, [QueueNext]_(queueVars) PROVE CoreInv'
  OBVIOUS
<1>1. CASE UNCHANGED <<heap, byId, now, inQueue, made, runs, cancelled, unsettled>>
  BY <1>1 DEF CoreInv, CoreTypeOK, OncePerEvent, MadeBounds, IndexMatchesHeap, Ids, Id,
              NothingLost, LimitRespected, Items, Events
<1>2. ASSUME NEW t \in Times, NEW p \in EventPriorities, NEW x \in Expiries, NEW m \in Maxes,
             Schedule(t, p, x, m)
      PROVE  CoreInv'
  BY <1>2, ScheduleKeeps
<1>3. ASSUME NEW t \in Times, SetCurrentTime(t) PROVE CoreInv'
  BY <1>3, SetCurrentTimeKeeps
<1>4. ASSUME NEW ev \in Events, Cancel(ev) PROVE CoreInv'
  BY <1>4, CoreCancelKeeps
<1>5. ASSUME NEW e \in FirstValid, ReturnEvent(e) PROVE CoreInv'
  BY <1>5, ReturnEventKeeps
<1>6. CASE Clear \/ ReturnNone
  BY <1>6, ClearKeeps, ReturnNoneKeeps
<1>7. CASE BeginDrain \/ UNCHANGED queueVars
  BY <1>1, <1>7 DEF BeginDrain, queueVars
<1> QED BY <1>2, <1>3, <1>4, <1>5, <1>6, <1>7 DEF QueueNext, NextEvent

\* The inductive invariant of the core event queue
LEMMA CoreInvariant ==
    QueueSpec => []CoreInv
<1>1. QueueInit => CoreInv
  BY CoreInitHolds
<1>2. CoreInv /\ [QueueNext]_(queueVars) => CoreInv'
  BY CoreStepHolds
<1> QED BY <1>1, <1>2, PTL DEF QueueSpec

\* For any events, times, priorities, limits and capacity the index holds exactly the
\* queued events that were not cancelled, through every pop, expiry and re-insertion
\* of a recurring event under a new id.
THEOREM ThmIndexMatchesHeap ==
    QueueSpec => []IndexMatchesHeap
<1>1. CoreInv => IndexMatchesHeap
  BY DEF CoreInv
<1>2. QueueSpec => []CoreInv
  BY CoreInvariant
<1> QED BY <1>1, <1>2, PTL

\* Every scheduled event is processed, dropped as expired, cleared or still queued, the
\* published length is the real one, and the re-inserted copies never exceed the capacity.
THEOREM ThmNothingLost ==
    QueueSpec => []NothingLost
<1>1. CoreInv => NothingLost
  BY DEF CoreInv, NothingLost
<1>2. QueueSpec => []CoreInv
  BY CoreInvariant
<1> QED BY <1>1, <1>2, PTL

\* A limited event is returned no more often than its limit, although every copy that
\* goes back is a new event with a new id.
THEOREM ThmLimitRespected ==
    QueueSpec => []LimitRespected
<1>1. CoreInv => LimitRespected
  BY DEF CoreInv
<1>2. QueueSpec => []CoreInv
  BY CoreInvariant
<1> QED BY <1>1, <1>2, PTL

\* What a step of the queue returns
LEMMA ReturnedFacts ==
    ASSUME QueueNext
    PROVE  \/ returned' = NoId
           \/ \E e \in FirstValid : returned' = Id(e)
BY DEF QueueNext, NextEvent, Schedule, SetCurrentTime, Cancel, Clear,
       BeginDrain, ReturnEvent, ReturnNone

\* What next_event returns is due and not expired, and nothing that stays in the queue
\* and may run then was due before it or, at the same time, has a higher priority.
THEOREM ThmServedByTimeAndPriority ==
    QueueSpec => InOrder
<1> DEFINE Ordered ==
        \A it \in heap :
            returned' = Id(it) =>
                /\ it.time <= now /\ now <= it.expires
                /\ \A other \in heap \intersect heap' :
                    \/ other.expires < now
                    \/ other.time > it.time
                    \/ other.time = it.time /\ other.priority <= it.priority
<1>1. ASSUME CoreInv, QueueNext PROVE Ordered
  <2> SUFFICES ASSUME NEW it \in heap, returned' = Id(it)
               PROVE  /\ it.time <= now /\ now <= it.expires
                      /\ \A other \in heap :
                          \/ other.expires < now
                          \/ other.time > it.time
                          \/ other.time = it.time /\ other.priority <= it.priority
    OBVIOUS
  <2>1. /\ now \in Int /\ heap \subseteq Items
    BY <1>1 DEF CoreInv, CoreTypeOK
  <2>2. PICK e \in FirstValid : returned' = Id(e)
    BY <1>1, <2>1, ReturnedFacts, ItemFacts
  <2>3. it = e /\ it \in Valid /\ \A other \in Valid : ~Before(other, it)
    BY <1>1, <2>2, IdIsUnique DEF CoreInv, FirstValid, Valid, Due
  <2>4. it.time <= now /\ now <= it.expires
    BY <2>1, <2>3, ItemFacts DEF Valid, Due, Expired
  <2>5. ASSUME NEW other \in heap, ~(other.expires < now), ~(other.time > it.time)
        PROVE  other.time = it.time /\ other.priority <= it.priority
    <3>1. /\ it.time \in Int /\ it.priority \in Int
          /\ other.time \in Int /\ other.priority \in Int /\ other.expires \in Int
          /\ other.max \in Nat
      BY <2>1, ItemFacts
    <3>2. CanExecute(other)
      BY <1>1, <3>1 DEF CoreInv, LimitRespected, CanExecute
    <3>3. other.time <= now /\ ~Expired(other, now)
      BY <2>1, <2>4, <2>5, <3>1 DEF Expired
    <3>4. ~Before(other, it)
      BY <2>3, <3>2, <3>3 DEF Valid, Due
    <3> QED BY <2>5, <3>1, <3>4 DEF Before
  <2> QED BY <2>4, <2>5
<1>2. CoreInv /\ [QueueNext]_(queueVars) => [Ordered]_(queueVars)
  BY <1>1
<1>3. QueueSpec => []CoreInv
  BY CoreInvariant
<1>4. QueueSpec => [][Ordered]_(queueVars)
  BY <1>2, <1>3, PTL DEF QueueSpec
<1> QED BY <1>4 DEF InOrder

\* The drain has an event ahead of it that may be returned and has no limit.
Recurs == pc = "drain" /\ \E it \in Valid : it.max = 0

\* next_event leaves an event without a limit where it is, or returns it and puts
\* back a copy that is due as it was.
LEMMA RecursForGood ==
    ASSUME CoreTypeOK, Recurs, [QueueNext]_(queueVars)
    PROVE  Recurs'
<1>1. CASE UNCHANGED queueVars
  BY <1>1 DEF queueVars, Recurs, Valid, Due
<1>2. CASE QueueNext
  <2>1. PICK it \in Valid : it.max = 0
    BY DEF Recurs
  <2>2. PICK e \in FirstValid : ReturnEvent(e)
    BY <1>2, <2>1 DEF Recurs, QueueNext, NextEvent, ReturnNone, Schedule, SetCurrentTime,
                      Cancel, Clear, BeginDrain
  <2>3. /\ pc' = "drain" /\ now' = now
        /\ (heap \cap Valid) \ {e} \subseteq heap'
        /\ Copies(e) \subseteq heap'
    BY <2>2 DEF ReturnEvent, Recurs, Valid, Due
  <2>4. CASE it # e
    <3>1. it \in heap'
      BY <2>1, <2>3, <2>4 DEF Valid, Due
    <3>2. it \in Valid'
      BY <2>1, <2>3, <3>1 DEF Valid, Due
    <3> QED BY <2>1, <2>3, <3>2 DEF Recurs
  <2>5. CASE it = e
    <3>1. e \in Items
      BY <2>1, <2>5 DEF CoreTypeOK, Valid, Due
    <3>2. /\ Executed(e).max = 0 /\ Executed(e).time = e.time
          /\ Executed(e).expires = e.expires
      BY <2>1, <2>5, <3>1 DEF Executed, Items
    <3>3. Executed(e) \in heap'
      BY <2>1, <2>3, <2>5, <3>2 DEF Copies, IsRecurring, CanExecute
    <3>4. Executed(e) \in Valid'
      BY <2>1, <2>3, <2>5, <3>2, <3>3 DEF Valid, Due, Expired, CanExecute
    <3> QED BY <2>3, <3>2, <3>4 DEF Recurs
  <2> QED BY <2>4, <2>5
<1> QED BY <1>1, <1>2

\* A drain that has an event without a limit ahead of it never ends and always has
\* one to return, since the copy goes back at the same time, not a step later.
THEOREM UnlimitedDrainGoesOn ==
    QueueSpec => [](Recurs => [](pc = "drain" /\ Valid # {}))
<1>1. CoreInv /\ [QueueNext]_(queueVars) /\ Recurs => Recurs'
  BY RecursForGood DEF CoreInv
<1>2. Recurs => pc = "drain" /\ Valid # {}
  BY DEF Recurs
<1> QED BY <1>1, <1>2, CoreInvariant, PTL DEF QueueSpec
=============================================================================
