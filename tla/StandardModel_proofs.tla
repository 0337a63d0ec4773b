----------------------- MODULE StandardModel_proofs -----------------------
(***************************************************************************)
(* Proofs about StandardModel, for any agents, batch size, times and       *)
(* limits: its clock, its agreement with the scheduler, who acts how often *)
(* at one time, and why run() comes back.  What the scheduler does by      *)
(* itself is taken from the lemmas of IndexedScheduler_proofs.             *)
(***************************************************************************)
EXTENDS StandardModel, TLAPS

\* The scheduler with its theorems; Sched of StandardModel has the same
\* definitions without them.
P == INSTANCE IndexedScheduler_proofs

-----------------------------------------------------------------------------
\* The clock.  Only a model without a completed step is Created, and a model
\* that can go on has not reached its end.
ClockInv ==
    /\ steps \in Nat /\ time \in Int /\ state \in States
    /\ pc = "tick" => state = "Running"
    /\ state = "Created" => steps = 0
    /\ ClockCountsSteps
    /\ state \in {"Initialized", "Running", "Paused"} /\ steps > 0 => time < End

LEMMA InitClock == Init => ClockInv
  BY DEF Init, ClockInv, States, ClockCountsSteps

LEMMA NextKeepsClock == ClockInv /\ [Next]_vars => ClockInv'
<1> SUFFICES ASSUME ClockInv, [Next]_vars PROVE ClockInv'
  OBVIOUS
<1> USE TimesAssumption DEF ClockInv, States, ClockCountsSteps
<1>1. CASE Initialize \/ InitializeFails
  BY <1>1 DEF Initialize, InitializeFails, Free
<1>2. ASSUME NEW a \in Agents, AddAgent(a) \/ RemoveAgent(a)
      PROVE  ClockInv'
  BY <1>2 DEF AddAgent, RemoveAgent
<1>3. CASE Pause \/ Resume
  BY <1>3 DEF Pause, Resume, Free
<1>4. CASE Stop \/ Reset
  BY <1>4 DEF Stop, Reset, Free
<1>5. CASE StepCall \/ RunStep
  BY <1>5 DEF StepCall, RunStep, BeginStep, Steppable
<1>6. CASE RunCall \/ RunReturn
  BY <1>6 DEF RunCall, RunReturn
<1>7. CASE RunBatch \/ FailBatch
  BY <1>7 DEF RunBatch, FailBatch
<1>8. CASE EndStep
  <2>1. /\ pc' = "idle" /\ steps' = steps + 1 /\ time' = time + Dt
        /\ (state' = "Running" /\ time + Dt < End) \/ state' = "Completed"
    BY <1>8 DEF EndStep
  <2>2. time = Start + steps * Dt
    BY <1>8 DEF EndStep
  <2>3. (steps + 1) * Dt = steps * Dt + Dt
    OBVIOUS
  <2>4. time' = Start + (steps + 1) * Dt
    BY <2>1, <2>2, <2>3
  <2> QED BY <2>1, <2>4
<1>9. CASE UNCHANGED vars
  BY <1>9 DEF vars
<1> QED BY <1>1, <1>2, <1>3, <1>4, <1>5, <1>6, <1>7, <1>8, <1>9 DEF Next, Client, Execute

\* While a run is under way or suspended, time is the start plus one step of
\* dt for each step that was completed.
THEOREM ThmClockCountsSteps == Spec => []ClockCountsSteps
<1>1. ClockInv => ClockCountsSteps
  BY DEF ClockInv
<1> QED BY <1>1, InitClock, NextKeepsClock, PTL DEF Spec

\* No step but a first one is executed at or after the end time.
THEOREM ThmNoStepAfterEnd == Spec => []NoStepAfterEnd
<1>1. ClockInv => NoStepAfterEnd
  BY DEF ClockInv, NoStepAfterEnd
<1> QED BY <1>1, InitClock, NextKeepsClock, PTL DEF Spec

-----------------------------------------------------------------------------
\* The scheduler's operations, as the model uses them.
LEMMA MembersAreTheList ==
    /\ P!IInv => ToSet(order) = P!members
    /\ P!IInv' => ToSet(order)' = P!members'
<1>1. P!IInv => DOMAIN order = 1..Len(order)
  BY DEF P!IInv, P!TypeOK
<1>2. P!IInv' => DOMAIN order' = 1..Len(order')
  BY DEF P!IInv, P!TypeOK
<1> QED BY <1>1, <1>2 DEF ToSet, P!members

LEMMA SchedulerJoins ==
    ASSUME P!IInv, NEW a \in Agents, Sched!AddAgent(a)
    PROVE  P!IInv' /\ ToSet(order)' = ToSet(order) \union {a}
<1>1. P!AddAgent(a)
  BY DEF P!AddAgent, Sched!AddAgent, P!Contains, Sched!Contains
<1>2. P!IInv' /\ P!Tick!Join(a)
  BY <1>1, SchedulerAssumption, P!AddAgentKeepsIInv, P!JoinRefines
<1>3. ToSet(order)' = P!members'
  BY <1>2, MembersAreTheList
<1> QED BY <1>2, <1>3, MembersAreTheList DEF P!Tick!Join

LEMMA SchedulerLeaves ==
    ASSUME P!IInv, NEW a \in Agents, Sched!RemoveAgent(a)
    PROVE  P!IInv' /\ ToSet(order)' = ToSet(order) \ {a}
<1>1. P!RemoveAgent(a)
  BY DEF P!RemoveAgent, Sched!RemoveAgent, P!RemoveAt, Sched!RemoveAt
<1>2. P!IInv' /\ P!Tick!Leave(a)
  BY <1>1, SchedulerAssumption, P!RemoveAgentKeepsIInv, P!LeaveRefines
<1>3. ToSet(order)' = P!members'
  BY <1>2, MembersAreTheList
<1> QED BY <1>2, <1>3, MembersAreTheList DEF P!Tick!Leave

LEMMA SameArrangements ==
    ASSUME NEW list
    PROVE  Sched!Arrangements(list) = P!Arrangements(list)
  BY DEF Sched!Arrangements, P!Arrangements, Sched!Bijection, P!Bijection,
         Sched!Injection, P!Injection, Sched!Surjection, P!Surjection,
         Sched!IsInjective, P!IsInjective

\* initialize and reset_step rearrange a list of distinct agents.
LEMMA SchedulerRestarts ==
    ASSUME NEW list \in Seq(Agents), P!IsInjective(list),
           order' \in Sched!Arrangements(list), index' = 0, ran' = Sched!NoRuns
    PROVE  P!IInv' /\ ToSet(order)' = ToSet(list)
<1>1. order' \in P!Arrangements(list)
  BY SameArrangements
<1>2. /\ order' \in Seq(Agents) /\ P!IsInjective(order')
      /\ { order'[i] : i \in 1..Len(order') } = { list[i] : i \in 1..Len(list) }
  BY <1>1, SchedulerAssumption, P!ArrangementsLemma
<1>3. P!IInv'
  BY <1>2, SchedulerAssumption, P!FreshTick DEF Sched!NoRuns, P!NoRuns
<1>4. ToSet(order') = ToSet(list)
  <2>1. DOMAIN order' = 1..Len(order') /\ DOMAIN list = 1..Len(list)
    BY <1>2
  <2> QED BY <1>2, <2>1 DEF ToSet
<1> QED BY <1>3, <1>4 DEF ToSet

LEMMA SchedulerEnrols ==
    ASSUME NEW list \in ListsOf(agents), Sched!Initialize(list)
    PROVE  P!IInv' /\ ToSet(order)' = agents
<1>1. list \in Seq(Agents) /\ P!IsInjective(list) /\ ToSet(list) = agents
  BY DEF ListsOf, Sched!DistinctLists, Sched!AgentLists, Sched!IsInjective, P!IsInjective
<1> QED BY <1>1, SchedulerRestarts DEF Sched!Initialize

LEMMA SchedulerResets ==
    ASSUME P!IInv, Sched!ResetStep
    PROVE  P!IInv' /\ ToSet(order)' = ToSet(order) /\ ran' = None
<1>1. order \in Seq(Agents) /\ P!IsInjective(order)
  BY DEF P!IInv, P!TypeOK, P!NoDuplicates
<1> QED BY <1>1, SchedulerRestarts DEF Sched!ResetStep, Sched!NoRuns, None

LEMMA SchedulerHandsOut ==
    ASSUME P!IInv, Sched!NextBatch
    PROVE  /\ P!IInv' /\ order' = order
           /\ ran \in [Agents -> 0..1] /\ ran' \in [Agents -> 0..1]
           /\ Sched!Handed \subseteq Agents
           /\ \A a \in Sched!Handed : ran[a] = 0 /\ ran'[a] = 1
           /\ \A a \in Agents \ Sched!Handed : ran'[a] = ran[a]
<1>1. P!NextBatch /\ Sched!Handed = P!Handed
  BY DEF P!NextBatch, Sched!NextBatch, P!Handed, Sched!Handed, P!BatchEnd, Sched!BatchEnd
<1>2. P!IInv'
  BY <1>1, SchedulerAssumption, P!NextBatchKeepsIInv
<1>3. index < P!BatchEnd /\ order' = order
  BY <1>1 DEF P!NextBatch
<1>4. /\ P!BatchEnd \in index+1..Len(order)
      /\ \A i \in index+1..P!BatchEnd : i \in DOMAIN order
      /\ P!Handed \subseteq Agents
  BY <1>3, SchedulerAssumption, P!BatchLemma DEF P!IInv
<1>5. \A a \in P!Handed : ran[a] = 0
  <2> SUFFICES ASSUME NEW i \in index+1..P!BatchEnd PROVE ran[order[i]] = 0
    BY DEF P!Handed
  <2> QED BY <1>4 DEF P!IInv, P!TypeOK, P!RanIsPassed
<1>6. ASSUME P!IInv
      PROVE  ran \in [Agents -> 0..1]
  <2> SUFFICES ASSUME NEW a \in Agents PROVE ran[a] \in 0..1
    BY <1>6 DEF P!IInv, P!TypeOK
  <2>1. CASE P!Contains(order, a)
    BY <1>6, <2>1 DEF P!IInv, P!TypeOK, P!Contains, P!RanIsPassed
  <2>2. CASE ~P!Contains(order, a)
    BY <1>6, <2>2 DEF P!IInv, P!OutsideNeverRan
  <2> QED BY <2>1, <2>2
<1>7. ran \in [Agents -> 0..1]
  BY <1>6
<1>8. ran' = [a \in Agents |-> IF a \in P!Handed THEN ran[a] + 1 ELSE ran[a]]
  BY <1>1 DEF P!NextBatch
<1>9. /\ \A a \in P!Handed : ran'[a] = 1
      /\ \A a \in Agents \ P!Handed : ran'[a] = ran[a]
  BY <1>4, <1>5, <1>8
<1>10. ran' \in [Agents -> 0..1]
  BY <1>5, <1>7, <1>8
<1> QED BY <1>1, <1>2, <1>3, <1>4, <1>5, <1>7, <1>9, <1>10

-----------------------------------------------------------------------------
\* Who acted.  Inside a tick an agent of the model has acted at least as often
\* as it was handed out, so that a finished tick leaves nobody out.
Turns ==
    /\ acted \in [Agents -> Nat] /\ failures \in Nat
    /\ NoExtraActivation
    /\ pc = "tick" => \A a \in agents : ran[a] <= acted[a]

ActInv == P!IInv /\ SchedulerAgrees /\ agents \subseteq Agents /\ Turns

LEMMA InitActs == Init => ActInv
<1> SUFFICES ASSUME Init PROVE ActInv
  OBVIOUS
<1>1. order = <<>> /\ index = 0 /\ ran = P!NoRuns
  BY DEF Init, Sched!Init, Sched!NoRuns, P!NoRuns
<1>2. P!IInv
  BY <1>1 DEF P!IInv, P!TypeOK, P!NoDuplicates, P!IsInjective, P!RanIsPassed,
              P!OutsideNeverRan, P!NoRuns
<1>3. ToSet(order) = {}
  BY <1>1 DEF ToSet
<1> QED BY <1>2, <1>3 DEF Init, ActInv, SchedulerAgrees, Turns, NoExtraActivation, None

\* Steps that leave the scheduler, the agents and the acts as they are.
LEMMA ActsUntouched ==
    ASSUME ActInv, UNCHANGED <<order, index, ran, agents, acted, failures>>,
           pc' = pc \/ (pc = "idle" /\ pc' # "tick")
    PROVE  ActInv'
<1>1. P!IInv'
  BY DEF ActInv, P!IInv, P!TypeOK, P!NoDuplicates, P!RanIsPassed, P!OutsideNeverRan
<1>2. SchedulerAgrees'
  BY DEF ActInv, SchedulerAgrees, ToSet
<1>3. Turns'
  BY DEF ActInv, Turns, NoExtraActivation
<1> QED BY <1>1, <1>2, <1>3 DEF ActInv

\* Outside a tick the acts count only against failures: they may be forgotten.
LEMMA IdleTurns ==
    ASSUME pc' # "tick", acted' \in [Agents -> Nat], failures' \in Nat,
           \A a \in Agents : acted'[a] <= failures'
    PROVE  Turns'
  BY DEF Turns, NoExtraActivation

LEMMA IdleActs ==
    ASSUME ActInv, pc # "tick"
    PROVE  /\ acted \in [Agents -> Nat] /\ failures \in Nat
           /\ \A a \in Agents : acted[a] <= failures
  BY DEF ActInv, Turns, NoExtraActivation

\* Agents come and go in both collections.
LEMMA AddAgentKeepsActs ==
    ASSUME ActInv, NEW a \in Agents, AddAgent(a)
    PROVE  ActInv'
<1>1. pc = "idle" /\ pc' = pc /\ failures' = failures
      /\ agents' = agents \union {a} /\ acted' = [acted EXCEPT ![a] = 0]
  BY DEF AddAgent, Free
<1>2. Turns'
  BY <1>1, IdleActs, IdleTurns
<1>3. P!IInv' /\ ToSet(order)' = ToSet(order) \union {a}
  <2>1. CASE Sched!AddAgent(a)
    BY <2>1, SchedulerJoins DEF ActInv
  <2>2. CASE Contains(order, a) /\ UNCHANGED schedVars
    <3>1. P!IInv'
      BY <2>2 DEF ActInv, schedVars, P!IInv, P!TypeOK, P!NoDuplicates,
                  P!RanIsPassed, P!OutsideNeverRan
    <3>2. a \in ToSet(order) /\ order' = order
      BY <2>2 DEF ActInv, P!IInv, P!TypeOK, Contains, ToSet, schedVars
    <3> QED BY <3>1, <3>2 DEF ToSet
  <2> QED BY <2>1, <2>2 DEF AddAgent
<1> QED BY <1>1, <1>2, <1>3 DEF ActInv, SchedulerAgrees

LEMMA RemoveAgentKeepsActs ==
    ASSUME ActInv, NEW a \in Agents, RemoveAgent(a)
    PROVE  ActInv'
<1>1. pc = "idle" /\ pc' = pc /\ failures' = failures
      /\ agents' = agents \ {a} /\ acted' = [acted EXCEPT ![a] = 0]
  BY DEF RemoveAgent, Free
<1>2. Turns'
  BY <1>1, IdleActs, IdleTurns
<1>3. P!IInv' /\ ToSet(order)' = ToSet(order) \ {a}
  <2>1. CASE Sched!RemoveAgent(a)
    BY <2>1, SchedulerLeaves DEF ActInv
  <2>2. CASE ~Contains(order, a) /\ UNCHANGED schedVars
    <3>1. P!IInv'
      BY <2>2 DEF ActInv, schedVars, P!IInv, P!TypeOK, P!NoDuplicates,
                  P!RanIsPassed, P!OutsideNeverRan
    <3>2. a \notin ToSet(order) /\ order' = order
      BY <2>2 DEF ActInv, P!IInv, P!TypeOK, Contains, ToSet, schedVars
    <3> QED BY <3>1, <3>2 DEF ToSet
  <2> QED BY <2>1, <2>2 DEF RemoveAgent
<1> QED BY <1>1, <1>2, <1>3 DEF ActInv, SchedulerAgrees

\* A tick begins with nobody handed out ...
LEMMA BeginStepKeepsActs ==
    ASSUME ActInv, BeginStep
    PROVE  ActInv'
<1>1. P!IInv' /\ ToSet(order)' = ToSet(order) /\ ran' = None
  BY SchedulerResets DEF ActInv, BeginStep
<1>2. pc = "idle" /\ UNCHANGED <<agents, acted, failures>>
  BY DEF BeginStep
<1>3. Turns'
  BY <1>1, <1>2, IdleActs DEF ActInv, Turns, NoExtraActivation, None
<1> QED BY <1>1, <1>2, <1>3 DEF ActInv, SchedulerAgrees

\* ... each batch is executed by the agents handed out ...
LEMMA RunBatchKeepsActs ==
    ASSUME ActInv, RunBatch
    PROVE  ActInv'
<1>1. /\ pc = "tick" /\ pc' = "tick" /\ UNCHANGED <<agents, failures>>
      /\ acted' = [a \in Agents |-> IF a \in Sched!Handed \intersect agents
                                    THEN acted[a] + 1 ELSE acted[a]]
      /\ Sched!NextBatch
  BY DEF RunBatch, CountActs
<1>2. /\ P!IInv' /\ order' = order
      /\ ran \in [Agents -> 0..1] /\ ran' \in [Agents -> 0..1]
      /\ \A a \in Sched!Handed : ran[a] = 0 /\ ran'[a] = 1
      /\ \A a \in Agents \ Sched!Handed : ran'[a] = ran[a]
  BY <1>1, SchedulerHandsOut DEF ActInv
<1>3. ASSUME NEW a \in Agents
      PROVE  /\ acted'[a] \in Nat
             /\ acted'[a] <= failures + ran'[a]
             /\ a \in agents => ran'[a] <= acted'[a]
  <2>1. /\ acted[a] \in Nat /\ failures \in Nat
        /\ acted[a] <= failures + ran[a]
        /\ a \in agents => ran[a] <= acted[a]
    BY <1>1 DEF ActInv, Turns, NoExtraActivation
  <2>2. ran[a] \in 0..1 /\ ran'[a] \in 0..1
    BY <1>2
  <2> QED BY <1>1, <1>2, <2>1, <2>2
<1>4. Turns'
  <2>1. acted' \in [Agents -> Nat]
    BY <1>1, <1>3
  <2> QED BY <1>1, <1>3, <2>1 DEF ActInv, Turns, NoExtraActivation
<1>5. SchedulerAgrees'
  BY <1>1, <1>2 DEF ActInv, SchedulerAgrees, ToSet
<1> QED BY <1>1, <1>2, <1>4, <1>5 DEF ActInv

\* ... or by some of them, and the failure pays for the acts that were lost.
LEMMA FailBatchKeepsActs ==
    ASSUME ActInv, FailBatch
    PROVE  ActInv'
<1>1. PICK n \in index+1..Sched!BatchEnd :
        acted' = [a \in Agents |->
                    IF a \in { order[i] : i \in index+1..n } \intersect agents
                    THEN acted[a] + 1 ELSE acted[a]]
  BY DEF FailBatch, CountActs
<1>2. /\ pc = "tick" /\ pc' = "idle" /\ agents' = agents /\ failures' = failures + 1
      /\ Sched!NextBatch
  BY DEF FailBatch
<1>3. /\ P!IInv' /\ order' = order /\ ran \in [Agents -> 0..1]
      /\ \A a \in Sched!Handed : ran[a] = 0
  BY <1>2, SchedulerHandsOut DEF ActInv
<1>4. { order[i] : i \in index+1..n } \subseteq Sched!Handed
  <2>1. \A i \in index+1..n : i \in index+1..Sched!BatchEnd
    <3>1. index \in Nat /\ Len(order) \in Nat
      BY DEF ActInv, P!IInv, P!TypeOK
    <3>2. Sched!BatchEnd \in Nat
      BY <3>1, SchedulerAssumption DEF Sched!BatchEnd
    <3> QED BY <3>1, <3>2
  <2> QED BY <2>1 DEF Sched!Handed
<1>5. ASSUME NEW a \in Agents
      PROVE  acted'[a] \in Nat /\ acted'[a] <= failures'
  <2>1. /\ acted[a] \in Nat /\ failures \in Nat
        /\ acted[a] <= failures + ran[a]
    BY <1>2 DEF ActInv, Turns, NoExtraActivation
  <2>2. ran[a] \in 0..1 /\ (a \in Sched!Handed => ran[a] = 0)
    BY <1>3
  <2>3. acted'[a] = acted[a] \/ (acted'[a] = acted[a] + 1 /\ a \in Sched!Handed)
    BY <1>1, <1>4
  <2> QED BY <1>2, <2>1, <2>2, <2>3
<1>6. Turns'
  <2>1. acted' \in [Agents -> Nat] /\ failures' \in Nat
    BY <1>1, <1>2, <1>5 DEF ActInv, Turns
  <2> QED BY <1>2, <1>5, <2>1, IdleTurns
<1>7. SchedulerAgrees'
  BY <1>2, <1>3 DEF ActInv, SchedulerAgrees, ToSet
<1> QED BY <1>2, <1>3, <1>6, <1>7 DEF ActInv

\* Steps that forget the acts, because time moves on or is set.
LEMMA ForgetKeepsActs ==
    ASSUME ActInv, UNCHANGED <<order, index, ran, agents>>,
           pc' = "idle", acted' = None, failures' = 0
    PROVE  ActInv'
<1>1. P!IInv'
  BY DEF ActInv, P!IInv, P!TypeOK, P!NoDuplicates, P!RanIsPassed, P!OutsideNeverRan
<1>2. SchedulerAgrees'
  BY DEF ActInv, SchedulerAgrees, ToSet
<1>3. Turns'
  BY IdleTurns DEF None
<1> QED BY <1>1, <1>2, <1>3 DEF ActInv

LEMMA NextKeepsActs == ActInv /\ [Next]_vars => ActInv'
<1> SUFFICES ASSUME ActInv, [Next]_vars PROVE ActInv'
  OBVIOUS
<1>1. CASE Initialize
  <2>1. PICK list \in ListsOf(agents) : Sched!Initialize(list)
    BY <1>1 DEF Initialize
  <2>2. P!IInv' /\ ToSet(order)' = agents
    BY <2>1, SchedulerEnrols
  <2>3. pc = "idle" /\ UNCHANGED <<agents, pc, acted, failures>>
    BY <1>1 DEF Initialize, Free
  <2>4. Turns'
    BY <2>3, IdleActs, IdleTurns
  <2> QED BY <2>2, <2>3, <2>4 DEF ActInv, SchedulerAgrees
<1>2. CASE InitializeFails \/ Pause \/ Resume \/ Stop \/ RunCall \/ RunReturn \/ UNCHANGED vars
  BY <1>2, ActsUntouched
     DEF InitializeFails, Pause, Resume, Stop, RunCall, RunReturn, vars, schedVars, histVars
<1>3. CASE Reset \/ EndStep
  BY <1>3, ForgetKeepsActs DEF Reset, EndStep, Free, schedVars
<1>4. CASE StepCall \/ RunStep
  BY <1>4, BeginStepKeepsActs DEF StepCall, RunStep
<1> QED BY <1>1, <1>2, <1>3, <1>4, AddAgentKeepsActs, RemoveAgentKeepsActs,
           RunBatchKeepsActs, FailBatchKeepsActs DEF Next, Client, Execute

\* The scheduler and the agent set never drift apart.
THEOREM ThmSchedulerAgrees == Spec => []SchedulerAgrees
<1>1. ActInv => SchedulerAgrees
  BY DEF ActInv
<1> QED BY <1>1, InitActs, NextKeepsActs, PTL DEF Spec

\* At one time an agent acts once, and once more for each failed attempt.
THEOREM ThmNoExtraActivation == Spec => []NoExtraActivation
<1>1. ActInv => NoExtraActivation
  BY DEF ActInv, Turns
<1> QED BY <1>1, InitActs, NextKeepsActs, PTL DEF Spec

-----------------------------------------------------------------------------
\* Only the end of a step counts one, and then everybody has been handed out.
LEMMA StepIsComplete ==
    ASSUME ActInv, ClockInv, [Next]_vars, steps' = steps + 1
    PROVE  \A a \in agents : acted[a] >= 1
<1>1. steps' # steps /\ steps' # 0
  BY DEF ClockInv
<1>2. EndStep
  <2>1. ASSUME NEW a \in Agents, AddAgent(a) \/ RemoveAgent(a)
        PROVE  steps' = steps
    BY <2>1 DEF AddAgent, RemoveAgent
  <2>2. CASE Client /\ ~(\E a \in Agents : AddAgent(a) \/ RemoveAgent(a))
    BY <1>1, <2>2 DEF Client, Initialize, InitializeFails, Pause, Resume, Stop, Reset,
                      StepCall, BeginStep, RunCall
  <2>3. CASE RunBatch \/ FailBatch \/ RunStep \/ RunReturn \/ UNCHANGED vars
    BY <1>1, <2>3 DEF RunBatch, FailBatch, RunStep, BeginStep, RunReturn, vars
  <2> QED BY <1>1, <2>1, <2>2, <2>3 DEF Next, Client, Execute
<1>3. pc = "tick" /\ ~(index < Len(order))
  BY <1>2 DEF EndStep, Sched!HasNext
<1> SUFFICES ASSUME NEW a \in agents PROVE acted[a] >= 1
  OBVIOUS
<1>4. order \in Seq(Agents) /\ index \in Nat /\ index <= Len(order)
  BY DEF ActInv, P!IInv, P!TypeOK
<1>5. PICK i \in DOMAIN order : order[i] = a
  BY DEF ActInv, SchedulerAgrees, ToSet
<1>6. ran[a] = 1
  BY <1>3, <1>4, <1>5 DEF ActInv, P!IInv, P!RanIsPassed
<1> QED BY <1>3, <1>6 DEF ActInv, Turns

\* Time moves on only when every agent has acted at it.
THEOREM ThmTickIsComplete == Spec => TickIsComplete
<1>1. ActInv /\ ClockInv /\ [Next]_vars
        => [steps' = steps + 1 => \A a \in agents : acted[a] >= 1]_vars
  BY StepIsComplete
<1> QED BY <1>1, InitActs, NextKeepsActs, InitClock, NextKeepsClock, PTL
       DEF Spec, TickIsComplete

-----------------------------------------------------------------------------
\* Why run() comes back: the argument behind RunTerminates, for any times and
\* agents.  TickRank counts the batches step() may still ask for at this time.
TickRank == IF pc = "tick" THEN Len(order) - index ELSE Len(order) + 1

\* Inside run(), whose end time is fixed by the call, every step either moves
\* the time on or is one of finitely many at this time.
RunDescends ==
    [][runEnd # NoRun /\ runEnd' # NoRun =>
        /\ runEnd' = runEnd
        /\ \/ time' > time
           \/ time' = time /\ TickRank' < TickRank]_vars

\* The time it moves on from lies before that end, and the rank is a number.
RunBounded == runEnd # NoRun => runEnd \in Int /\ (pc = "tick" => time < runEnd)
RankBounded == TickRank \in Nat

LEMMA RankIsNatural == ActInv => RankBounded
  BY DEF ActInv, RankBounded, TickRank, P!IInv, P!TypeOK

LEMMA NextKeepsBounds == ClockInv /\ RunBounded /\ [Next]_vars => RunBounded'
<1> SUFFICES ASSUME ClockInv, RunBounded, [Next]_vars PROVE RunBounded'
  OBVIOUS
<1> USE DEF RunBounded
<1>1. CASE Client /\ ~RunCall
  <2>1. ASSUME NEW a \in Agents, AddAgent(a) \/ RemoveAgent(a)
        PROVE  runEnd = NoRun /\ runEnd' = NoRun
    BY <2>1 DEF AddAgent, RemoveAgent, Free
  <2>2. runEnd = NoRun /\ runEnd' = NoRun
    BY <1>1, <2>1 DEF Client, Initialize, InitializeFails, Pause, Resume, Stop, Reset,
                      StepCall, BeginStep, Free
  <2> QED BY <2>2
<1>2. CASE RunCall
  <2>1. End \in Int /\ \A d \in Durations : time + d \in Int
    BY TimesAssumption, DurationsAssumption DEF ClockInv
  <2>2. runEnd' \in Int /\ pc' = "idle"
    BY <1>2, <2>1 DEF RunCall, Free
  <2> QED BY <2>2
<1>3. CASE RunBatch \/ UNCHANGED vars
  BY <1>3 DEF RunBatch, vars
<1>4. CASE FailBatch \/ EndStep \/ RunReturn
  BY <1>4 DEF FailBatch, EndStep, RunReturn
<1>5. CASE RunStep
  BY <1>5 DEF RunStep, RunContinues, BeginStep
<1> QED BY <1>1, <1>2, <1>3, <1>4, <1>5 DEF Next, Execute

\* A restart of the scheduler hands out as many agents as there are.
LEMMA ResetKeepsLength ==
    ASSUME P!IInv, Sched!ResetStep
    PROVE  Len(order') = Len(order) /\ index' = 0
<1>1. order \in Seq(Agents) /\ P!IsInjective(order)
  BY DEF P!IInv, P!TypeOK, P!NoDuplicates
<1>2. order' \in P!Arrangements(order)
  BY SameArrangements DEF Sched!ResetStep
<1>3. Len(order') = Len(order)
  BY <1>1, <1>2, SchedulerAssumption, P!ArrangementsLemma
<1> QED BY <1>3 DEF Sched!ResetStep

LEMMA StepDescends ==
    ASSUME ActInv, ClockInv, [Next]_vars, vars' # vars, runEnd # NoRun, runEnd' # NoRun
    PROVE  /\ runEnd' = runEnd
           /\ time' > time \/ (time' = time /\ TickRank' < TickRank)
<1>1. order \in Seq(Agents) /\ index \in Nat /\ index <= Len(order)
  BY DEF ActInv, P!IInv, P!TypeOK
<1>2. RunBatch \/ EndStep \/ RunStep
  <2>1. ~Client
    <3>1. ASSUME NEW a \in Agents PROVE ~AddAgent(a) /\ ~RemoveAgent(a)
      BY DEF AddAgent, RemoveAgent, Free
    <3> QED BY <3>1 DEF Client, Initialize, InitializeFails, Pause, Resume, Stop, Reset,
                        StepCall, RunCall, Free
  <2>2. ~FailBatch /\ ~RunReturn
    BY DEF FailBatch, RunReturn
  <2> QED BY <2>1, <2>2 DEF Next, Execute
<1>3. CASE RunBatch
  <2>1. /\ pc = "tick" /\ pc' = "tick" /\ time' = time /\ runEnd' = runEnd
        /\ Sched!NextBatch
    BY <1>3 DEF RunBatch
  <2>2. index < Sched!BatchEnd /\ index' = Sched!BatchEnd /\ order' = order
    BY <2>1 DEF Sched!NextBatch
  <2>3. Sched!BatchEnd \in Nat
    BY <1>1, SchedulerAssumption DEF Sched!BatchEnd
  <2> QED BY <1>1, <2>1, <2>2, <2>3 DEF TickRank
<1>4. CASE EndStep
  BY <1>4, TimesAssumption DEF EndStep, ClockInv
<1>5. CASE RunStep
  <2>1. /\ pc = "idle" /\ pc' = "tick" /\ time' = time /\ runEnd' = runEnd
        /\ Sched!ResetStep
    BY <1>5 DEF RunStep, BeginStep
  <2>2. Len(order') = Len(order) /\ index' = 0
    BY <2>1, ResetKeepsLength DEF ActInv
  <2> QED BY <1>1, <2>1, <2>2 DEF TickRank
<1> QED BY <1>2, <1>3, <1>4, <1>5

\* Every step of run() comes nearer to the end time it was called with.
THEOREM ThmRunDescends == Spec => RunDescends
<1>1. ActInv /\ ClockInv /\ [Next]_vars
        => [runEnd # NoRun /\ runEnd' # NoRun =>
              /\ runEnd' = runEnd
              /\ \/ time' > time
                 \/ time' = time /\ TickRank' < TickRank]_vars
  BY StepDescends
<1> QED BY <1>1, InitActs, NextKeepsActs, InitClock, NextKeepsClock, PTL
       DEF Spec, RunDescends

\* What it descends in is bounded below: time inside a tick stays before the
\* end, and the rank never becomes negative.
THEOREM ThmRunIsBounded == Spec => [](RunBounded /\ RankBounded)
<1>1. Init => RunBounded
  BY DEF Init, RunBounded
<1> QED BY <1>1, InitActs, NextKeepsActs, InitClock, NextKeepsClock,
           NextKeepsBounds, RankIsNatural, PTL DEF Spec
=============================================================================
