--------------------------- MODULE StandardModel ---------------------------
(***************************************************************************)
(* StandardModel of gausstwin-core/src/model.rs, driving one of the three  *)
(* schedulers of IndexedScheduler.  step() is split into BeginStep, one    *)
(* RunBatch per turn of its while loop, and EndStep, so that an agent's    *)
(* error can abort it between any two activations; the calls of a client   *)
(* come only between steps and outside run(), which borrows the model.     *)
(*                                                                         *)
(* The event queue of the model is private and nothing schedules into it:  *)
(* draining it is a no-op, and it is left out.  SimTime is an f64; the     *)
(* model takes integer multiples of one unit, without rounding.            *)
(***************************************************************************)
EXTENDS Integers, FiniteSets, SequencesExt

CONSTANTS
    Agents, BatchSize, Shuffles,    \* see IndexedScheduler
    Start, End, Dt,                 \* ModelConfig: start_time, end_time, time_step
    MaxAgents,                      \* ModelConfig: max_agents
    Durations,                      \* arguments of run(Some(d))
    MaxFailures,                    \* bound: failed attempts at one time
    NoRun                           \* runEnd when run() is not active

\* TimeStep::fixed refuses a step that is not positive; the order of Start and
\* End is not checked (StandardModel::new does not call ModelConfig::validate)
ASSUME TimesAssumption == Start \in Int /\ End \in Int /\ Dt \in Nat \ {0}
ASSUME DurationsAssumption == Durations \subseteq Int /\ NoRun \notin Int
ASSUME SchedulerAssumption == BatchSize \in Nat \ {0} /\ Shuffles \in BOOLEAN
ASSUME BoundsAssumption == MaxAgents \in Nat /\ MaxFailures \in Nat

VARIABLES
    state, time, steps, agents,     \* state, current_time, step_count, agents
    pc,                             \* "idle", or "tick" inside step()
    runEnd,                         \* end_time of the active run(), or NoRun
    order, index, ran,              \* the scheduler
    acted,                          \* history: calls of Agent::step at this time
    failures                        \* history: step() calls that failed at this time

Sched == INSTANCE IndexedScheduler

schedVars == <<order, index, ran>>
histVars == <<acted, failures>>
vars == <<state, time, steps, agents, pc, runEnd, schedVars, histVars>>

States == {"Created", "Initialized", "Running", "Paused", "Completed"}

None == [a \in Agents |-> 0]

\* No call is active: the model can be borrowed
Free == pc = "idle" /\ runEnd = NoRun

\* AgentSet::agent_ids, sorted by id: any order of the (random) ids
ListsOf(S) == { s \in Sched!DistinctLists : ToSet(s) = S }

CountActs(S) == acted' = [a \in Agents |-> IF a \in S THEN acted[a] + 1 ELSE acted[a]]

-----------------------------------------------------------------------------
Init ==
    /\ state = "Created"
    /\ time = 0
    /\ steps = 0
    /\ agents = {}
    /\ pc = "idle"
    /\ runEnd = NoRun
    /\ Sched!Init
    /\ acted = None
    /\ failures = 0

\* Faulty variants of the operations, for the properties to tell apart.
RemoveFromSetOnly(a) ==
    /\ Free
    /\ agents' = agents \ {a}
    /\ UNCHANGED <<state, time, steps, pc, runEnd, schedVars, histVars>>

ResetKeepsSteps ==
    /\ Free
    /\ state' = "Created"
    /\ time' = Start
    /\ acted' = None
    /\ failures' = 0
    /\ UNCHANGED <<steps, agents, pc, runEnd, schedVars>>

RunBatchAgain ==
    /\ pc = "tick"
    /\ CountActs(Sched!Handed \intersect agents)
    /\ index < Sched!BatchEnd
    /\ UNCHANGED <<state, time, steps, agents, pc, runEnd, schedVars, failures>>

\* EndStep with its condition, its clock and its end test as parameters
EndStepWith(mayEnd, dt, over) ==
    /\ pc = "tick"
    /\ mayEnd
    /\ time' = time + dt
    /\ steps' = IF dt = 0 THEN steps ELSE steps + 1
    /\ state' = IF over THEN "Completed" ELSE state
    /\ pc' = "idle"
    /\ acted' = None
    /\ failures' = 0
    /\ UNCHANGED <<agents, runEnd, schedVars>>

EndStepAfterOneBatch == EndStepWith(TRUE, Dt, time + Dt >= End)
EndStepInclusive == EndStepWith(~Sched!HasNext, Dt, time + Dt > End)
EndStepNoClock == EndStepWith(~Sched!HasNext, 0, time >= End)

Initialize ==
    /\ Free
    /\ state = "Created"
    /\ time' = Start
    /\ \E list \in ListsOf(agents) : Sched!Initialize(list)
    /\ state' = "Initialized"
    /\ UNCHANGED <<steps, agents, pc, runEnd, acted, failures>>

\* An agent's initialize fails: the model stays Created with its clock set and
\* the scheduler untouched.
InitializeFails ==
    /\ Free
    /\ state = "Created"
    /\ agents # {}
    /\ time' = Start
    /\ UNCHANGED <<state, steps, agents, pc, runEnd, schedVars, acted, failures>>

AddAgent(a) ==
    /\ Free
    /\ Cardinality(agents) < MaxAgents
    /\ \/ Sched!AddAgent(a)
       \/ Contains(order, a) /\ UNCHANGED schedVars
    /\ agents' = agents \union {a}
    \* a new Agent object, also when it replaces one of the same id
    /\ acted' = [acted EXCEPT ![a] = 0]
    /\ UNCHANGED <<state, time, steps, pc, runEnd, failures>>

RemoveAgent(a) ==
    /\ Free
    /\ \/ Sched!RemoveAgent(a)
       \/ ~Contains(order, a) /\ UNCHANGED schedVars
    /\ agents' = agents \ {a}
    /\ acted' = [acted EXCEPT ![a] = 0]
    /\ UNCHANGED <<state, time, steps, pc, runEnd, failures>>

Pause ==
    /\ Free
    /\ state = "Running"
    /\ state' = "Paused"
    /\ UNCHANGED <<time, steps, agents, pc, runEnd, schedVars, histVars>>

Resume ==
    /\ Free
    /\ state = "Paused"
    /\ state' = "Running"
    /\ UNCHANGED <<time, steps, agents, pc, runEnd, schedVars, histVars>>

Stop ==
    /\ Free
    /\ state' = "Completed"
    /\ UNCHANGED <<time, steps, agents, pc, runEnd, schedVars, histVars>>

\* The agents, the scheduler and its generator are left as they are.
Reset ==
    /\ Free
    /\ state' = "Created"
    /\ time' = Start
    /\ steps' = 0
    /\ acted' = None
    /\ failures' = 0
    /\ UNCHANGED <<agents, pc, runEnd, schedVars>>

-----------------------------------------------------------------------------
Steppable == state \in {"Initialized", "Running"}

\* step() up to its loop; in any other state it returns without a change
BeginStep ==
    /\ pc = "idle"
    /\ Steppable
    /\ state' = "Running"
    /\ Sched!ResetStep
    /\ pc' = "tick"
    /\ UNCHANGED <<time, steps, agents, runEnd, acted, failures>>

\* One turn of the loop: next_batch, then every agent of the batch
RunBatch ==
    /\ pc = "tick"
    /\ CountActs(Sched!Handed \intersect agents)
    /\ Sched!NextBatch
    /\ UNCHANGED <<state, time, steps, agents, pc, runEnd, failures>>

\* The n-th agent of the batch fails: `?` leaves step() and run().  The batch is
\* handed out, the agents up to the n-th have acted, and time stands still.
FailBatch ==
    /\ pc = "tick"
    /\ failures < MaxFailures
    /\ \E n \in index+1..Sched!BatchEnd :
        CountActs({ order[i] : i \in index+1..n } \intersect agents)
    /\ Sched!NextBatch
    /\ failures' = failures + 1
    /\ pc' = "idle"
    /\ runEnd' = NoRun
    /\ UNCHANGED <<state, time, steps, agents>>

EndStep ==
    /\ pc = "tick"
    /\ ~Sched!HasNext
    /\ time' = time + Dt
    /\ steps' = steps + 1
    /\ state' = IF time + Dt < End THEN state ELSE "Completed"
    /\ pc' = "idle"
    /\ acted' = None
    /\ failures' = 0
    /\ UNCHANGED <<agents, runEnd, schedVars>>

\* step() called by a client
StepCall == runEnd = NoRun /\ BeginStep

\* run(): the end time is computed by the call; an unknown state ends the loop
RunCall ==
    /\ Free
    /\ \E end \in {End} \union { time + d : d \in Durations } : runEnd' = end
    /\ UNCHANGED <<state, time, steps, agents, pc, schedVars, histVars>>

RunContinues == time < runEnd /\ Steppable

RunStep == runEnd # NoRun /\ RunContinues /\ BeginStep

RunReturn ==
    /\ runEnd # NoRun
    /\ pc = "idle"
    /\ ~RunContinues
    /\ runEnd' = NoRun
    /\ UNCHANGED <<state, time, steps, agents, pc, schedVars, histVars>>

-----------------------------------------------------------------------------
\* What a started call goes on to do by itself
Execute == RunBatch \/ FailBatch \/ EndStep \/ RunStep \/ RunReturn

Client ==
    \/ Initialize
    \/ InitializeFails
    \/ \E a \in Agents : AddAgent(a) \/ RemoveAgent(a)
    \/ Pause
    \/ Resume
    \/ Stop
    \/ Reset
    \/ StepCall
    \/ RunCall

Next == Client \/ Execute

\* A call that was made is executed; nothing obliges a client to make one.
Fairness == WF_vars(Execute)

Spec == Init /\ [][Next]_vars /\ Fairness

-----------------------------------------------------------------------------
\* The scheduler and the agent set, updated one after the other by every
\* add_agent and remove_agent, never drift apart: an agent only one of them
\* knows would never act, or be handed out and silently skipped.
SchedulerAgrees == ToSet(order) = agents

\* At one simulated time an agent acts once, and once more only for each
\* attempt that failed there: a retried step repeats whole ticks, no more.
NoExtraActivation ==
    \A a \in Agents :
        acted[a] <= failures + (IF pc = "tick" THEN ran[a] ELSE 0)

\* Time moves on only when every agent of the model has acted at it ("Every
\* agent stepped on every one of the 5 ticks", test_agent_execution_loop).
TickIsComplete == [][steps' = steps + 1 => \A a \in agents : acted[a] >= 1]_vars

\* The clock is the number of completed steps since the start, whatever was
\* paused, retried or run in pieces ...
ClockCountsSteps ==
    state \in {"Initialized", "Running", "Paused"} => time = Start + steps * Dt

\* ... and no step but a first one begins at or after the end time.
NoStepAfterEnd == pc = "tick" /\ steps > 0 => time < End

\* run() comes back: each step advances the time towards its end.
RunTerminates == (runEnd # NoRun) ~> (runEnd = NoRun)
=============================================================================
