----------------------------- MODULE ThreadPool -----------------------------
(***************************************************************************)
(* ThreadPool of gausstwin-core/src/hpc.rs and its helpers parallel_for     *)
(* and parallel_map.  Tasks go through one bounded channel to the workers.  *)
(* active_tasks counts a task from before it is sent until its worker is    *)
(* through with it, and wait_idle spins until it is zero.  A task runs, and *)
(* may submit a task itself, or panics and takes its worker with it (the    *)
(* build unwinds).  When the last worker goes, the channel is disconnected  *)
(* and what it holds is discarded.                                         *)
(*                                                                         *)
(* Nobody fills the local queues, so that stealing never finds anything,    *)
(* and the priority of a task is never looked at.  A submitted task is      *)
(* known by its id.  The pool starts complete: a spawn that fails, after    *)
(* which the earlier workers run on without a pool, is left out.           *)
(***************************************************************************)
EXTENDS Integers, Sequences, FiniteSets, Functions

CONSTANTS
    Workers,        \* worker threads
    Clients,        \* threads that use the pool
    Capacity,       \* queue_capacity; 0, a channel without room, is left out
    Chunks,         \* num_chunks of a parallel_for or parallel_map
    MaxTasks        \* bound: ids given out

ASSUME ThreadsAssumption ==
    /\ IsFiniteSet(Workers) /\ IsFiniteSet(Clients)
    /\ Workers \cap Clients = {}
ASSUME SizesAssumption == Capacity \in Nat \ {0} /\ Chunks \in Nat \ {0} /\ MaxTasks \in Nat

Ids == 1..MaxTasks
Threads == Workers \cup Clients

VARIABLES
    task,           \* how far each id is
    queue,          \* the channel: ids in the order they were sent
    active,         \* active_tasks
    submitted,      \* stats.tasks_submitted
    completed,      \* stats.tasks_completed
    shutdown,       \* the flag
    at,             \* where each worker is in worker_loop
    hand,           \* the task a busy worker runs, or 0
    call,           \* where each thread is in submit, or in wait_idle
    item,           \* the task it submits, or 0
    left,           \* chunks a parallel call still has to submit
    mine,           \* chunks it has submitted
    chunks          \* history: all chunks

taskVars == <<task, queue, active>>
stats == <<submitted, completed>>
workerVars == <<at, hand>>
callVars == <<call, item>>
parallelVars == <<left, mine, chunks>>
vars == <<taskVars, stats, shutdown, workerVars, callVars, parallelVars>>

-----------------------------------------------------------------------------
TasksIn(places) == { i \in Ids : task[i] \in places }

\* The id that next_task_id gives out is the first that is not taken.
Fresh(i) == task[i] = "none" /\ \A j \in Ids : j < i => task[j] # "none"

\* The receiver lives as long as a worker does.
Disconnected == \A w \in Workers : at[w] = "gone"

InParallel(c) == mine[c] # {} \/ left[c] > 0

\* Ids that are not put by for the chunks still to come
Spare == Cardinality(TasksIn({"none"})) - FoldFunction(+, 0, left)

\* Only what runs in a worker can submit from it.
MaySubmit(a) ==
    /\ call[a] = "none"
    /\ Spare > 0
    /\ a \in Workers => at[a] = "busy" /\ task[hand[a]] = "running"

Init ==
    /\ task = [i \in Ids |-> "none"]
    /\ queue = <<>>
    /\ active = 0
    /\ submitted = 0
    /\ completed = 0
    /\ shutdown = FALSE
    /\ at = [w \in Workers |-> "top"]
    /\ hand = [w \in Workers |-> 0]
    /\ call = [a \in Threads |-> "none"]
    /\ item = [a \in Threads |-> 0]
    /\ left = [c \in Clients |-> 0]
    /\ mine = [c \in Clients |-> {}]
    /\ chunks = {}

-----------------------------------------------------------------------------
\* Faulty variants, for the properties to tell apart: a task that is not counted,
\* an error that leaves it counted, a message too few, a worker that does not
\* look at the flag, and one that forgets the counter.
CountNothing(a, i) ==
    /\ Fresh(i)
    /\ task' = [task EXCEPT ![i] = "sending"]
    /\ call' = [call EXCEPT ![a] = "send"]
    /\ item' = [item EXCEPT ![a] = i]
    /\ UNCHANGED <<queue, active, stats, shutdown, workerVars>>

SendFailsCounted(a) ==
    /\ call[a] = "send"
    /\ Disconnected
    /\ task' = [task EXCEPT ![item[a]] = "refused"]
    /\ call' = [call EXCEPT ![a] = "none"]
    /\ item' = [item EXCEPT ![a] = 0]
    /\ IF a \in Clients
       THEN left' = [left EXCEPT ![a] = 0] /\ mine' = [mine EXCEPT ![a] = {}]
       ELSE UNCHANGED <<left, mine>>
    /\ UNCHANGED <<queue, active, stats, shutdown, workerVars, chunks>>

CollectedButOne(c) == left[c] = 0 /\ \E i \in mine[c] : task[i] \in {"ran", "tallied", "over"}

CheckNothing(w) ==
    /\ at[w] = "top"
    /\ at' = [at EXCEPT ![w] = "poll"]
    /\ UNCHANGED <<taskVars, stats, shutdown, hand, callVars, parallelVars>>

FinishUncounted(w) ==
    /\ at[w] = "busy" /\ call[w] = "none" /\ task[hand[w]] = "tallied"
    /\ task' = [task EXCEPT ![hand[w]] = "over"]
    /\ at' = [at EXCEPT ![w] = "top"]
    /\ hand' = [hand EXCEPT ![w] = 0]
    /\ UNCHANGED <<queue, active, stats, shutdown, callVars, parallelVars>>

-----------------------------------------------------------------------------
\* submit takes an id and counts the task before anyone can see it (two atomic
\* increments in a row, of which the first is only seen in the id) ...
Count(a, i) ==
    /\ Fresh(i)
    /\ task' = [task EXCEPT ![i] = "sending"]
    /\ active' = active + 1
    /\ call' = [call EXCEPT ![a] = "send"]
    /\ item' = [item EXCEPT ![a] = i]
    /\ UNCHANGED <<queue, stats, shutdown, workerVars>>

Submit(a) ==
    /\ MaySubmit(a)
    /\ a \in Clients => ~InParallel(a)
    /\ \E i \in Ids : Count(a, i)
    /\ UNCHANGED parallelVars

\* ... waits for room in the channel and sends it ...
Send(a) ==
    /\ call[a] = "send"
    /\ ~Disconnected
    /\ Len(queue) < Capacity
    /\ queue' = Append(queue, item[a])
    /\ task' = [task EXCEPT ![item[a]] = "queued"]
    /\ call' = [call EXCEPT ![a] = "tally"]
    /\ UNCHANGED <<active, stats, shutdown, workerVars, item, parallelVars>>

\* ... or is told that no worker is left: a parallel call returns the error.
SendFails(a) ==
    /\ call[a] = "send"
    /\ Disconnected
    /\ task' = [task EXCEPT ![item[a]] = "refused"]
    /\ active' = active - 1
    /\ call' = [call EXCEPT ![a] = "none"]
    /\ item' = [item EXCEPT ![a] = 0]
    /\ IF a \in Clients
       THEN left' = [left EXCEPT ![a] = 0] /\ mine' = [mine EXCEPT ![a] = {}]
       ELSE UNCHANGED <<left, mine>>
    /\ UNCHANGED <<queue, stats, shutdown, workerVars, chunks>>

\* ... and the statistics follow, maybe after the task has run.
Tally(a) ==
    /\ call[a] = "tally"
    /\ submitted' = submitted + 1
    /\ call' = [call EXCEPT ![a] = "none"]
    /\ item' = [item EXCEPT ![a] = 0]
    /\ UNCHANGED <<taskVars, completed, shutdown, workerVars, parallelVars>>

-----------------------------------------------------------------------------
\* wait_idle()
WaitIdle(c) ==
    /\ call[c] = "none"
    /\ ~InParallel(c)
    /\ call' = [call EXCEPT ![c] = "wait"]
    /\ UNCHANGED <<taskVars, stats, shutdown, workerVars, item, parallelVars>>

SeesIdle(c) ==
    /\ call[c] = "wait"
    /\ active = 0
    /\ call' = [call EXCEPT ![c] = "none"]
    /\ UNCHANGED <<taskVars, stats, shutdown, workerVars, item, parallelVars>>

\* parallel_for() and parallel_map() submit a task for each chunk ...
Parallel(c) ==
    /\ call[c] = "none"
    /\ ~InParallel(c)
    /\ Spare >= Chunks
    /\ left' = [left EXCEPT ![c] = Chunks]
    /\ UNCHANGED <<taskVars, stats, shutdown, workerVars, callVars, mine, chunks>>

SubmitChunk(c) ==
    /\ call[c] = "none"
    /\ left[c] > 0
    /\ \E i \in Ids :
        /\ Count(c, i)
        /\ left' = [left EXCEPT ![c] = @ - 1]
        /\ mine' = [mine EXCEPT ![c] = @ \cup {i}]
        /\ chunks' = chunks \cup {i}

\* The chunks that have sent their message, as the last thing they did
Reported(c) == mine[c] \cap TasksIn({"ran", "tallied", "over"})

\* ... and wait for as many messages.
Collected(c) == left[c] = 0 /\ Cardinality(Reported(c)) = Cardinality(mine[c])

Collect(c) ==
    /\ call[c] = "none"
    /\ InParallel(c)
    /\ Collected(c)
    /\ mine' = [mine EXCEPT ![c] = {}]
    /\ UNCHANGED <<taskVars, stats, shutdown, workerVars, callVars, left, chunks>>

\* shutdown(), which Drop calls before it joins the workers
Shutdown ==
    /\ ~shutdown
    /\ shutdown' = TRUE
    /\ UNCHANGED <<taskVars, stats, workerVars, callVars, parallelVars>>

-----------------------------------------------------------------------------
\* A worker ends.  The last one disconnects the channel, and what it still
\* holds is lost; so is the task that a panicking worker was in.
Leave(w, lost) ==
    /\ at' = [at EXCEPT ![w] = "gone"]
    /\ hand' = [hand EXCEPT ![w] = 0]
    /\ IF \A v \in Workers \ {w} : at[v] = "gone"
       THEN /\ queue' = <<>>
            /\ task' = [i \in Ids |->
                  IF i \in lost \cup Range(queue) THEN "lost" ELSE task[i]]
       ELSE /\ UNCHANGED queue
            /\ task' = [i \in Ids |-> IF i \in lost THEN "lost" ELSE task[i]]
    /\ UNCHANGED <<active, stats, shutdown, callVars, parallelVars>>

\* worker_loop looks at the flag ...
Check(w) ==
    /\ at[w] = "top"
    /\ IF shutdown
       THEN Leave(w, {})
       ELSE /\ at' = [at EXCEPT ![w] = "poll"]
            /\ UNCHANGED <<taskVars, stats, shutdown, hand, callVars, parallelVars>>

\* ... takes the first task of the channel ...
Poll(w) ==
    /\ at[w] = "poll"
    /\ IF queue = <<>>
       THEN /\ at' = [at EXCEPT ![w] = "top"]
            /\ UNCHANGED <<task, queue, hand>>
       ELSE /\ at' = [at EXCEPT ![w] = "busy"]
            /\ hand' = [hand EXCEPT ![w] = Head(queue)]
            /\ queue' = Tail(queue)
            /\ task' = [task EXCEPT ![Head(queue)] = "running"]
    /\ UNCHANGED <<active, stats, shutdown, callVars, parallelVars>>

Busy(w, place) == at[w] = "busy" /\ call[w] = "none" /\ task[hand[w]] = place

\* ... which runs to its end ...
Run(w) ==
    /\ Busy(w, "running")
    /\ task' = [task EXCEPT ![hand[w]] = "ran"]
    /\ UNCHANGED <<queue, active, stats, shutdown, workerVars, callVars, parallelVars>>

\* ... or panics, which nobody catches ...
Panic(w) ==
    /\ Busy(w, "running")
    /\ Leave(w, {hand[w]})

\* ... counts it in the statistics ...
Complete(w) ==
    /\ Busy(w, "ran")
    /\ completed' = completed + 1
    /\ task' = [task EXCEPT ![hand[w]] = "tallied"]
    /\ UNCHANGED <<queue, active, submitted, shutdown, workerVars, callVars, parallelVars>>

\* ... and in active_tasks.
Finish(w) ==
    /\ Busy(w, "tallied")
    /\ active' = active - 1
    /\ task' = [task EXCEPT ![hand[w]] = "over"]
    /\ at' = [at EXCEPT ![w] = "top"]
    /\ hand' = [hand EXCEPT ![w] = 0]
    /\ UNCHANGED <<queue, stats, shutdown, callVars, parallelVars>>

-----------------------------------------------------------------------------
Work(w) == Check(w) \/ Poll(w) \/ Run(w) \/ Panic(w) \/ Complete(w) \/ Finish(w)

Proceed(a) == Send(a) \/ SendFails(a) \/ Tally(a)

Return(c) == SeesIdle(c) \/ SubmitChunk(c) \/ Collect(c)

Next ==
    \/ \E a \in Threads : Submit(a) \/ Proceed(a)
    \/ \E c \in Clients : WaitIdle(c) \/ Parallel(c) \/ Return(c)
    \/ \E w \in Workers : Work(w)
    \/ Shutdown

\* The system runs every thread, and the functions given to the pool end.
\* Nobody has to submit or to shut down.
Fairness ==
    /\ \A w \in Workers : WF_vars(Work(w))
    /\ \A a \in Threads : WF_vars(Proceed(a))
    /\ \A c \in Clients : WF_vars(Return(c))

Spec == Init /\ [][Next]_vars /\ Fairness

-----------------------------------------------------------------------------
\* Everything that still keeps active_tasks up.  A task that panicked or was
\* discarded does so for good.
Outstanding == {"sending", "queued", "running", "ran", "tallied", "lost"}

\* active_tasks is the tasks submitted and not yet through, with those nobody
\* will ever finish: never below zero, whatever panics, fails or is shut down.
ActiveAddsUp == active = Cardinality(TasksIn(Outstanding))

\* Who sees wait_idle return, sees no task that could still run: all have run
\* to their end or were refused, and outside of submit the two statistics
\* agree with their number, as the tests have it after wait_idle.
IdleMeansDone ==
    active = 0 =>
        /\ TasksIn({"none", "over", "refused"}) = Ids
        /\ completed = Cardinality(TasksIn({"over"}))
        /\ (\A a \in Threads : call[a] # "tally") => submitted = completed

\* parallel_for gives its tasks the address of the caller's slice: as long as
\* one of them can run, the call has not returned, even with an error.
ChunksInScope ==
    \A i \in chunks :
        task[i] \in {"sending", "queued", "running"} => \E c \in Clients : i \in mine[c]

-----------------------------------------------------------------------------
\* Every worker that is left is inside a task that waits for room.
Jammed ==
    /\ Len(queue) = Capacity
    /\ \A w \in Workers : at[w] = "gone" \/ call[w] = "send"

\* submit, wait_idle and the parallel helpers return, unless the pool is shut
\* down, a task panics, or tasks that submit tasks hold every worker.
CallsReturn ==
    \A c \in Clients :
        (call[c] # "none" \/ InParallel(c)) ~>
            \/ call[c] = "none" /\ ~InParallel(c)
            \/ shutdown \/ Jammed \/ TasksIn({"lost"}) # {}

\* After shutdown every worker ends, which Drop waits for, unless its task
\* waits for room in the channel.
WorkersEnd ==
    \A w \in Workers :
        shutdown ~> at[w] = "gone" \/ (call[w] = "send" /\ Len(queue) = Capacity)
=============================================================================
