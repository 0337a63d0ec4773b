# GaussTwin in TLA+

GaussTwin is a digital-twin and simulation framework in Rust: a core of agents, schedulers, events
and models, crates for discrete events, co-simulation, spaces, data and learning, and a server with
a live event feed. This directory holds TLA+ models of the parts whose correctness depends on
order, interleaving, failure or limits, TLC configurations that check them on small instances, and
proofs, checked by TLAPS, of what holds for every value of the constants.

Paths are relative to `src/crates/gausstwin-<crate>/src/`, written `<crate>/...` below.

## 1. The system

### What is modelled

| Part (code) | State | Operations | What is hard | Module |
|---|---|---|---|---|
| Random, Sequential, Parallel schedulers (`core/scheduler.rs`) | `agents` (a `Vec`), `current_index`, `batch_size` | initialize, add_agent, remove_agent, next_batch, has_next, reset_step | agents leave and join between two batches of a tick, the index has to follow | `IndexedScheduler`, abstract: `TickScheduler` |
| Priority scheduler (`core/scheduler.rs`) | `priority_queue` (a heap), `agent_priorities` (a map) | the same, set_priority, get_priority | two containers changed apart, a heap rebuilt in the middle of a tick | `PriorityScheduler` |
| Event scheduler (`core/scheduler.rs`) | `event_queue` (a sorted `VecDeque`), `active_agents` | the same, schedule_at | `has_next` does not look at the time, the model's loop does not look at anything else | `EventScheduler` |
| Standard model (`core/model.rs`, `core/agent.rs`) | life-cycle state, clock, step count, agents, a scheduler | initialize, step, run, pause, resume, stop, reset, add_agent, remove_agent | an agent's error leaves a tick half done; two collections of agents | `StandardModel` (composes `IndexedScheduler`) |
| Event queue of the core (`core/event.rs`) | `events` (a heap), `events_by_id`, clock, statistics | schedule, next_event, cancel, set_current_time, clear | recurring events come back as new events, expiry is tested in two places | `CoreEventQueue` |
| Discrete event simulator (`des/lib.rs`) | queue and map of events, clock, checkpoints, statistics, each behind its own lock | schedule_event, cancel_event, run, create_checkpoint, rollback_to_time | every method takes `&self`; each lock is taken alone, so calls interleave between any two of them | `DesSimulator` |
| Connection pool (`data/pool.rs`) | idle list, semaphore, statistics | acquire, release, drop of a connection | cancelled tasks, failed connects and resets, a lock kept over an await, a release that runs later | `ConnectionPool` |
| WebSocket fan-out (`api/websocket.rs`) | clients with subscriptions, a broadcast channel, a send task and a handler per client | register, unregister, subscribe, unsubscribe, answer, broadcast, receive, filter, send | filtering with the subscriptions of a later moment, lag, a mutex shared by two writers | `WebSocketFanout` |
| Thread pool (`core/hpc.rs`) | a bounded channel, `active_tasks`, statistics, a shutdown flag, the workers | submit, submit_with_deadline, submit_batch, worker_loop, wait_idle, shutdown, drop, parallel_for, parallel_map | a counter apart from the channel, tasks that submit or panic, a slice lent to other threads | `ThreadPool` |
| Cache (`data/cache.rs`) | `entries`, `stats`, each behind a lock of its own | get, put, remove, clear | entries expire and are evicted between two locks of one get, calls dropped at an await | `LruCache`, abstract: `CachePromise` (over `LossyMap`) |
| Unified store (`data/store.rs`) | a vector store, a scalar store, a cache | store_hybrid, batch_store_hybrid, get_hybrid, delete | three places written one after the other without a lock, each step may fail | `UnifiedStore` (over `LossyMap`) |

How they interact: a model owns its agents, a scheduler and an event queue; `step()` drains the due
events, resets the scheduler and calls `next_batch` until `has_next` is false, stepping each agent
handed out. `StandardModel` composes the life cycle with `IndexedScheduler` through `INSTANCE`, so
that a step of the model is a step of both. `EventScheduler` and `CoreEventQueue` carry the loop of
the model that drives them as actions of their own (`BeginTick`/`Spin`/`EndTick`, `BeginDrain`),
because what can go wrong there is between the loop and the component. The unified store uses a cache
as a map that may forget (`LossyMap`); `CachePromise` says what each call of a cache does to such a map, and
`LruCache` is proved to implement it. The simulator, the two pools and the fan-out are reached from several
threads or tasks and share no state with the rest.

What makes each correct:

* a scheduler hands every agent out once per tick, whoever joins or leaves meanwhile;
* the priority scheduler's heap and map agree, nobody is forgotten, the higher priority goes first;
* the event scheduler serves entries when due, in order, once, and lets the tick end;
* a model's clock counts its completed steps, a step ends only when every agent acted, a failed step
  repeats at most what it did, and `run()` returns;
* the event queue loses nothing, respects order, expiry and execution limits, and a drain ends;
* the simulator executes an event at most as often as it was scheduled, keeps its count of pending
  events and its event limit, and its calls return;
* the pool never loses a permit, counts what is acquired, and serves whoever waits;
* a client gets what it subscribed to, in order, without gaps, as long as its task lives;
* the thread pool counts what is outstanding, `wait_idle` returns only when nothing can run any more, a
  parallel helper never gives back the caller's slice while a chunk may read it, and calls return;
* the cache answers a get with what was put last under the key it names, or with nothing, never with what had
  expired; put, remove and clear act on the keys they name; the statistics add up;
* vector, scalar and cached record of a key agree once its writes are over, unless calls met on it.

### What is not modelled, and why

| Part | Reason |
|---|---|
| Rest of `core/event.rs`: `MessageDispatcher`, the event builders | queues of one owner (`&mut self`) that deliver in the order of the calls; the builders fill in a record |
| Time warp in `des/lib.rs` | `run()` and the queue never call `process_with_time_warp`. It lowers its own clock after a rollback without a look at what came in between (listed as a hazard); a model of it would have no other part to agree with |
| `core/pool.rs` | the objects go through crossbeam's `ArrayQueue`, which is external; the counters beside it agree with it between calls and not within (hazard); the arena is a vector of one owner |
| `cosim/common/sync.rs`, `time.rs` | `advance_time` cannot fail at this commit, so nothing enters the rollback of `synchronize`; `rollback_to` stops at its first lines whoever calls it (hazard); `TimeManager` has one owner and grants what is asked |
| `fsm/`, `ir/` | one machine of one owner, whose guards and actions are closures of its user; validators of documents without state |
| Rest of `data/`: searches, `list`, the stores behind `DataStore` | they change nothing, or are external |
| `core/time.rs`, `core/space/`, `spaces/` | floating-point instants and geometry; sequential containers |
| `core/streaming.rs`, `core/distributed.rs` | buffers of one task, stubs of a cluster: nothing is sent to another process |
| `core/gpu.rs`, `quantum.rs`, `ai.rs`, `blockchain.rs`, `viz.rs`, `profiler.rs`, `metrics.rs` | numerical kernels, simulated back ends, measurements |
| `cosim/fmi/`, `cosim/hla/` | external FMUs; the RTI is largely unimplemented |
| `vec/`, `ai/`, `agent/` | floating-point algorithms, one agent at a time, calls of external services |
| `api/` (REST, GraphQL, gRPC, auth), `db/`, `integration/` | request handlers and clients over external databases, brokers and devices |
| `visual/`, `src/ui/`, `src/bindings/`, the command line | presentation and bindings |

The same list, file by file, with the reasons, is `components` in `PROJECT.json`; `hazards` there
lists what in this code is hard to reach with a test, at its line, with the properties that cover it.

## 2. Modules and their correspondence to the code

In every module an action is one method, or the part of a method that runs under one lock or up to
one await. Variables carry the name of the field they stand for in a comment. Variables marked
*history* are no fields: they record what properties talk about, and no guard of the code's actions
reads them, except where a bound is named. Operators headed *faulty variants* are no part of a
specification either: each is an action or operator with a plausible mistake, which the
corresponding property is known to catch.

**TickScheduler** is what `trait Scheduler` promises: a set of members and the subset still due in
the tick; joining makes one agent due, leaving takes its turn, a batch hands out due agents, a new
tick makes all due. **IndexedScheduler** is the three `Vec`-and-index schedulers in one, with
`BatchSize` (1 except for Parallel) and `Shuffles` (Random). The shuffle is any permutation.
`TickSpec` instantiates the abstract scheduler with members = the list's agents, due = those from
`current_index` on; the implementation is checked and proved.

**PriorityScheduler** keeps the heap as a set of items with the priority an agent had when pushed,
the map as a function. Equal priorities leave the heap in any order, as `BinaryHeap` may.
`next_batch`'s loop over removed agents is in the model though `HeapMatchesMap` shows that it is
never taken: the kept items of the first disjunct are those the loop may leave behind. Executions
are counted up to two, which is what "more than once" needs.

**EventScheduler** keeps the list sorted as `schedule_at` does. `active_agents` counts calls, not
agents, as in the code. `initialize` is one step, with the list its loop leaves. A turn of the model's loop in which `has_next` is true and `next_batch`
returns nothing is the action `Spin`.

**StandardModel** splits `step()` into `BeginStep`, a `RunBatch` per turn of the loop, and `EndStep`;
`FailBatch` is an agent's error, which leaves by `?` with the state Running, the batch handed out
and part of it executed. `run()` computes its end time when it is called and keeps the model
borrowed until it returns, so that clients act only while no call is under way. Time is in integer
multiples of a unit; rounding of `f64` is not modelled. The model's own event queue is private and
nothing fills it, so draining it does nothing. Agent behaviour is a call that succeeds or fails.

**CoreEventQueue** numbers the events clients schedule, each made by `Event::new` with an id of its own and not executed yet (the code
would accept an event whose id is queued already); a copy of a recurring event is the same event
with its execution count, and `Id` gives each copy the id of its own the code gives it. Counts of
events without a limit are folded into "never" and "some" executions, as nothing else reads them.
`next_event` drops what is expired or exhausted ahead of the first valid event; events level with
it in the heap may be dropped or not.

**DesSimulator** has one thread in `run()` and `Clients` that schedule, cancel and roll back. The
queue and the map of events always change under the queue's write lock and are one set with one
event per id, as `PriorityQueue::push` replaces. `run()` peeks, pops and sets the clock under three
locks: three actions, between which anything may happen. A checkpoint it takes reads the clock, reads
the queue and stores both, in three steps (`SnapClock`, `SnapQueue`, `SnapStore`). The code's queue is a max-heap over (time,
priority), so the *latest* event comes out first; the model has that (`Latest`) and states nothing
that would hold only for the opposite. A rollback takes its steps one lock at a time; `"stuck"` is a
thread that waits for the lock it holds. Whether the checkpoint interval has elapsed is any answer.

**ConnectionPool** counts connections. A task is in `acquire` at one of its awaits (permit, lock of the
list, connect, lock of the statistics) or using a connection; `CancelAcquire` drops it at any of
these. Dropping a connection gives the permit back and leaves the release to a spawned task
(`resetting`, `returning`). Dead idle connections and timeouts of the underlying driver are part of
"connect fails" and "reset fails".

**WebSocketFanout** identifies what is broadcast with its position. A message stands for the set of
subscriptions that ask for it: an event for its topic, a metric for every topic that begins with
`twin.` and the twin's id (so that a subscription to twin 10 also lets metrics of twin 1 through), and
`System` for the kinds that everybody gets. A client's receiver has a position of its own; one that is more
than `Capacity` behind gets `Lagged`. The mutex of the socket is held by the handler from the start of a
message to its reply; a message that changes no subscription is `Request`, so that all of them delay
the send task. All clients share one manager, as in `handle_connection_with_manager`.

**ThreadPool** follows each task from `submit` to the decrement of `active_tasks`: `"sending"` (counted, not
yet in the channel), `"queued"`, `"running"`, `"ran"`, `"tallied"`, `"over"`, or `"refused"` (the channel was
disconnected) and `"lost"` (it panicked, or was discarded with the channel). A task that runs may submit a
task, which blocks its worker when the channel is full; it does not call `wait_idle` or a parallel
helper. The local queues of the workers are never filled in the code, so that neither they nor
stealing are in the model, and the priority of a task is never looked at, though a comment
(`core/hpc.rs:120`) speaks of ordering. A panic unwinds, as it does in the development and test profiles; the
release profile aborts the process. The pool starts with all its workers (a spawn that fails, and returns by `?`
with the earlier ones running, is left out), the channel has room for at least one task, and the two counters that
`submit` increments in a row are one step. Atomics are sequentially consistent in the model; the code's loads and
decrements are `Relaxed`.

**DataLayer** holds what the cache and the store have in common: the tasks that call them, keys and
values, and where each task is in its one call. **LossyMap** is a map that may forget any key at any
change and answers with what it has or with nothing. **CachePromise** is the trait over such a map: each call is
carried out at one moment, that of its return, on the key of its own request. A get is answered with what the map
has for that key, a put writes its value under it, a remove erases it, a clear erases everything, and a call that is
dropped changes nothing and has no answer. **LruCache** has the two locks, the sweep at the start of `get`, the
gap after it, the second look, and the eviction of *any* entries in `put` (the hash map's first
keys, in spite of the name; `evict_lru` has no caller, and `CacheConfig::ttl` is validated and never applied). Every operation
takes the statistics' lock inside that of the entries and changes nothing before it has both, so that
one step changes both; `get` waits for it with its read guard in hand (`"counting"`). A call may be dropped at
any await (`Cancel`). Time is the step `RunOut`, that ends the life of one entry. `KeepsPromise` instantiates
`CachePromise` with content = entries, requests and answers being its own: a get that answers for another key, a
remove that removes nothing or a put that leaves the old value breaks it. Hits and misses are left out.

**UnifiedStore** gives each of the three places a step, in the order of the code, any of which may fail or be the
last one before the call is dropped (`Abandon`). The cache is changed and asked by the operators of
`LossyMap` that the returns of `CachePromise` are made of, at the key of the call, so that what is found holds with
any cache that keeps the promise. The history variable `tangled` names the keys on which a write met
another call or was cut short, until a write of the key that meets nobody.

## 3. Runs

| Run | Instance | Distinct states | What it shows |
|---|---|---|---|
| `indexed` | four agents, batches of one, shuffling | 261 | nobody is handed out twice or skipped in a tick; list and index implement the abstract scheduler |
| `model` | four agents of which three fit, batches of two, time for two ticks, two failures at a time | 44,734 | scheduler and agent set agree; who acts, how often and when; the clock; `run()` returns |
| `priority` | three agents, two priorities set at any moment | 86,040 | heap and map agree, nobody is forgotten, order by priority |
| `event_scheduler` | two agents, four entries, three times, three ticks | 13,348 | entries are served once, in order, when due; a tick ends unless an entry lies in the future |
| `event_queue` | three events, room for two, two times, priorities, expiries and limits | 642,700 | index, order, expiry, limits, statistics; the drain ends unless an event recurs without limit |
| `des` | two events, two times, two threads beside `run()`, sequential and parallel, checkpoints, a limit of one event | 207,312 | the statistics, no execution too many, the limit, and that `run()` ends |
| `conn_pool` | three tasks, two permits, one initial connection, six calls | 11,522 | permits and `acquired_current` add up; who waits is served |
| `thread_pool` | two workers, one client, room for one task in the channel, five tasks, two chunks to a parallel call | 276,192 | `active_tasks`, what zero means, the caller's slice; calls return and workers end, but for the cases named |
| `lru_cache` | two tasks, two keys, room for one entry, two values, four calls | 49,893 | the cache implements its promise call by call, each for its own key; expiry, also between sweep and look; statistics; calls return |
| `unified_store` | three tasks, two keys, two values, four calls | 1,168,856 | the three places agree on every key that is not tangled |
| `websocket` | one client, two topics, a channel of two, four broadcasts: an event of one topic, a metric both ask for, a system message | 150,804 | no gap, order, delivery |

The twelfth run, `des_rollback`, ends in the counterexample of section 4.

Why the bounds are enough. Four agents give a removal before, at and after the index with somebody
left on each side; batches of two with three agents give a full and a cut-off batch, and a failure
at its first or second agent. Times 1, 3, 5 with a step of two make the clock meet the end exactly
and pass it (durations 1 and 3). Two priorities and three agents distinguish higher, equal and stale.
A queue of two with three events overflows on a schedule, and a recurring event competes with another one. In
the simulator two threads are one that schedules or cancels while another rolls back, and a limit of
one event makes the second one the case to refuse; `MaxTime` 1 puts one of the two times over the
limit. Three tasks on two permits are the least that wait. A channel of two with four events lags.
Connections of other clients share nothing but the channel, which never blocks on a receiver, so
one client stands for all; `WebSocketFanout_proofs` proves the safety part for any number. A channel of one
with two workers fills as soon as two tasks submit at once, and five tasks are a parallel call of two, two
submissions from inside them and one more. Room for one of two keys makes every second put evict, the entry just
made or the other. Three tasks on one key are a write, a get that fills the cache late and another write
between them; the second key makes the cache forget the first one for a reason of its own.

Bounds that are not in the code: `MaxFailures` (StandardModel), `MaxEntries` and `MaxTick`
(EventScheduler), `MaxEvents` (CoreEventQueue, WebSocketFanout), `MaxSchedules` (DesSimulator),
`MaxCalls` (ConnectionPool, LruCache, UnifiedStore), `MaxTasks` (ThreadPool). They are guards of the actions that clients take, never of a step a
component takes by itself, with one exception: `FailBatch` stops after `MaxFailures` failures at one
time, and `RunTerminates` does not need that, since a failure makes `run()` return. `RunEnds` does
need a bound: the parallel branch of `run()` empties the queue whatever the limits, and so goes on as
long as others keep scheduling; without `max_events` (`None`) the sequential one does too.

Deadlock checking is off for `conn_pool`, `lru_cache` and `unified_store` (all calls made and returned: the
instance is finished), for `thread_pool` (every worker has ended after a shutdown) and for `des` (a rollback
that waits for its own lock stops everybody).

### Fairness

* `StandardModel`: weak fairness of what a call that was made goes on to do (`Execute`). A
  synchronous call runs to its end; nothing obliges a client to make one.
* `EventScheduler`, `CoreEventQueue`: weak fairness of the turns of the loop, for the same reason.
* `DesSimulator`: weak fairness of the thread in `run()` and of the steps of a rollback; no call has
  to be made, and a `schedule_event` need not go on.
* `ConnectionPool`: weak fairness of the spawned releases and of dropping a connection; strong fairness of
  getting a permit and of a task's steps under the list's lock, because tokio's semaphore and
  `RwLock` queue their waiters first come, first served. Connects and resets return, well or badly.
* `WebSocketFanout`: weak fairness of the acknowledgement and strong fairness of the send task, because
  tokio's mutex is first come, first served. Broadcasting and the client are not fair.
* `ThreadPool`: weak fairness of each worker and of each thread inside a call, because the system runs every
  thread and the functions given to the pool end; nobody has to submit or to shut down. `CallsReturn` names
  what the code does not survive: a shutdown or a panic with tasks outstanding, and every worker inside a
  task that waits for room (`Jammed`). `WorkersEnd` names the last one again.
* `LruCache`: strong fairness of the two waits for the entries' lock, as tokio's `RwLock` queues its waiters
  first come, first served; weak fairness of what follows. `UnifiedStore` has no liveness property: its
  calls wait for nothing of its own.

## 4. Where code and documentation disagree

One run has a counterexample to what a document says:

* `des_rollback`: `PROGRESS.md:272` lists "Rollback to any checkpoint or time". `rollback_to_time` calls
  `schedule_event` under the queue's write lock, which that takes too: with a pending event at or
  after the target in the checkpoint, the call never returns and the queue stays locked.

Four more disagreements are in the models and stated here, without a run of their own:

* `core/event.rs:294` says of a recurring event "For simplicity, reschedule at the same time + 1 step". The copy is
  cloned and scheduled with its time as it is (lines 292 to 296), so that it is due at once. With an event that recurs
  without limit `next_event` has one to return for ever, and the loop `while let Some(event) = ...next_event()` of
  `StandardModel::step` would never end. `UnlimitedDrainGoesOn` proves it for all constants; `DrainEnds`,
  which holds, exempts exactly these events, and under the comment would need no exemption.
* `core/scheduler.rs:48` says of `has_next` "Check if there are more agents to execute in this step".
  `EventScheduler` tests only that its queue is not empty (line 567). With an entry in the future,
  `next_batch` returns nothing, `has_next` stays true, and the loop of `step()` turns for ever (`Spin`): time,
  which it would advance at its end, never reaches the entry. `TickEnds` names the case.
* `core/event.rs:323` says of a cancelled event that it is marked as expired and "will be filtered out when
  processed". Only the index forgets it; `next_event` still returns it.
* `data/pool.rs:79` calls the semaphore the limit of the connection count. Drop frees the permit before
  the connection is back, so that other tasks open more: the open connections can be twice `max_size`,
  and those on their way back besides.

Smaller observations, which no property states because no document says the opposite: the
simulator's queue is a max-heap, so its clock runs backwards; `set_priority` before `add_agent`
leaves an agent out of the current tick; a failed reset, or a full list, leaves `acquired_current`
counting a connection that is gone for good (`leaked` in the model). In the thread pool a panic
leaves `active_tasks` up and one worker fewer, after which `wait_idle` spins for ever, and a parallel helper
waits for ever too, since it keeps a sender of its own channel; `parallel_for` over an empty slice divides by
zero, where `parallel_map` returns at once. The cache evicts any entry, the one just put included. In the unified
store a get that read both stores before a delete may put the record back into the cache after it, where
it stays, as the cache is filled without a time to live; a store or delete that fails half-way leaves the
places apart until the next undisturbed write.

## 5. Proofs

All theorems hold for every value of the constants that satisfies the modules' assumptions, which are those
the code establishes: a batch size of at least one, integer priorities, a finite set of tasks, and so on.
No theorem depends on the bounds being small.

* **IndexedScheduler_proofs.** `Invariance` proves `IInv`: no agent occupies two places, the index is within
  the list, an agent outside the list has not run, and, the heart of it, the passed part of the
  list is exactly the part that ran (`RanIsPassed`). `HandedOutOnce` alone is not inductive: it says
  nothing about where the agents that ran stand, on which the next batch depends. The hard step is
  `remove_agent`: the tail moves left under the index (`RemoveAtLemma`). `ThmHandedOutOnce` and
  `ThmNoneSkipped` follow; `Refinement` shows that every step is a step, or a stutter, of `TickScheduler`.
* **StandardModel_proofs.** Two invariants. `ClockInv` adds to `ClockCountsSteps` that a model without a
  completed step is the only one that may be Created, and that a model that can go on has not
  reached its end. `ActInv` joins the scheduler's invariant, `SchedulerAgrees`, and `Turns`: inside a
  tick an agent has acted at least as often as it was handed out, and at most that often plus the
  failures. The upper bound survives a failure because the batch's agents had not run (`RanIsPassed`);
  the lower one gives `ThmTickIsComplete`, since `has_next` is false only when all are handed
  out. What the scheduler does in a step comes from the lemmas of `IndexedScheduler_proofs`,
  instantiated as `P`. `ThmRunDescends` and `ThmRunIsBounded` are the argument for `RunTerminates` without its
  fairness: in `run()` each step moves the time on towards an end that is fixed, or lowers `TickRank`, the
  batches left at this time; the time step is positive and the list keeps its length when it is shuffled.
* **HeapQueues_proofs.** *PriorityScheduler*: the four properties with `QueuedNotRun` added: who is queued has not
  run, as long as the heap was not rebuilt in the tick; `OnceUnlessRebuilt` needs it. Every
  operation that rebuilds goes through one lemma (`AfterRebuild`). `ThmHigherGoesFirst` is an action property
  of `next_batch` that needs `HeapMatchesMap` to compare an item's priority with the map's.
  *CoreEventQueue*: `CoreInv` joins three of the properties, which lean on one another and on two more facts: however
  often an event recurs it is in the heap once (`OncePerEvent`), so that what is popped leaves the
  account of exactly one event; and the event to be scheduled next has left no trace in heap, cancelled
  ids or counts (`MadeBounds`), so that its id is new. A copy has its own id because the id holds the count of its
  executions (`CopyFacts`). `next_event` is proved in two halves, what is dropped (`DropKeeps`) and what is
  returned. `UnlimitedDrainGoesOn` is the other side of `DrainEnds`: a drain with an event without a limit ahead of it
  goes on for ever. `ThmServedByTimeAndPriority` is an action property; it needs that an id names one item
  (`IdIsUnique`), since the history records ids.
* **EventQueues_proofs.** *DesSimulator*: `QueueInv`: one event per id, the pending count, and executions plus queued events
  at most the number of schedules; the second needs the first, because a pop takes one event
  of an id and must leave none. Steps that move only threads, the clock or the checkpoints go
  through `QueueUntouched`. `ThmEventsCapped` has an invariant of its own over the loop of `run()`, in
  which only the program counter relates the limit tested at the peek to the count raised at the pop;
  `ThmSequentialRunDescends` takes it up: `RunRank`, nine for each event left to count plus the place in the
  loop, falls with every step of a sequential `run()`. (In parallel mode clients may refill the queue while it is
  emptied, so that only the bound on schedules ends it.) `RollbackLocksForGood` is the general form of the finding
  `RollbackReturns`: once locked by a rollback, the queue never changes again.
  *EventScheduler*: `SchedulerInv` adds to `NothingLost` that the list is in the order of its times (`Sorted`) and
  that nothing in it is earlier than what was served last (`ServedBeforeRest`). The second follows from the
  first when an entry is served, and gives `ThmServedInOrder` when the next one is. Entries are counted by their
  positions (`Of`), so that each operation on the list comes with a one-to-one map between positions before
  and after: `InsertFacts` for `schedule_at`, `RetainFacts` for `retain`, `TailFacts` for `pop_front`. That
  `InsertPos` finds a place at all is the least-number principle (`LeastMember`). `InitializeSchedules` shows
  that `Initialize`, one step in the model, is the code's loop: with one id more the list is what
  `schedule_at` makes of the list before. `TickDescendsOrStalls` is both halves of `TickEnds`: a tick takes
  entry after entry off the list, and when the first one left lies in the future, it never ends.
* **ConnectionPool_proofs.** Counting tasks at places: `GotoCounts` says what one move does to the number of
  tasks in any set of places, and each action follows from it. `ThmAcquiredNotNegative` is the consequence for
  the unsigned counter. The initial number of connections is arbitrary, as the code does not compare it
  with `max_size`. `ThmNoStandstill` is what `Served` rests on: since permits add up, a pool without a
  free one has a holder, and the holder can go on or waits for one who can.
* **WebSocketFanout_proofs.** `Good(c)` per client: what is owed is still asked for, so the
  filter, asked later, does not refuse it (`OwedPassesFilter`); nothing is owed before the connection is
  open; what is written lies behind the receiver. `NoGap` and `InOrder` follow.
* **ThreadPool_proofs.** `Invariance` proves `IInv`. `ActiveAddsUp` alone is not inductive: that a worker's
  decrement, or a refused send, takes off a task which was counted needs to know where each task is. So `OneSender` says that
  a task on its way is in the hand of one thread, `QueueHolds` that the channel holds exactly the queued tasks,
  each once, `InHand` that each worker runs a task of its own, and `NothingLeft` that
  no task is queued when the last worker is gone. `TalliesAddUp` counts the two statistics in the same way, and
  `ChunksKnown` ties a parallel call to its chunks. One lemma (`Recounted`) says what moving a task to
  another place does to the number of tasks at any places; each action follows from it. `IdleIsDone` and
  `ChunksStayInScope` are consequences.
  `SomebodyIsAtWork` is the argument for `CallsReturn` without its fairness. It needs `Hands`, the converse of what
  `IInv` says: each task on its way *has* a sender and each task taken *has* a worker (`Senders`, `Holders`), the
  channel keeps within its capacity, and a parallel call whose chunk is refused has given up its chunks. If nobody
  can take a step, either a sender waits at a full channel, and so does every worker (`StuckIsJammed`), or every
  task is through (`StuckIsDone`) and no call waits. `LossIsForGood` shows that the exception for lost tasks
  is needed: after a panic `active_tasks` is never zero again.
* **DataStore_proofs.** *LruCache*: the refinement `CacheKeepsPromise`: a change maps to `ReturnPut`,
  `ReturnRemove` or `ReturnClear` of its own request, the return of a get to `ReturnGet`, the beginning and the
  dropping of a call to `Call` and `Drop`, the sweep to `Forget`, every other step to a stutter. The step that needs
  an invariant is the answer, which a get gives with what it found earlier: `FoundIsKept` says that it is still
  there under the key of the request, and is inductive with `Exclusion` (who writes is alone with the entries,
  readers that have found something included). `LateFindsNothing` carries "had expired before it looked", at the
  call or in the gap after the sweep, to the look, and gives `NothingExpiredIsFound`. Every step but the passing of time goes through one of two lemmas,
  `OneMoves` and `WriterMoves`.
  *UnifiedStore*: `UntangledKeysAgree` says nothing of a key that is being written, so that the invariant has to.
  `QuietAgrees`: on an untangled key without a writer the three places agree, and what its readers have
  read so far is what is there. `WriterIsAlone` and `AloneIsAlone`: a writer of an untangled key, or one that may
  untangle a key, is the only call on it. `AloneProgress`: what such a writer has done so far, up to its pc, is
  there, and so the places agree when it is through. The cache may forget any key at any change, as `LossyMap`
  lets it: `CacheWrites` and `CacheErases` say that agreement survives this.

Components that share a module of proofs do so because it extends both; nothing said of one is used for the other.

Only model-checked: the liveness properties `RunTerminates`, `TickEnds`, `DrainEnds`, `RunEnds`, `Served`,
`Delivered`, `WorkersEnd` and the two `CallsReturn`, since the prover does not reason about fairness and
`ENABLED`; for five of them the argument that fairness completes (a rank that falls, or a thread that can
go on) is proved, as said above. What remains of `DrainEnds` is a sum over the queue's events of the executions
they have left, `WorkersEnd`, `Delivered` and the cache's `CallsReturn` are checked by TLC alone. Every safety property of a passing run, invariant or action property, and both refinements are
proved. Type invariants that say no more than that a variable has its type are kept with the proofs that use them.

## 6. Plan

The scheduler family and the model that drives it are the heart of the framework and came first; then the
queues and the concurrent components above, and the abstract specifications (`TickScheduler`,
`LossyMap`, `CachePromise`) with the detailed ones shown to implement them. What would follow, if the code moves that way:

1. `SyncManager` and `TimeManager`, when a failed advance can reach the rollback and grants are compared:
   an abstract conservative advance (no grant beyond a pending request).
2. Time warp, when `run()` goes through it.
3. `ObjectPool` with its counters, when something is decided on them.
4. A history of `Agent::initialize` in `StandardModel` (agents added after initialization, reset and initialize
   again), when the trait says what an agent may rely on.

## 7. Running it

    tlc -workers 2 -config IndexedScheduler.cfg IndexedScheduler
    tlapm IndexedScheduler_proofs.tla

A configuration is named after its module; `<Module>_<Property>.cfg` is the run that refutes the property.
