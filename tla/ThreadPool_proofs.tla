-------------------------- MODULE ThreadPool_proofs --------------------------
(***************************************************************************)
(* Proofs about ThreadPool, for any workers, threads and capacity: what     *)
(* active_tasks counts, what a return of wait_idle means, that no chunk     *)
(* outlives the call it belongs to, and that nobody waits in vain.          *)
(***************************************************************************)
EXTENDS ThreadPool, TLAPS, FiniteSetTheorems

Places == {"none", "sending", "queued", "running", "ran", "tallied", "over", "lost", "refused"}
Sent == Places \ {"none", "sending", "refused"}
Told == {"tallied", "over"}

TypeOK ==
    /\ task \in [Ids -> Places]
    /\ queue \in Seq(Ids)
    /\ active \in Int
    /\ submitted \in Nat
    /\ completed \in Nat
    /\ at \in [Workers -> {"top", "poll", "busy", "gone"}]
    /\ hand \in [Workers -> 0..MaxTasks]
    /\ \A w \in Workers : at[w] = "busy" => hand[w] \in Ids
    /\ call \in [Threads -> {"none", "send", "tally", "wait"}]
    /\ item \in [Threads -> 0..MaxTasks]
    /\ left \in [Clients -> Int]
    /\ mine \in [Clients -> SUBSET Ids]
    /\ chunks \in SUBSET Ids

\* A task that is being sent has one sender.
OneSender ==
    /\ \A a \in Threads : call[a] = "send" => item[a] \in Ids /\ task[item[a]] = "sending"
    /\ \A a, b \in Threads : call[a] = "send" /\ call[b] = "send" /\ item[a] = item[b] => a = b

\* The channel holds each task it holds once.
QueueHolds ==
    /\ \A i \in Ids : task[i] = "queued" <=> \E n \in 1..Len(queue) : queue[n] = i
    /\ \A m, n \in 1..Len(queue) : queue[m] = queue[n] => m = n

\* A task that runs is in the hand of a worker.
InHand == \A i \in Ids : task[i] = "running" => \E w \in Workers : at[w] = "busy" /\ hand[w] = i

\* Nothing stays in a disconnected channel.
NothingLeft == Disconnected => queue = <<>>

\* A parallel call sends one chunk at a time, and knows those it has sent.
ChunksKnown ==
    /\ \A c \in Clients : \A i \in mine[c] :
        /\ task[i] # "none"
        /\ task[i] = "sending" => call[c] = "send" /\ item[c] = i
    /\ \A i \in chunks : task[i] # "none"

Tallying == { a \in Threads : call[a] = "tally" }

TalliesAddUp ==
    /\ completed = Cardinality(TasksIn(Told))
    /\ submitted + Cardinality(Tallying) = Cardinality(TasksIn(Sent))

\* What every step keeps.
IInv ==
    /\ TypeOK
    /\ OneSender
    /\ QueueHolds
    /\ InHand
    /\ NothingLeft
    /\ ChunksKnown
    /\ ActiveAddsUp
    /\ TalliesAddUp
    /\ ChunksInScope

-----------------------------------------------------------------------------
\* How many tasks are in some places when one task moves.
LEMMA Moved ==
    ASSUME TypeOK, NEW CONSTANT P,
           NEW CONSTANT i \in Ids, NEW CONSTANT p \in Places, task' = [task EXCEPT ![i] = p]
    PROVE  /\ Cardinality(TasksIn(P)) \in Nat
           /\ p \in P /\ task[i] \notin P => Cardinality(TasksIn(P))' = Cardinality(TasksIn(P)) + 1
           /\ p \notin P /\ task[i] \in P => Cardinality(TasksIn(P))' = Cardinality(TasksIn(P)) - 1
           /\ (p \in P <=> task[i] \in P) => Cardinality(TasksIn(P))' = Cardinality(TasksIn(P))
<1> DEFINE F == { j \in Ids : task[j] \in P }
           G == { j \in Ids : task'[j] \in P }
<1>1. IsFiniteSet(Ids)
  BY SizesAssumption, FS_Interval DEF Ids
<1>2. IsFiniteSet(F) /\ Cardinality(F) \in Nat
  BY <1>1, FS_Subset, FS_CardinalityType
<1>0. task \in [Ids -> Places]
  BY DEF TypeOK
<1>3. p \in P /\ task[i] \notin P => G = F \cup {i} /\ i \notin F
  BY <1>0
<1>4. p \notin P /\ task[i] \in P => G = F \ {i} /\ i \in F
  BY <1>0
<1>5. (p \in P <=> task[i] \in P) => G = F
  BY <1>0
<1> HIDE DEF F, G
<1>6. i \notin F => Cardinality(F \cup {i}) = Cardinality(F) + 1
  BY <1>2, FS_AddElement
<1>7. i \in F => Cardinality(F \ {i}) = Cardinality(F) - 1
  BY <1>2, FS_RemoveElement
<1>8. /\ Cardinality(F) \in Nat
      /\ p \in P /\ task[i] \notin P => Cardinality(G) = Cardinality(F) + 1
      /\ p \notin P /\ task[i] \in P => Cardinality(G) = Cardinality(F) - 1
      /\ (p \in P <=> task[i] \in P) => Cardinality(G) = Cardinality(F)
  BY <1>2, <1>3, <1>4, <1>5, <1>6, <1>7
<1> QED BY <1>8 DEF F, G, TasksIn

\* What a set of places gains when a task moves from p to q.
Gain(P, p, q) == IF q \in P /\ p \notin P THEN 1 ELSE IF q \notin P /\ p \in P THEN -1 ELSE 0

\* The counters still add up when they follow the task that moves.
LEMMA Recounted ==
    ASSUME TypeOK, ActiveAddsUp, TalliesAddUp,
           NEW CONSTANT i \in Ids, NEW CONSTANT p \in Places, NEW CONSTANT q \in Places,
           task[i] = p, task' = [task EXCEPT ![i] = q],
           active' = active + Gain(Outstanding, p, q),
           completed' = completed + Gain(Told, p, q),
           (submitted + Cardinality(Tallying))' = submitted + Cardinality(Tallying) + Gain(Sent, p, q)
    PROVE  ActiveAddsUp' /\ TalliesAddUp'
<1> DEFINE Grows(P) == /\ Cardinality(TasksIn(P)) \in Nat
                        /\ Cardinality(TasksIn(P))' = Cardinality(TasksIn(P)) + Gain(P, p, q)
<1>0. ASSUME NEW CONSTANT P PROVE Grows(P)
  <2>1. /\ Cardinality(TasksIn(P)) \in Nat
        /\ q \in P /\ p \notin P => Cardinality(TasksIn(P))' = Cardinality(TasksIn(P)) + 1
        /\ q \notin P /\ p \in P => Cardinality(TasksIn(P))' = Cardinality(TasksIn(P)) - 1
        /\ (q \in P <=> p \in P) => Cardinality(TasksIn(P))' = Cardinality(TasksIn(P))
    BY Moved
  <2> QED BY <2>1 DEF Gain
<1> HIDE DEF Grows
<1>1. Grows(Outstanding) /\ Grows(Sent) /\ Grows(Told)
  BY <1>0
<1>2. ActiveAddsUp'
  BY <1>1 DEF Grows, ActiveAddsUp
<1>3. TalliesAddUp'
  BY <1>1 DEF Grows, TalliesAddUp
<1> QED BY <1>2, <1>3

\* How many are between sending and counting when one call moves.
LEMMA CallMoved ==
    ASSUME TypeOK, NEW CONSTANT a \in Threads, NEW CONSTANT p, call' = [call EXCEPT ![a] = p]
    PROVE  /\ Cardinality(Tallying) \in Nat
           /\ p = "tally" /\ call[a] # "tally" => Cardinality(Tallying)' = Cardinality(Tallying) + 1
           /\ p # "tally" /\ call[a] = "tally" => Cardinality(Tallying)' = Cardinality(Tallying) - 1
           /\ p # "tally" /\ call[a] # "tally" => Cardinality(Tallying)' = Cardinality(Tallying)
<1>1. IsFiniteSet(Threads)
  BY ThreadsAssumption, FS_Union DEF Threads
<1>2. IsFiniteSet(Tallying) /\ Cardinality(Tallying) \in Nat
  BY <1>1, FS_Subset, FS_CardinalityType DEF Tallying
<1>0. call \in [Threads -> {"none", "send", "tally", "wait"}]
  BY DEF TypeOK
<1>3. p = "tally" /\ call[a] # "tally" => Tallying' = Tallying \cup {a} /\ a \notin Tallying
  BY <1>0 DEF Tallying
<1>4. p # "tally" /\ call[a] = "tally" => Tallying' = Tallying \ {a} /\ a \in Tallying
  BY <1>0 DEF Tallying
<1>5. p # "tally" /\ call[a] # "tally" => Tallying' = Tallying
  BY <1>0 DEF Tallying
<1>6. a \notin Tallying => Cardinality(Tallying \cup {a}) = Cardinality(Tallying) + 1
  BY <1>2, FS_AddElement
<1>7. a \in Tallying => Cardinality(Tallying \ {a}) = Cardinality(Tallying) - 1
  BY <1>2, FS_RemoveElement
<1> QED BY <1>2, <1>3, <1>4, <1>5, <1>6, <1>7

-----------------------------------------------------------------------------
LEMMA InitHolds ==
    ASSUME Init
    PROVE  IInv
<1>1. Cardinality({}) = 0
  BY FS_EmptySet
<1>2. /\ TasksIn(Outstanding) = {}
      /\ TasksIn(Told) = {}
      /\ TasksIn(Sent) = {}
      /\ Tallying = {}
  BY DEF Init, TasksIn, Outstanding, Sent, Told, Tallying
<1>3. TypeOK
  BY SizesAssumption DEF Init, TypeOK, Places, Threads
<1>4. QueueHolds /\ OneSender /\ InHand /\ NothingLeft /\ ChunksKnown /\ ChunksInScope
  BY DEF Init, QueueHolds, OneSender, InHand, NothingLeft, ChunksKnown, ChunksInScope, Threads
<1>5. ActiveAddsUp
  BY <1>1, <1>2 DEF Init, ActiveAddsUp
<1>6. completed = 0 /\ submitted = 0
  BY DEF Init
<1>7. TalliesAddUp
  BY <1>1, <1>2, <1>6 DEF TalliesAddUp
<1> QED BY <1>3, <1>4, <1>5, <1>7 DEF IInv

-----------------------------------------------------------------------------
\* A step that moves no task, no sender and no worker.
LEMMA Untouched ==
    ASSUME IInv, UNCHANGED <<taskVars, submitted, completed, workerVars, item, chunks>>,
           call' \in [Threads -> {"none", "send", "tally", "wait"}],
           left' \in [Clients -> Int], UNCHANGED mine,
           \A a \in Threads : call[a] \in {"send", "tally"} \/ call'[a] \in {"send", "tally"}
                              => call'[a] = call[a]
    PROVE  IInv'
<1>1. TypeOK' /\ OneSender'
  BY DEF IInv, TypeOK, OneSender, taskVars, workerVars
<1>2. QueueHolds' /\ InHand' /\ NothingLeft' /\ ChunksInScope'
  BY DEF IInv, QueueHolds, InHand, NothingLeft, Disconnected, ChunksInScope, taskVars, workerVars
<1>3. ChunksKnown'
  <2>1. SUFFICES ASSUME NEW c \in Clients, NEW i \in mine[c], task[i] = "sending"
                 PROVE  call'[c] = "send"
    BY DEF IInv, ChunksKnown, taskVars
  <2>2. call[c] = "send" /\ c \in Threads
    BY <2>1 DEF IInv, ChunksKnown, Threads
  <2> QED BY <2>2
<1>4. Tallying' = Tallying
  BY DEF Tallying
<1>5. ActiveAddsUp' /\ TalliesAddUp'
  <2>1. UNCHANGED <<active, submitted, completed, TasksIn(Outstanding), TasksIn(Sent),
                    TasksIn(Told)>>
    BY DEF TasksIn, Outstanding, Sent, Told, Places, taskVars
  <2> QED BY <1>4, <2>1 DEF IInv, ActiveAddsUp, TalliesAddUp
<1> QED BY <1>1, <1>2, <1>3, <1>5 DEF IInv

\* submit counts its task, as a chunk or not.
LEMMA CountKeeps ==
    ASSUME IInv, NEW CONSTANT a \in Threads, NEW CONSTANT i \in Ids, call[a] = "none", Count(a, i),
           left' \in [Clients -> Int],
           mine' \in [Clients -> SUBSET Ids],
           \A c \in Clients : mine'[c] = mine[c] \/ (c = a /\ mine'[c] = mine[c] \cup {i}),
           chunks' = chunks \/ (a \in Clients /\ i \in mine'[a] /\ chunks' = chunks \cup {i})
    PROVE  IInv'
<1>0. /\ task' = [task EXCEPT ![i] = "sending"] /\ task[i] = "none"
      /\ active' = active + 1
      /\ call' = [call EXCEPT ![a] = "send"]
      /\ item' = [item EXCEPT ![a] = i]
      /\ UNCHANGED <<queue, submitted, completed, at, hand>>
  BY DEF Count, Fresh, stats, workerVars
<1> TypeOK /\ i \in 0..MaxTasks
  BY SizesAssumption DEF IInv, Ids
<1>1. TypeOK'
  <2>1. /\ task' \in [Ids -> Places]
        /\ call' \in [Threads -> {"none", "send", "tally", "wait"}]
        /\ item' \in [Threads -> 0..MaxTasks]
    BY <1>0 DEF TypeOK, Places
  <2>2. chunks' \in SUBSET Ids
    BY DEF TypeOK
  <2>3. /\ queue' \in Seq(Ids)
        /\ active' \in Int
        /\ submitted' \in Nat
        /\ completed' \in Nat
        /\ at' \in [Workers -> {"top", "poll", "busy", "gone"}]
        /\ hand' \in [Workers -> 0..MaxTasks]
        /\ \A w \in Workers : at'[w] = "busy" => hand'[w] \in Ids
    BY <1>0 DEF TypeOK
  <2> QED BY <2>1, <2>2, <2>3 DEF TypeOK
<1>2. OneSender'
  BY <1>0 DEF IInv, TypeOK, OneSender
<1>3. QueueHolds' /\ InHand' /\ NothingLeft'
  BY <1>0 DEF IInv, TypeOK, QueueHolds, InHand, NothingLeft, Disconnected
<1>4. ChunksKnown'
  <2>1. \A c \in Clients : \A j \in mine'[c] :
          task'[j] # "none" /\ (task'[j] = "sending" => call'[c] = "send" /\ item'[c] = j)
    <3>1. SUFFICES ASSUME NEW c \in Clients, NEW j \in mine'[c]
                   PROVE  task'[j] # "none" /\ (task'[j] = "sending" => call'[c] = "send" /\ item'[c] = j)
      OBVIOUS
    <3>2. c \in Threads /\ j \in Ids
      BY DEF TypeOK, Threads
    <3>3. CASE j \in mine[c]
      BY <1>0, <3>2, <3>3 DEF IInv, TypeOK, ChunksKnown
    <3>4. CASE c = a /\ j = i
      BY <1>0, <3>2, <3>4 DEF TypeOK
    <3> QED BY <3>3, <3>4
  <2>2. \A j \in chunks' : task'[j] # "none"
    BY <1>0 DEF IInv, TypeOK, ChunksKnown
  <2> QED BY <2>1, <2>2 DEF ChunksKnown
<1>5. ChunksInScope'
  <2>1. SUFFICES ASSUME NEW j \in chunks', task'[j] \in {"sending", "queued", "running"}
                 PROVE  \E c \in Clients : j \in mine'[c]
    BY DEF ChunksInScope
  <2>2. CASE j \in chunks /\ j # i
    <3>1. task[j] \in {"sending", "queued", "running"}
      BY <1>0, <2>1, <2>2 DEF TypeOK
    <3>2. PICK c \in Clients : j \in mine[c]
      BY <2>2, <3>1 DEF IInv, ChunksInScope
    <3> QED BY <3>2
  <2>3. CASE j \notin chunks
    BY <2>3
  <2>4. i \notin chunks
    BY <1>0 DEF IInv, ChunksKnown
  <2> QED BY <2>2, <2>3, <2>4
<1>6. ActiveAddsUp' /\ TalliesAddUp'
  <2>1. /\ Gain(Outstanding, "none", "sending") = 1
        /\ Gain(Sent, "none", "sending") = 0
        /\ Gain(Told, "none", "sending") = 0
    BY DEF Gain, Outstanding, Sent, Told, Places
  <2>2. Cardinality(Tallying) \in Nat /\ Cardinality(Tallying)' = Cardinality(Tallying)
    <3>1. call' = [call EXCEPT ![a] = "send"] /\ call[a] # "tally" /\ "send" # "tally"
      BY <1>0
    <3> QED BY <3>1, CallMoved
  <2>3. "none" \in Places /\ "sending" \in Places /\ completed \in Nat /\ submitted \in Nat
    BY DEF Places, TypeOK
  <2>4. /\ active' = active + Gain(Outstanding, "none", "sending")
        /\ completed' = completed + Gain(Told, "none", "sending")
        /\ (submitted + Cardinality(Tallying))' =
             submitted + Cardinality(Tallying) + Gain(Sent, "none", "sending")
    BY <1>0, <2>1, <2>2, <2>3
  <2>5. ActiveAddsUp /\ TalliesAddUp
    BY DEF IInv
  <2>6. task[i] = "none" /\ task' = [task EXCEPT ![i] = "sending"]
    BY <1>0
  <2> QED BY <2>3, <2>4, <2>5, <2>6, Recounted
<1> QED BY <1>1, <1>2, <1>3, <1>4, <1>5, <1>6 DEF IInv

LEMMA SendKeeps ==
    ASSUME IInv, NEW CONSTANT a \in Threads, Send(a)
    PROVE  IInv'
<1>1. PICK i \in Ids : i = item[a] /\ task[i] = "sending"
  BY DEF Send, IInv, OneSender
<1>0. /\ call[a] = "send" /\ ~Disconnected
      /\ queue' = Append(queue, i)
      /\ task' = [task EXCEPT ![i] = "queued"]
      /\ call' = [call EXCEPT ![a] = "tally"]
      /\ UNCHANGED <<active, submitted, completed, at, hand, item, left, mine, chunks>>
  BY <1>1 DEF Send, stats, workerVars, parallelVars
<1>2. TypeOK'
  BY <1>0 DEF IInv, TypeOK, Places
<1>3. OneSender'
  BY <1>0, <1>1 DEF IInv, TypeOK, OneSender
<1>4. QueueHolds'
  <2>1. /\ queue \in Seq(Ids) /\ Len(queue) \in Nat /\ Len(queue') = Len(queue) + 1
        /\ \A n \in 1..Len(queue) : queue'[n] = queue[n] /\ queue[n] # i
        /\ queue'[Len(queue) + 1] = i
    <3>1. queue \in Seq(Ids) /\ Len(queue) \in Nat
      BY DEF IInv, TypeOK
    <3>2. \A n \in 1..Len(queue) : queue[n] # i
      BY <1>1, <3>1 DEF IInv, QueueHolds
    <3> QED BY <1>0, <3>1, <3>2
  <2>2. \A m, n \in 1..Len(queue') : queue'[m] = queue'[n] => m = n
    BY <2>1 DEF IInv, QueueHolds
  <2>3. \A j \in Ids : task'[j] = "queued" <=> \E n \in 1..Len(queue') : queue'[n] = j
    <3> TAKE j \in Ids
    <3>1. CASE j = i
      <4>1. Len(queue) + 1 \in 1..Len(queue') /\ task'[j] = "queued"
        <5>1. task \in [Ids -> Places]
          BY DEF IInv, TypeOK
        <5> QED BY <1>0, <2>1, <3>1, <5>1
      <4> QED BY <2>1, <3>1, <4>1
    <3>2. CASE j # i
      <4>1. task'[j] = task[j]
        BY <1>0, <3>2 DEF IInv, TypeOK
      <4> QED BY <2>1, <3>2, <4>1 DEF IInv, QueueHolds
    <3> QED BY <3>1, <3>2
  <2> QED BY <2>2, <2>3 DEF QueueHolds
<1>5. InHand' /\ NothingLeft'
  BY <1>0, <1>1 DEF IInv, TypeOK, InHand, NothingLeft, Disconnected
<1>6. ChunksKnown'
  <2>1. SUFFICES ASSUME NEW c \in Clients, NEW j \in mine[c]
                 PROVE  task'[j] # "none" /\ (task'[j] = "sending" => call'[c] = "send" /\ item[c] = j)
    BY <1>0 DEF IInv, TypeOK, ChunksKnown
  <2>2. j \in Ids /\ c \in Threads
    BY DEF IInv, TypeOK, Threads
  <2>3. task'[j] = "sending" => task[j] = "sending" /\ j # i
    BY <1>0, <2>2 DEF IInv, TypeOK
  <2> QED BY <1>0, <1>1, <2>2, <2>3 DEF IInv, TypeOK, ChunksKnown
<1>7. ChunksInScope'
  BY <1>0, <1>1 DEF IInv, TypeOK, ChunksInScope
<1>8. ActiveAddsUp' /\ TalliesAddUp'
  <2>1. /\ Gain(Outstanding, "sending", "queued") = 0
        /\ Gain(Sent, "sending", "queued") = 1
        /\ Gain(Told, "sending", "queued") = 0
    BY DEF Gain, Outstanding, Sent, Told, Places
  <2>2. Cardinality(Tallying) \in Nat /\ Cardinality(Tallying)' = Cardinality(Tallying) + 1
    BY <1>0, CallMoved DEF IInv
  <2>3. /\ "sending" \in Places /\ "queued" \in Places
        /\ completed \in Nat /\ submitted \in Nat /\ active \in Int
    BY DEF IInv, Places, TypeOK
  <2>4. /\ active' = active + Gain(Outstanding, "sending", "queued")
        /\ completed' = completed + Gain(Told, "sending", "queued")
        /\ (submitted + Cardinality(Tallying))' =
             submitted + Cardinality(Tallying) + Gain(Sent, "sending", "queued")
    BY <1>0, <2>1, <2>2, <2>3
  <2>5. TypeOK /\ ActiveAddsUp /\ TalliesAddUp
    BY DEF IInv
  <2>6. task[i] = "sending" /\ task' = [task EXCEPT ![i] = "queued"]
    BY <1>0, <1>1
  <2> QED BY <2>3, <2>4, <2>5, <2>6, Recounted
<1> QED BY <1>2, <1>3, <1>4, <1>5, <1>6, <1>7, <1>8 DEF IInv

LEMMA SendFailsKeeps ==
    ASSUME IInv, NEW CONSTANT a \in Threads, SendFails(a)
    PROVE  IInv'
<1>1. PICK i \in Ids : i = item[a] /\ task[i] = "sending"
  BY DEF SendFails, IInv, OneSender
<1>0. /\ call[a] = "send" /\ Disconnected
      /\ task' = [task EXCEPT ![i] = "refused"]
      /\ active' = active - 1
      /\ call' = [call EXCEPT ![a] = "none"]
      /\ item' = [item EXCEPT ![a] = 0]
      /\ left' = left \/ left' = [left EXCEPT ![a] = 0]
      /\ \A c \in Clients \ {a} : mine'[c] = mine[c]
      /\ mine' = mine \/ mine' = [mine EXCEPT ![a] = {}]
      /\ UNCHANGED <<queue, submitted, completed, at, hand, chunks>>
  BY <1>1 DEF SendFails, stats, workerVars, IInv, TypeOK
<1>2. TypeOK'
  <2>1. left' \in [Clients -> Int]
    BY <1>0 DEF IInv, TypeOK
  <2>2. mine' \in [Clients -> SUBSET Ids]
    BY <1>0 DEF IInv, TypeOK
  <2>3. /\ task' \in [Ids -> Places]
        /\ active' \in Int
        /\ call' \in [Threads -> {"none", "send", "tally", "wait"}]
        /\ item' \in [Threads -> 0..MaxTasks]
    BY <1>0, SizesAssumption DEF IInv, TypeOK, Places
  <2> QED BY <1>0, <2>1, <2>2, <2>3 DEF IInv, TypeOK
<1>3. OneSender'
  BY <1>0, <1>1 DEF IInv, TypeOK, OneSender
<1>4. QueueHolds' /\ InHand' /\ NothingLeft'
  BY <1>0, <1>1 DEF IInv, TypeOK, QueueHolds, InHand, NothingLeft, Disconnected
<1>5. ASSUME NEW j \in Ids, task'[j] # "refused"
      PROVE  task'[j] = task[j] /\ j # i
  BY <1>0, <1>5 DEF IInv, TypeOK
<1>6. ASSUME NEW c \in Clients, NEW j \in mine[c], task[j] = "sending", j # i
      PROVE  c # a /\ call'[c] = "send" /\ item'[c] = j /\ j \in mine'[c]
  <2>1. call[c] = "send" /\ item[c] = j
    BY <1>6 DEF IInv, ChunksKnown
  <2>2. c # a /\ c \in Threads
    BY <1>1, <1>6, <2>1 DEF Threads
  <2> QED BY <1>0, <2>1, <2>2 DEF IInv, TypeOK
<1>7. ChunksKnown'
  <2>1. \A j \in Ids : task[j] # "none" => task'[j] # "none"
    BY <1>5
  <2>2. \A c \in Clients : mine[c] \in SUBSET Ids /\ mine'[c] \in SUBSET mine[c]
    BY <1>0 DEF IInv, TypeOK
  <2>3. chunks \in SUBSET Ids
    BY DEF IInv, TypeOK
  <2>4. ASSUME NEW c \in Clients, NEW j \in mine'[c]
        PROVE  task'[j] # "none" /\ (task'[j] = "sending" => call'[c] = "send" /\ item'[c] = j)
    BY <1>5, <1>6, <2>1, <2>2 DEF IInv, ChunksKnown
  <2> QED BY <1>0, <2>1, <2>3, <2>4 DEF IInv, ChunksKnown
<1>8. ChunksInScope'
  <2>1. SUFFICES ASSUME NEW j \in chunks, task'[j] \in {"sending", "queued", "running"}
                 PROVE  \E c \in Clients : j \in mine'[c]
    BY <1>0 DEF ChunksInScope
  <2>2. j \in Ids /\ task[j] = task'[j] /\ j # i
    BY <1>5, <2>1 DEF IInv, TypeOK
  <2>3. task[j] # "queued"
    BY <1>0, <2>2 DEF IInv, NothingLeft, QueueHolds
  <2>4. task[j] # "running"
    BY <1>0, <2>2 DEF IInv, InHand, Disconnected
  <2>5. PICK c \in Clients : j \in mine[c]
    BY <2>1, <2>2 DEF IInv, ChunksInScope
  <2> QED BY <1>6, <2>1, <2>2, <2>3, <2>4, <2>5
<1>9. ActiveAddsUp' /\ TalliesAddUp'
  <2>1. /\ Gain(Outstanding, "sending", "refused") = -1
        /\ Gain(Sent, "sending", "refused") = 0
        /\ Gain(Told, "sending", "refused") = 0
    BY DEF Gain, Outstanding, Sent, Told, Places
  <2>2. Cardinality(Tallying) \in Nat /\ Cardinality(Tallying)' = Cardinality(Tallying)
    <3>1. TypeOK /\ call' = [call EXCEPT ![a] = "none"] /\ call[a] # "tally" /\ "none" # "tally"
      BY <1>0 DEF IInv
    <3> QED BY <3>1, CallMoved
  <2>3. /\ "sending" \in Places /\ "refused" \in Places
        /\ completed \in Nat /\ submitted \in Nat /\ active \in Int
    BY DEF IInv, Places, TypeOK
  <2>4. /\ active' = active + Gain(Outstanding, "sending", "refused")
        /\ completed' = completed + Gain(Told, "sending", "refused")
        /\ (submitted + Cardinality(Tallying))' =
             submitted + Cardinality(Tallying) + Gain(Sent, "sending", "refused")
    BY <1>0, <2>1, <2>2, <2>3
  <2>5. TypeOK /\ ActiveAddsUp /\ TalliesAddUp
    BY DEF IInv
  <2>6. task[i] = "sending" /\ task' = [task EXCEPT ![i] = "refused"]
    BY <1>0, <1>1
  <2> QED BY <2>3, <2>4, <2>5, <2>6, Recounted
<1> QED BY <1>2, <1>3, <1>4, <1>7, <1>8, <1>9 DEF IInv

LEMMA TallyKeeps ==
    ASSUME IInv, NEW CONSTANT a \in Threads, Tally(a)
    PROVE  IInv'
<1>0. /\ call[a] = "tally"
      /\ submitted' = submitted + 1
      /\ call' = [call EXCEPT ![a] = "none"]
      /\ item' = [item EXCEPT ![a] = 0]
      /\ UNCHANGED <<task, queue, active, completed, at, hand, left, mine, chunks>>
  BY DEF Tally, taskVars, workerVars, parallelVars
<1>1. TypeOK'
  BY <1>0, SizesAssumption DEF IInv, TypeOK
<1>2. OneSender'
  BY <1>0 DEF IInv, TypeOK, OneSender
<1>3. QueueHolds' /\ InHand' /\ NothingLeft' /\ ChunksInScope'
  BY <1>0 DEF IInv, QueueHolds, InHand, NothingLeft, Disconnected, ChunksInScope
<1>4. ChunksKnown'
  <2>1. SUFFICES ASSUME NEW c \in Clients, NEW i \in mine[c], task[i] = "sending"
                 PROVE  call'[c] = "send" /\ item'[c] = i
    BY <1>0 DEF IInv, ChunksKnown
  <2>2. call[c] = "send" /\ item[c] = i /\ c \in Threads
    BY <2>1 DEF IInv, ChunksKnown, Threads
  <2> QED BY <1>0, <2>2 DEF IInv, TypeOK
<1>5. ActiveAddsUp' /\ TalliesAddUp'
  <2>1. Cardinality(Tallying) \in Nat /\ Cardinality(Tallying)' = Cardinality(Tallying) - 1
    <3>1. TypeOK /\ call' = [call EXCEPT ![a] = "none"] /\ call[a] = "tally" /\ "none" # "tally"
      BY <1>0 DEF IInv
    <3> QED BY <3>1, CallMoved
  <2>2. UNCHANGED <<TasksIn(Outstanding), TasksIn(Sent), TasksIn(Told)>>
    BY <1>0 DEF TasksIn, Outstanding, Sent, Told, Places
  <2>3. submitted \in Nat
    BY DEF IInv, TypeOK
  <2>4. submitted' + Cardinality(Tallying)' = submitted + Cardinality(Tallying)
    BY <1>0, <2>1, <2>3
  <2> QED BY <1>0, <2>2, <2>4 DEF IInv, ActiveAddsUp, TalliesAddUp
<1> QED BY <1>1, <1>2, <1>3, <1>4, <1>5 DEF IInv

LEMMA CollectKeeps ==
    ASSUME IInv, NEW CONSTANT c \in Clients, Collect(c)
    PROVE  IInv'
<1>0. /\ Cardinality(Reported(c)) = Cardinality(mine[c])
      /\ mine' = [mine EXCEPT ![c] = {}]
      /\ UNCHANGED <<task, queue, active, submitted, completed, at, hand, call, item, left, chunks>>
  BY DEF Collect, Collected, taskVars, stats, workerVars, callVars
<1>1. Reported(c) = mine[c]
  <2>1. IsFiniteSet(mine[c])
    <3>1. IsFiniteSet(Ids)
      BY SizesAssumption, FS_Interval DEF Ids
    <3>2. mine[c] \subseteq Ids
      BY DEF IInv, TypeOK
    <3> QED BY <3>1, <3>2, FS_Subset
  <2>2. Reported(c) \subseteq mine[c]
    BY DEF Reported
  <2> QED BY <1>0, <2>1, <2>2, FS_Subset
<1>2. \A i \in mine[c] : task[i] \in {"ran", "tallied", "over"}
  BY <1>1 DEF Reported, TasksIn
<1>3. TypeOK' /\ OneSender' /\ QueueHolds' /\ InHand' /\ NothingLeft'
  BY <1>0 DEF IInv, TypeOK, OneSender, QueueHolds, InHand, NothingLeft, Disconnected
<1>4. ChunksKnown'
  BY <1>0 DEF IInv, TypeOK, ChunksKnown
<1>5. ChunksInScope'
  <2>1. SUFFICES ASSUME NEW j \in chunks, task[j] \in {"sending", "queued", "running"}
                 PROVE  \E d \in Clients : j \in mine'[d]
    BY <1>0 DEF ChunksInScope
  <2>2. PICK d \in Clients : j \in mine[d]
    BY <2>1 DEF IInv, ChunksInScope
  <2>3. d # c
    BY <1>2, <2>1, <2>2
  <2> QED BY <1>0, <2>2, <2>3 DEF IInv, TypeOK
<1>6. ActiveAddsUp' /\ TalliesAddUp'
  <2>1. UNCHANGED <<TasksIn(Outstanding), TasksIn(Sent), TasksIn(Told), Tallying>>
    BY <1>0 DEF TasksIn, Outstanding, Sent, Told, Places, Tallying
  <2> QED BY <1>0, <2>1 DEF IInv, ActiveAddsUp, TalliesAddUp
<1> QED BY <1>3, <1>4, <1>5, <1>6 DEF IInv

-----------------------------------------------------------------------------
\* A worker ends, with at most the task that runs in its hand.
LEMMA LeaveKeeps ==
    ASSUME IInv, NEW CONSTANT w \in Workers, NEW lost \in SUBSET Ids, Leave(w, lost),
           UNCHANGED <<submitted, completed>>,
           \/ at[w] # "busy" /\ lost = {}
           \/ at[w] = "busy" /\ lost = {hand[w]} /\ task[hand[w]] = "running"
    PROVE  IInv'
<1> DEFINE last == \A v \in Workers \ {w} : at[v] = "gone"
           all == IF last THEN lost \cup Range(queue) ELSE lost
<1>0. /\ at' = [at EXCEPT ![w] = "gone"]
      /\ hand' = [hand EXCEPT ![w] = 0]
      /\ task' = [i \in Ids |-> IF i \in all THEN "lost" ELSE task[i]]
      /\ queue' = IF last THEN <<>> ELSE queue
      /\ UNCHANGED <<active, call, item, left, mine, chunks>>
  BY DEF Leave, callVars, parallelVars
<1>1. \A j \in Ids : j \in Range(queue) <=> task[j] = "queued"
  <2>1. Range(queue) = { queue[n] : n \in 1..Len(queue) }
    BY DEF IInv, TypeOK, Range
  <2> QED BY <2>1 DEF IInv, QueueHolds
<1>2. \A j \in Ids : j \in all => task[j] \in {"queued", "running"}
  BY <1>1
<1> HIDE DEF last, all
<1>3. \A j \in Ids : task'[j] = IF j \in all THEN "lost" ELSE task[j]
  BY <1>0
<1>4. TypeOK'
  <2>1. task' \in [Ids -> Places]
    BY <1>0 DEF IInv, TypeOK, Places
  <2>2. queue' \in Seq(Ids)
    BY <1>0 DEF IInv, TypeOK
  <2>3. /\ at' \in [Workers -> {"top", "poll", "busy", "gone"}]
        /\ hand' \in [Workers -> 0..MaxTasks]
        /\ \A v \in Workers : at'[v] = "busy" => hand'[v] \in Ids
    BY <1>0, SizesAssumption DEF IInv, TypeOK
  <2> QED BY <1>0, <2>1, <2>2, <2>3 DEF IInv, TypeOK
<1>5. OneSender' /\ ChunksKnown'
  <2>1. \A j \in Ids : /\ task'[j] = "sending" <=> task[j] = "sending"
                       /\ task'[j] = "none" <=> task[j] = "none"
    BY <1>2, <1>3
  <2>2. chunks \in SUBSET Ids /\ mine \in [Clients -> SUBSET Ids]
    BY DEF IInv, TypeOK
  <2>3. OneSender'
    BY <1>0, <2>1 DEF IInv, OneSender
  <2>4. ChunksKnown'
    BY <1>0, <2>1, <2>2 DEF IInv, ChunksKnown
  <2> QED BY <2>3, <2>4
<1>6. QueueHolds'
  <2>1. CASE last
    <3>1. \A j \in Ids : task'[j] # "queued"
      BY <1>1, <1>3, <2>1 DEF all
    <3>2. queue' = <<>> /\ Len(queue') = 0
      BY <1>0, <2>1
    <3> QED BY <3>1, <3>2 DEF QueueHolds
  <2>2. CASE ~last
    <3>1. \A j \in Ids : j \in all => task[j] = "running"
      BY <2>2 DEF all
    <3>2. \A j \in Ids : task'[j] = "queued" <=> task[j] = "queued"
      BY <1>3, <3>1
    <3> QED BY <1>0, <2>2, <3>2 DEF IInv, QueueHolds
  <2> QED BY <2>1, <2>2
<1>7. InHand'
  <2>1. SUFFICES ASSUME NEW j \in Ids, task'[j] = "running"
                 PROVE  \E v \in Workers : at'[v] = "busy" /\ hand'[v] = j
    BY DEF InHand
  <2>2. task[j] = "running" /\ j \notin lost
    BY <1>3, <2>1 DEF all
  <2>3. PICK v \in Workers : at[v] = "busy" /\ hand[v] = j
    BY <2>2 DEF IInv, InHand
  <2>4. v # w
    BY <2>2, <2>3
  <2> QED BY <1>0, <2>3, <2>4 DEF IInv, TypeOK
<1>8. NothingLeft'
  <2>1. ASSUME Disconnected' PROVE last
    BY <1>0, <2>1 DEF IInv, TypeOK, Disconnected, last
  <2> QED BY <1>0, <2>1 DEF NothingLeft
<1>9. ChunksInScope'
  BY <1>0, <1>3 DEF IInv, TypeOK, ChunksInScope
<1>10. ActiveAddsUp' /\ TalliesAddUp'
  <2>1. /\ { j \in Ids : task'[j] \in Outstanding } = { j \in Ids : task[j] \in Outstanding }
        /\ { j \in Ids : task'[j] \in Sent } = { j \in Ids : task[j] \in Sent }
        /\ { j \in Ids : task'[j] \in Told } = { j \in Ids : task[j] \in Told }
    BY <1>2, <1>3 DEF Outstanding, Sent, Told, Places
  <2>2. UNCHANGED <<TasksIn(Outstanding), TasksIn(Sent), TasksIn(Told), Tallying>>
    BY <1>0, <2>1 DEF TasksIn, Tallying
  <2> QED BY <1>0, <2>2 DEF IInv, ActiveAddsUp, TalliesAddUp
<1> QED BY <1>4, <1>5, <1>6, <1>7, <1>8, <1>9, <1>10 DEF IInv

\* A worker w goes on with its task i: from p to q, and w is at x with y then.
Goes(w, i, p, q, x, y) ==
    /\ w \in Workers /\ i \in Ids /\ at[w] = "busy" /\ hand[w] = i /\ task[i] = p
    /\ \/ p = "running" /\ q = "ran"
       \/ p = "ran" /\ q = "tallied"
       \/ p = "tallied" /\ q = "over"
    /\ x \in {"busy", "top"} /\ (x = "busy" => y = i) /\ (p = "running" => x = "busy") /\ y \in 0..MaxTasks
    /\ task' = [task EXCEPT ![i] = q]
    /\ at' \in [Workers -> {"top", "poll", "busy", "gone"}] /\ hand' \in [Workers -> 0..MaxTasks]
    /\ \A v \in Workers \ {w} : at'[v] = at[v] /\ hand'[v] = hand[v]
    /\ at'[w] = x /\ hand'[w] = y
    /\ active' = active + Gain(Outstanding, p, q)
    /\ completed' = completed + Gain(Told, p, q)
    /\ UNCHANGED <<queue, submitted, call, item, left, mine, chunks>>

LEMMA StepKeeps ==
    ASSUME IInv, NEW CONSTANT w, NEW CONSTANT i, NEW CONSTANT p, NEW CONSTANT q,
           NEW CONSTANT x, NEW CONSTANT y, Goes(w, i, p, q, x, y)
    PROVE  IInv'
<1> USE DEF Goes
<1> p \in Places /\ q \in Places
  BY DEF Places
<1>1. TypeOK'
  <2>1. task' \in [Ids -> Places]
    BY DEF IInv, TypeOK, Places
  <2>2. active' \in Int /\ completed' \in Nat
    BY DEF IInv, TypeOK, Gain, Told
  <2>3. /\ at' \in [Workers -> {"top", "poll", "busy", "gone"}]
        /\ hand' \in [Workers -> 0..MaxTasks]
        /\ \A v \in Workers : at'[v] = "busy" => hand'[v] \in Ids
    BY DEF IInv, TypeOK
  <2> QED BY <2>1, <2>2, <2>3 DEF IInv, TypeOK
<1>2. \A j \in Ids : task'[j] = IF j = i THEN q ELSE task[j]
  BY DEF IInv, TypeOK
<1>3. OneSender' /\ ChunksKnown' /\ ChunksInScope'
  BY <1>2 DEF IInv, TypeOK, OneSender, ChunksKnown, ChunksInScope
<1>4. QueueHolds'
  BY <1>2 DEF IInv, QueueHolds
<1>5. InHand'
  <2>1. SUFFICES ASSUME NEW j \in Ids, task'[j] = "running"
                 PROVE  \E v \in Workers : at'[v] = "busy" /\ hand'[v] = j
    BY DEF InHand
  <2>2. task[j] = "running" /\ j # i
    BY <1>2, <2>1
  <2>3. PICK v \in Workers : at[v] = "busy" /\ hand[v] = j
    BY <2>2 DEF IInv, InHand
  <2>4. v # w
    BY <2>2, <2>3
  <2> QED BY <2>3, <2>4
<1>6. NothingLeft'
  BY DEF IInv, TypeOK, NothingLeft, Disconnected
<1>7. ActiveAddsUp' /\ TalliesAddUp'
  <2>1. Gain(Sent, p, q) = 0
    BY DEF Gain, Sent, Places
  <2>2. Tallying' = Tallying
    BY DEF Tallying
  <2>3. Cardinality(Tallying) \in Nat /\ submitted \in Nat
    <3>1. IsFiniteSet(Threads)
      BY ThreadsAssumption, FS_Union DEF Threads
    <3> QED BY <3>1, FS_Subset, FS_CardinalityType DEF Tallying, IInv, TypeOK
  <2>4. (submitted + Cardinality(Tallying))' = submitted + Cardinality(Tallying) + Gain(Sent, p, q)
    BY <2>1, <2>2, <2>3
  <2>5. TypeOK /\ ActiveAddsUp /\ TalliesAddUp /\ q \in Places
    BY DEF IInv, Places
  <2> QED BY <2>4, <2>5, Recounted
<1> QED BY <1>1, <1>3, <1>4, <1>5, <1>6, <1>7 DEF IInv

LEMMA PollKeeps ==
    ASSUME IInv, NEW CONSTANT w \in Workers, Poll(w)
    PROVE  IInv'
<1>0. /\ at[w] = "poll"
      /\ UNCHANGED <<active, submitted, completed, call, item, left, mine, chunks>>
  BY DEF Poll, stats, callVars, parallelVars
<1>1. CASE queue = <<>>
  <2>1. at' = [at EXCEPT ![w] = "top"] /\ UNCHANGED <<task, queue, hand>>
    BY <1>1 DEF Poll
  <2>2. TypeOK' /\ OneSender' /\ QueueHolds' /\ InHand' /\ NothingLeft' /\ ChunksKnown' /\ ChunksInScope'
    BY <1>0, <1>1, <2>1 DEF IInv, TypeOK, OneSender, QueueHolds, InHand, NothingLeft, ChunksKnown, ChunksInScope
  <2>3. UNCHANGED <<TasksIn(Outstanding), TasksIn(Sent), TasksIn(Told), Tallying>>
    BY <1>0, <2>1 DEF TasksIn, Outstanding, Sent, Told, Places, Tallying
  <2> QED BY <1>0, <2>2, <2>3 DEF IInv, ActiveAddsUp, TalliesAddUp
<1>2. CASE queue # <<>>
  <2>1. PICK i \in Ids : i = Head(queue) /\ task[i] = "queued"
    <3>1. queue \in Seq(Ids) /\ 1 \in 1..Len(queue) /\ Head(queue) = queue[1] /\ queue[1] \in Ids
      BY <1>2 DEF IInv, TypeOK
    <3> QED BY <3>1 DEF IInv, QueueHolds
  <2>2. /\ at' = [at EXCEPT ![w] = "busy"]
        /\ hand' = [hand EXCEPT ![w] = i]
        /\ queue' = Tail(queue)
        /\ task' = [task EXCEPT ![i] = "running"]
    BY <1>2, <2>1 DEF Poll
  <2>3. \A j \in Ids : task'[j] = IF j = i THEN "running" ELSE task[j]
    BY <2>2 DEF IInv, TypeOK
  <2>4. TypeOK'
    <3>1. task' \in [Ids -> Places] /\ queue' \in Seq(Ids)
      BY <1>2, <2>2 DEF IInv, TypeOK, Places
    <3>2. /\ at' \in [Workers -> {"top", "poll", "busy", "gone"}]
          /\ hand' \in [Workers -> 0..MaxTasks]
          /\ \A v \in Workers : at'[v] = "busy" => hand'[v] \in Ids
      BY <2>2, SizesAssumption DEF IInv, TypeOK, Ids
    <3> QED BY <1>0, <3>1, <3>2 DEF IInv, TypeOK
  <2>5. OneSender' /\ ChunksKnown' /\ ChunksInScope'
    <3>1. \A j \in Ids : /\ task'[j] = "sending" <=> task[j] = "sending"
                         /\ task'[j] = "none" <=> task[j] = "none"
                         /\ task'[j] \in {"queued", "running"} <=> task[j] \in {"queued", "running"}
      BY <2>1, <2>3
    <3>2. chunks \in SUBSET Ids /\ mine \in [Clients -> SUBSET Ids]
      BY DEF IInv, TypeOK
    <3>3. OneSender'
      BY <1>0, <3>1 DEF IInv, OneSender
    <3>4. ChunksKnown'
      BY <1>0, <3>1, <3>2 DEF IInv, ChunksKnown
    <3>5. ChunksInScope'
      BY <1>0, <3>1, <3>2 DEF IInv, ChunksInScope
    <3> QED BY <3>3, <3>4, <3>5
  <2>6. QueueHolds'
    <3>1. /\ queue \in Seq(Ids) /\ Len(queue) \in Nat \ {0} /\ Len(queue') = Len(queue) - 1
          /\ \A n \in 1..Len(queue') : queue'[n] = queue[n + 1] /\ n + 1 \in 1..Len(queue)
          /\ i = queue[1]
      BY <1>2, <2>1, <2>2 DEF IInv, TypeOK
    <3>2. ASSUME NEW m \in 1..Len(queue'), NEW n \in 1..Len(queue'), queue'[m] = queue'[n]
          PROVE  m = n
      <4>1. m + 1 \in 1..Len(queue) /\ n + 1 \in 1..Len(queue) /\ queue[m + 1] = queue[n + 1]
        BY <3>1, <3>2
      <4>2. m + 1 = n + 1
        BY <4>1 DEF IInv, QueueHolds
      <4> QED BY <4>2
    <3>3. ASSUME NEW n \in 1..Len(queue') PROVE queue'[n] # i
      <4>1. n + 1 \in 1..Len(queue) /\ queue'[n] = queue[n + 1] /\ n + 1 # 1 /\ 1 \in 1..Len(queue)
        BY <3>1
      <4> QED BY <3>1, <4>1 DEF IInv, QueueHolds
    <3>4. ASSUME NEW j \in Ids, j # i
          PROVE  task[j] = "queued" <=> \E n \in 1..Len(queue') : queue'[n] = j
      <4>1. ASSUME NEW m \in 1..Len(queue), queue[m] = j
            PROVE  m - 1 \in 1..Len(queue') /\ queue'[m - 1] = j
        BY <3>1, <3>4, <4>1
      <4> QED BY <3>1, <4>1 DEF IInv, QueueHolds
    <3> QED BY <2>3, <3>2, <3>3, <3>4 DEF QueueHolds
  <2>7. InHand'
    BY <1>0, <2>2, <2>3 DEF IInv, TypeOK, InHand
  <2>8. NothingLeft'
    BY <2>2 DEF IInv, TypeOK, NothingLeft, Disconnected
  <2>9. ActiveAddsUp' /\ TalliesAddUp'
    <3>1. /\ Gain(Outstanding, "queued", "running") = 0
          /\ Gain(Sent, "queued", "running") = 0
          /\ Gain(Told, "queued", "running") = 0
      BY DEF Gain, Outstanding, Sent, Told, Places
    <3>2. Tallying' = Tallying
      BY <1>0 DEF Tallying
    <3>3. Cardinality(Tallying) \in Nat
      <4>1. IsFiniteSet(Threads)
        BY ThreadsAssumption, FS_Union DEF Threads
      <4> QED BY <4>1, FS_Subset, FS_CardinalityType DEF Tallying
    <3>4. /\ "queued" \in Places /\ "running" \in Places
          /\ completed \in Nat /\ submitted \in Nat /\ active \in Int
      BY DEF IInv, TypeOK, Places
    <3>5. /\ active' = active + Gain(Outstanding, "queued", "running")
          /\ completed' = completed + Gain(Told, "queued", "running")
          /\ (submitted + Cardinality(Tallying))' =
               submitted + Cardinality(Tallying) + Gain(Sent, "queued", "running")
      BY <1>0, <3>1, <3>2, <3>3, <3>4
    <3>6. TypeOK /\ ActiveAddsUp /\ TalliesAddUp
      BY DEF IInv
    <3>7. task[i] = "queued" /\ task' = [task EXCEPT ![i] = "running"]
      BY <2>1, <2>2
    <3> QED BY <3>4, <3>5, <3>6, <3>7, Recounted
  <2> QED BY <2>4, <2>5, <2>6, <2>7, <2>8, <2>9 DEF IInv
<1> QED BY <1>1, <1>2

LEMMA WorkKeeps ==
    ASSUME IInv, NEW CONSTANT w \in Workers, Work(w)
    PROVE  IInv'
<1>1. CASE Check(w)
  <2>1. CASE shutdown
    <3>1. at[w] # "busy" /\ Leave(w, {}) /\ {} \in SUBSET Ids
      BY <1>1, <2>1 DEF Check
    <3>2. UNCHANGED <<submitted, completed>>
      BY <3>1 DEF Leave, stats
    <3> QED BY <3>1, <3>2, LeaveKeeps
  <2>2. CASE ~shutdown
    <3>1. /\ at[w] = "top" /\ at' = [at EXCEPT ![w] = "poll"]
          /\ UNCHANGED <<task, queue, active, submitted, completed, hand, call, item, left, mine, chunks>>
      BY <1>1, <2>2 DEF Check, taskVars, stats, callVars, parallelVars
    <3>2. TypeOK' /\ OneSender' /\ QueueHolds' /\ InHand' /\ ChunksKnown' /\ ChunksInScope'
      BY <3>1 DEF IInv, TypeOK, OneSender, QueueHolds, InHand, ChunksKnown, ChunksInScope
    <3>3. NothingLeft'
      BY <3>1 DEF IInv, TypeOK, NothingLeft, Disconnected
    <3>4. UNCHANGED <<TasksIn(Outstanding), TasksIn(Sent), TasksIn(Told), Tallying>>
      BY <3>1 DEF TasksIn, Outstanding, Sent, Told, Places, Tallying
    <3> QED BY <3>1, <3>2, <3>3, <3>4 DEF IInv, ActiveAddsUp, TalliesAddUp
  <2> QED BY <2>1, <2>2
<1>2. CASE Poll(w)
  BY <1>2, PollKeeps
<1>3. CASE Panic(w)
  <2>1. at[w] = "busy" /\ task[hand[w]] = "running" /\ Leave(w, {hand[w]})
    BY <1>3 DEF Panic, Busy
  <2>2. {hand[w]} \in SUBSET Ids
    BY <2>1 DEF IInv, TypeOK
  <2>3. UNCHANGED <<submitted, completed>>
    BY <2>1 DEF Leave, stats
  <2> QED BY <2>1, <2>2, <2>3, LeaveKeeps
<1>4. CASE Run(w) \/ Complete(w) \/ Finish(w)
  <2>1. PICK i \in Ids : at[w] = "busy" /\ hand[w] = i
    BY <1>4 DEF Run, Complete, Finish, Busy, IInv, TypeOK
  <2>2. /\ Gain(Outstanding, "running", "ran") = 0 /\ Gain(Told, "running", "ran") = 0
        /\ Gain(Outstanding, "ran", "tallied") = 0 /\ Gain(Told, "ran", "tallied") = 1
        /\ Gain(Outstanding, "tallied", "over") = -1 /\ Gain(Told, "tallied", "over") = 0
        /\ active \in Int /\ completed \in Nat
        /\ 0 \in 0..MaxTasks /\ i \in 0..MaxTasks
    BY SizesAssumption DEF Gain, Outstanding, Told, Places, IInv, TypeOK, Ids
  <2>3. CASE Run(w)
    <3>1. /\ task[i] = "running" /\ task' = [task EXCEPT ![i] = "ran"]
          /\ UNCHANGED <<queue, active, submitted, completed, at, hand, call, item, left, mine, chunks>>
      BY <2>1, <2>3 DEF Run, Busy, stats, workerVars, callVars, parallelVars
    <3>2. at \in [Workers -> {"top", "poll", "busy", "gone"}] /\ hand \in [Workers -> 0..MaxTasks]
      BY DEF IInv, TypeOK
    <3>3. Goes(w, i, "running", "ran", "busy", i)
      BY <2>1, <2>2, <3>1, <3>2 DEF Goes
    <3> QED BY <3>3, StepKeeps
  <2>4. CASE Complete(w)
    <3>1. /\ task[i] = "ran" /\ task' = [task EXCEPT ![i] = "tallied"] /\ completed' = completed + 1
          /\ UNCHANGED <<queue, active, submitted, at, hand, call, item, left, mine, chunks>>
      BY <2>1, <2>4 DEF Complete, Busy, workerVars, callVars, parallelVars
    <3>2. at \in [Workers -> {"top", "poll", "busy", "gone"}] /\ hand \in [Workers -> 0..MaxTasks]
      BY DEF IInv, TypeOK
    <3>3. Goes(w, i, "ran", "tallied", "busy", i)
      BY <2>1, <2>2, <3>1, <3>2 DEF Goes
    <3> QED BY <3>3, StepKeeps
  <2>5. CASE Finish(w)
    <3>1. /\ task[i] = "tallied" /\ task' = [task EXCEPT ![i] = "over"] /\ active' = active - 1
          /\ at' = [at EXCEPT ![w] = "top"] /\ hand' = [hand EXCEPT ![w] = 0]
          /\ UNCHANGED <<queue, submitted, completed, call, item, left, mine, chunks>>
      BY <2>1, <2>5 DEF Finish, Busy, stats, callVars, parallelVars
    <3>2. Goes(w, i, "tallied", "over", "top", 0)
      BY <2>1, <2>2, <3>1 DEF Goes, IInv, TypeOK
    <3> QED BY <3>2, StepKeeps
  <2> QED BY <1>4, <2>3, <2>4, <2>5
<1> QED BY <1>1, <1>2, <1>3, <1>4 DEF Work

-----------------------------------------------------------------------------
LEMMA StepHolds ==
    ASSUME IInv, [Next]_vars
    PROVE  IInv'
<1>1. CASE UNCHANGED vars
  <2>1. UNCHANGED <<taskVars, submitted, completed, workerVars, call, item, left, mine, chunks>>
    BY <1>1 DEF vars, stats, callVars, parallelVars
  <2>2. call' \in [Threads -> {"none", "send", "tally", "wait"}] /\ left' \in [Clients -> Int]
    BY <2>1 DEF IInv, TypeOK
  <2> QED BY <2>1, <2>2, Untouched
<1>2. ASSUME NEW CONSTANT a \in Threads, Submit(a)
      PROVE  IInv'
  <2>1. PICK i \in Ids : Count(a, i)
    BY <1>2 DEF Submit
  <2>2. call[a] = "none" /\ UNCHANGED <<left, mine, chunks>>
    BY <1>2 DEF Submit, MaySubmit, parallelVars
  <2>3. left' \in [Clients -> Int] /\ mine' \in [Clients -> SUBSET Ids]
    BY <2>2 DEF IInv, TypeOK
  <2> QED BY <2>1, <2>2, <2>3, CountKeeps
<1>3. ASSUME NEW CONSTANT a \in Threads, Proceed(a)
      PROVE  IInv'
  BY <1>3, SendKeeps, SendFailsKeeps, TallyKeeps DEF Proceed
<1>4. ASSUME NEW CONSTANT c \in Clients, WaitIdle(c) \/ SeesIdle(c) \/ Parallel(c)
      PROVE  IInv'
  <2>1. UNCHANGED <<taskVars, submitted, completed, workerVars, item, chunks, mine>>
    BY <1>4 DEF WaitIdle, SeesIdle, Parallel, stats, callVars, parallelVars
  <2>2. /\ call' \in [Threads -> {"none", "send", "tally", "wait"}]
        /\ \A a \in Threads : call[a] \in {"send", "tally"} \/ call'[a] \in {"send", "tally"}
                               => call'[a] = call[a]
    BY <1>4 DEF WaitIdle, SeesIdle, Parallel, callVars, IInv, TypeOK, Threads
  <2>3. left' \in [Clients -> Int]
    BY <1>4, SizesAssumption DEF WaitIdle, SeesIdle, Parallel, parallelVars, IInv, TypeOK
  <2> QED BY <2>1, <2>2, <2>3, Untouched
<1>5. ASSUME NEW CONSTANT c \in Clients, SubmitChunk(c)
      PROVE  IInv'
  <2>1. PICK i \in Ids : /\ Count(c, i)
                         /\ left' = [left EXCEPT ![c] = @ - 1]
                         /\ mine' = [mine EXCEPT ![c] = @ \cup {i}]
                         /\ chunks' = chunks \cup {i}
    BY <1>5 DEF SubmitChunk
  <2>2. call[c] = "none" /\ c \in Threads
    BY <1>5 DEF SubmitChunk, Threads
  <2>3. left' \in [Clients -> Int] /\ mine' \in [Clients -> SUBSET Ids] /\ i \in mine'[c]
    BY <2>1 DEF IInv, TypeOK
  <2>4. \A d \in Clients : mine'[d] = mine[d] \/ (d = c /\ mine'[d] = mine[d] \cup {i})
    BY <2>1 DEF IInv, TypeOK
  <2> QED BY <2>1, <2>2, <2>3, <2>4, CountKeeps
<1>6. CASE Shutdown
  <2>1. UNCHANGED <<taskVars, submitted, completed, workerVars, call, item, left, mine, chunks>>
    BY <1>6 DEF Shutdown, stats, callVars, parallelVars
  <2>2. call' \in [Threads -> {"none", "send", "tally", "wait"}] /\ left' \in [Clients -> Int]
    BY <2>1 DEF IInv, TypeOK
  <2> QED BY <2>1, <2>2, Untouched
<1> QED BY <1>1, <1>2, <1>3, <1>4, <1>5, <1>6, CollectKeeps, WorkKeeps DEF Next, Return

\* No interleaving of submitters, workers, panics and shutdown leaves the
\* invariant.
THEOREM Invariance == Spec => []IInv
<1>1. Init => IInv
  BY InitHolds
<1>2. IInv /\ [Next]_vars => IInv'
  BY StepHolds
<1> QED BY <1>1, <1>2, PTL DEF Spec

\* active_tasks never goes below zero and never forgets a task: it is the tasks
\* submitted and not through, and those that panicked or were discarded.
THEOREM ActiveIsOutstanding == Spec => []ActiveAddsUp
<1>1. IInv => ActiveAddsUp
  BY DEF IInv
<1> QED BY <1>1, Invariance, PTL

\* A parallel call never returns, not even with an error, while a chunk that
\* reads the caller's slice can still run.
THEOREM ChunksStayInScope == Spec => []ChunksInScope
<1>1. IInv => ChunksInScope
  BY DEF IInv
<1> QED BY <1>1, Invariance, PTL

\* When wait_idle can return, every task submitted is through or refused, and
\* the statistics count exactly those that ran.
THEOREM IdleIsDone == Spec => []IdleMeansDone
<1>1. IInv => IdleMeansDone
  <2>1. SUFFICES ASSUME IInv, active = 0 PROVE IdleMeansDone!2
    BY DEF IdleMeansDone
  <2>2. TasksIn(Outstanding) = {}
    <3>1. IsFiniteSet(Ids)
      BY SizesAssumption, FS_Interval DEF Ids
    <3>2. IsFiniteSet(TasksIn(Outstanding))
      BY <3>1, FS_Subset DEF TasksIn
    <3>3. Cardinality(TasksIn(Outstanding)) = 0
      BY <2>1 DEF IInv, ActiveAddsUp
    <3> QED BY <3>2, <3>3, FS_EmptySet
  <2>3. \A i \in Ids : task[i] \in {"none", "over", "refused"}
    BY <2>1, <2>2 DEF IInv, TypeOK, TasksIn, Outstanding, Places
  <2>4. TasksIn({"none", "over", "refused"}) = Ids
    BY <2>3 DEF TasksIn
  <2>5. TasksIn(Told) = TasksIn({"over"}) /\ TasksIn(Sent) = TasksIn({"over"})
    BY <2>3 DEF TasksIn, Told, Sent, Places
  <2>6. completed = Cardinality(TasksIn({"over"}))
    BY <2>1, <2>5 DEF IInv, TalliesAddUp
  <2>7. ASSUME \A a \in Threads : call[a] # "tally" PROVE submitted = completed
    <3>1. Cardinality(Tallying) = 0
      BY <2>7, FS_EmptySet DEF Tallying
    <3>2. submitted + Cardinality(Tallying) = completed
      BY <2>1, <2>5, <2>6 DEF IInv, TalliesAddUp
    <3> QED BY <2>1, <3>1, <3>2 DEF IInv, TypeOK
  <2> QED BY <2>4, <2>6, <2>7
<1> QED BY <1>1, Invariance, PTL

-----------------------------------------------------------------------------
\* Nobody waits in vain: the argument behind CallsReturn, for any threads and
\* capacity.  Whoever could make it go on is known by what Hands adds to IInv.
Senders == \A i \in Ids : task[i] = "sending" => \E a \in Threads : call[a] = "send" /\ item[a] = i

InWork == {"running", "ran", "tallied"}

\* Tasks that were taken and busy workers are one to one.
Holders ==
    /\ \A i \in Ids : task[i] \in InWork => \E w \in Workers : at[w] = "busy" /\ hand[w] = i
    /\ \A w \in Workers : at[w] = "busy" => task[hand[w]] \in InWork
    /\ \A v, w \in Workers : at[v] = "busy" /\ at[w] = "busy" /\ hand[v] = hand[w] => v = w

NoWorkerWaits == \A w \in Workers : call[w] # "wait"
QueueBounded == Len(queue) <= Capacity
NoneRefused == \A c \in Clients : \A i \in mine[c] : task[i] # "refused"

Hands == Senders /\ Holders /\ NoWorkerWaits /\ QueueBounded /\ NoneRefused

\* Some worker or some submitter can take a step.
AtWork ==
    \/ \E w \in Workers :
        \/ at[w] \in {"top", "poll"} /\ queue # <<>>
        \/ Busy(w, "running") \/ Busy(w, "ran") \/ Busy(w, "tallied")
    \/ \E a \in Threads :
        \/ call[a] = "tally"
        \/ call[a] = "send" /\ (Disconnected \/ Len(queue) < Capacity)

\* A client inside submit, wait_idle or a parallel call that cannot go on.
Waits(c) ==
    \/ call[c] = "send"
    \/ call[c] = "wait" /\ active # 0
    \/ call[c] = "none" /\ InParallel(c) /\ left[c] = 0 /\ ~Collected(c)

NobodyWaitsInVain ==
    \A c \in Clients : Waits(c) => AtWork \/ Jammed \/ TasksIn({"lost"}) # {}

LEMMA InitHands == Init => Hands
  BY SizesAssumption
     DEF Init, Hands, Senders, Holders, NoWorkerWaits, QueueBounded, NoneRefused, InWork, Threads

\* Steps that move no task and no worker, and start or end no sending.
LEMMA HandsUntouched ==
    ASSUME IInv, Hands, UNCHANGED <<task, queue, at, hand, item>>,
           \A a \in Threads : call[a] = "send" => call'[a] = "send",
           \A w \in Workers : call'[w] # "wait",
           \A c \in Clients : mine'[c] \subseteq mine[c]
    PROVE  Hands'
<1>1. Senders' /\ Holders'
  BY DEF Hands, Senders, Holders
<1>2. NoWorkerWaits' /\ QueueBounded' /\ NoneRefused'
  BY DEF Hands, NoWorkerWaits, QueueBounded, NoneRefused
<1> QED BY <1>1, <1>2 DEF Hands

LEMMA CountKeepsHands ==
    ASSUME IInv, Hands, NEW CONSTANT a \in Threads, NEW CONSTANT i \in Ids, call[a] = "none", Count(a, i),
           \A c \in Clients : mine'[c] \subseteq mine[c] \cup {i}
    PROVE  Hands'
<1>1. /\ \A j \in Ids : task'[j] = IF j = i THEN "sending" ELSE task[j]
      /\ task[i] = "none"
      /\ \A b \in Threads : call'[b] = IF b = a THEN "send" ELSE call[b]
      /\ \A b \in Threads : item'[b] = IF b = a THEN i ELSE item[b]
      /\ UNCHANGED <<queue, at, hand>>
  BY DEF Count, Fresh, workerVars, IInv, TypeOK
<1>2. Senders'
  BY <1>1 DEF Hands, Senders
<1>3. Holders'
  <2>1. \A w \in Workers : at[w] = "busy" => hand[w] \in Ids
    BY DEF IInv, TypeOK
  <2> QED BY <1>1, <2>1 DEF Hands, Holders, InWork
<1>4. NoWorkerWaits' /\ QueueBounded'
  BY <1>1 DEF Hands, NoWorkerWaits, QueueBounded, Threads
<1>5. NoneRefused'
  BY <1>1 DEF Hands, NoneRefused, IInv, TypeOK
<1> QED BY <1>2, <1>3, <1>4, <1>5 DEF Hands

LEMMA SendKeepsHands ==
    ASSUME IInv, Hands, NEW CONSTANT a \in Threads, Send(a) \/ SendFails(a)
    PROVE  Hands'
<1>1. PICK i \in Ids : i = item[a] /\ task[i] = "sending"
  BY DEF Send, SendFails, IInv, OneSender
<1>2. PICK p \in {"queued", "refused"} :
      /\ \A j \in Ids : task'[j] = IF j = i THEN p ELSE task[j]
      /\ p = "refused" /\ a \in Clients => mine'[a] = {}
  BY <1>1 DEF Send, SendFails, IInv, TypeOK
<1>3. /\ call[a] = "send"
      /\ \A b \in Threads \ {a} : call'[b] = call[b] /\ item'[b] = item[b]
      /\ call'[a] # "wait"
      /\ UNCHANGED <<at, hand>>
      /\ \A c \in Clients : mine'[c] \subseteq mine[c]
  BY DEF Send, SendFails, workerVars, parallelVars, IInv, TypeOK
<1>4. Senders'
  BY <1>1, <1>2, <1>3 DEF Hands, Senders
<1>5. Holders'
  <2>1. \A w \in Workers : at[w] = "busy" => hand[w] \in Ids
    BY DEF IInv, TypeOK
  <2> QED BY <1>1, <1>2, <1>3, <2>1 DEF Hands, Holders, InWork
<1>6. NoWorkerWaits'
  BY <1>3 DEF Hands, NoWorkerWaits, Threads
<1>7. QueueBounded'
  BY SizesAssumption DEF Send, SendFails, Hands, QueueBounded, IInv, TypeOK
<1>8. NoneRefused'
  <2>1. SUFFICES ASSUME NEW c \in Clients, NEW j \in mine'[c] PROVE task'[j] # "refused"
    BY DEF NoneRefused
  <2>2. j \in mine[c] /\ j \in Ids /\ c \in Threads
    BY <1>3 DEF IInv, TypeOK, Threads
  <2>3. CASE j = i
    <3>1. call[c] = "send" /\ item[c] = i
      BY <1>1, <2>2, <2>3 DEF IInv, ChunksKnown
    <3>2. c = a
      BY <1>1, <1>3, <2>2, <3>1 DEF IInv, OneSender
    <3> QED BY <1>2, <2>3, <3>2
  <2> QED BY <1>2, <2>2, <2>3 DEF Hands, NoneRefused
<1> QED BY <1>4, <1>5, <1>6, <1>7, <1>8 DEF Hands

\* One step of a worker at its task: it takes it, moves it or lets go of it.
LEMMA PollKeepsHands ==
    ASSUME IInv, Hands, NEW CONSTANT w \in Workers, Poll(w)
    PROVE  Hands'
<1>0. at[w] = "poll" /\ UNCHANGED <<call, item, mine>>
  BY DEF Poll, callVars, parallelVars
<1>1. CASE queue = <<>>
  <2>1. UNCHANGED <<task, queue, hand>> /\ \A v \in Workers : at'[v] = "busy" <=> at[v] = "busy"
    BY <1>0, <1>1 DEF Poll, IInv, TypeOK
  <2> QED BY <1>0, <2>1
             DEF Hands, Senders, Holders, NoWorkerWaits, QueueBounded, NoneRefused
<1>2. CASE queue # <<>>
  <2>1. PICK i \in Ids : i = Head(queue) /\ task[i] = "queued"
    <3>1. queue \in Seq(Ids) /\ 1 \in 1..Len(queue) /\ Head(queue) = queue[1] /\ queue[1] \in Ids
      BY <1>2 DEF IInv, TypeOK
    <3> QED BY <3>1 DEF IInv, QueueHolds
  <2>2. /\ \A v \in Workers : at'[v] = IF v = w THEN "busy" ELSE at[v]
        /\ \A v \in Workers : hand'[v] = IF v = w THEN i ELSE hand[v]
        /\ \A j \in Ids : task'[j] = IF j = i THEN "running" ELSE task[j]
        /\ Len(queue') <= Len(queue) /\ Len(queue') \in Nat /\ Len(queue) \in Nat
    BY <1>2, <2>1 DEF Poll, IInv, TypeOK
  <2>3. Senders'
    BY <1>0, <2>1, <2>2 DEF Hands, Senders
  <2>4. Holders'
    <3>1. \A v \in Workers : at[v] = "busy" => hand[v] \in Ids /\ hand[v] # i
      BY <2>1 DEF IInv, TypeOK, Hands, Holders, InWork
    <3> QED BY <1>0, <2>1, <2>2, <3>1 DEF Hands, Holders, InWork
  <2>5. NoWorkerWaits' /\ QueueBounded'
    BY <1>0, <2>2, SizesAssumption DEF Hands, NoWorkerWaits, QueueBounded
  <2>6. NoneRefused'
    BY <1>0, <2>2 DEF Hands, NoneRefused, IInv, TypeOK
  <2> QED BY <2>3, <2>4, <2>5, <2>6 DEF Hands
<1> QED BY <1>1, <1>2

LEMMA AdvanceKeepsHands ==
    ASSUME IInv, Hands, NEW CONSTANT w \in Workers, Run(w) \/ Complete(w) \/ Finish(w)
    PROVE  Hands'
<1>1. PICK i \in Ids : at[w] = "busy" /\ hand[w] = i /\ task[i] \in InWork
  BY DEF Run, Complete, Finish, Busy, IInv, TypeOK, InWork
<1>2. PICK p \in {"ran", "tallied", "over"} :
      /\ \A j \in Ids : task'[j] = IF j = i THEN p ELSE task[j]
      /\ IF p = "over" THEN at'[w] # "busy" ELSE at'[w] = "busy" /\ hand'[w] = i
  BY <1>1 DEF Run, Complete, Finish, workerVars, IInv, TypeOK
<1>3. /\ \A v \in Workers \ {w} : at'[v] = at[v] /\ hand'[v] = hand[v]
      /\ UNCHANGED <<queue, call, item, mine>>
  BY DEF Run, Complete, Finish, workerVars, callVars, parallelVars, IInv, TypeOK
<1>4. Senders'
  BY <1>1, <1>2, <1>3 DEF Hands, Senders, InWork
<1>5. Holders'
  <2>1. \A v \in Workers \ {w} : at[v] = "busy" => hand[v] \in Ids /\ hand[v] # i
    BY <1>1 DEF IInv, TypeOK, Hands, Holders
  <2>2. ASSUME NEW j \in Ids, task'[j] \in InWork
        PROVE  \E v \in Workers : at'[v] = "busy" /\ hand'[v] = j
    <3>1. CASE j = i
      BY <1>2, <2>2, <3>1 DEF InWork
    <3>2. CASE j # i
      <4>1. PICK v \in Workers : at[v] = "busy" /\ hand[v] = j
        BY <1>2, <2>2, <3>2 DEF Hands, Holders
      <4> QED BY <1>1, <1>3, <3>2, <4>1
    <3> QED BY <3>1, <3>2
  <2>3. \A v \in Workers : at'[v] = "busy" => task'[hand'[v]] \in InWork
    BY <1>1, <1>2, <1>3, <2>1 DEF Hands, Holders, InWork
  <2>4. \A u, v \in Workers : at'[u] = "busy" /\ at'[v] = "busy" /\ hand'[u] = hand'[v] => u = v
    BY <1>1, <1>2, <1>3, <2>1 DEF Hands, Holders
  <2> QED BY <2>2, <2>3, <2>4 DEF Holders
<1>6. NoWorkerWaits' /\ QueueBounded'
  BY <1>3 DEF Hands, NoWorkerWaits, QueueBounded
<1>7. NoneRefused'
  BY <1>2, <1>3 DEF Hands, NoneRefused, IInv, TypeOK
<1> QED BY <1>4, <1>5, <1>6, <1>7 DEF Hands

LEMMA LeaveKeepsHands ==
    ASSUME IInv, Hands, NEW CONSTANT w \in Workers, NEW CONSTANT lost \in SUBSET Ids, Leave(w, lost),
           \/ at[w] # "busy" /\ lost = {}
           \/ at[w] = "busy" /\ lost = {hand[w]}
    PROVE  Hands'
<1>1. /\ \A v \in Workers : at'[v] = IF v = w THEN "gone" ELSE at[v]
      /\ \A v \in Workers \ {w} : hand'[v] = hand[v]
      /\ UNCHANGED <<call, item, mine>>
  BY DEF Leave, callVars, parallelVars, IInv, TypeOK
<1>2. /\ \A j \in Ids : task'[j] = "lost" \/ task'[j] = task[j]
      /\ \A j \in lost : task'[j] = "lost"
      /\ \A j \in Ids \ lost : task[j] # "queued" => task'[j] = task[j]
      /\ queue' = queue \/ queue' = <<>>
  <2>1. Range(queue) = { queue[n] : n \in 1..Len(queue) }
    <3>1. queue \in Seq(Ids)
      BY DEF IInv, TypeOK
    <3>2. DOMAIN queue = 1..Len(queue)
      BY <3>1
    <3> QED BY <3>2 DEF Range
  <2>2. \A j \in Ids : task[j] # "queued" => j \notin Range(queue)
    BY <2>1 DEF IInv, QueueHolds
  <2> QED BY <2>2 DEF Leave
<1>3. \A j \in lost : task[j] \in InWork
  BY DEF Hands, Holders
<1>4. Senders'
  <2>1. ASSUME NEW j \in Ids, task'[j] = "sending" PROVE task[j] = "sending"
    BY <1>2, <2>1
  <2> QED BY <1>1, <2>1 DEF Hands, Senders
<1>5. Holders'
  <2>1. \A v \in Workers \ {w} : at[v] = "busy" => hand[v] \in Ids \ lost
    BY DEF IInv, TypeOK, Hands, Holders
  <2>2. ASSUME NEW j \in Ids, task'[j] \in InWork
        PROVE  \E v \in Workers : at'[v] = "busy" /\ hand'[v] = j
    <3>1. task[j] \in InWork /\ j \notin lost
      BY <1>2, <2>2 DEF InWork
    <3>2. PICK v \in Workers : at[v] = "busy" /\ hand[v] = j
      BY <3>1 DEF Hands, Holders
    <3> QED BY <1>1, <3>1, <3>2
  <2>3. ASSUME NEW v \in Workers, at'[v] = "busy" PROVE task'[hand'[v]] \in InWork
    <3>1. v # w /\ at[v] = "busy" /\ hand'[v] = hand[v]
      BY <1>1, <2>3
    <3>2. task[hand[v]] \in InWork /\ hand[v] \in Ids \ lost
      BY <2>1, <3>1 DEF Hands, Holders
    <3>3. task[hand[v]] # "queued"
      BY <3>2 DEF InWork
    <3> QED BY <1>2, <3>1, <3>2, <3>3
  <2>4. \A u, v \in Workers : at'[u] = "busy" /\ at'[v] = "busy" /\ hand'[u] = hand'[v] => u = v
    BY <1>1 DEF Hands, Holders
  <2> QED BY <2>2, <2>3, <2>4 DEF Holders
<1>6. NoWorkerWaits' /\ QueueBounded'
  BY <1>1, <1>2, SizesAssumption DEF Hands, NoWorkerWaits, QueueBounded
<1>7. NoneRefused'
  BY <1>1, <1>2 DEF Hands, NoneRefused, IInv, TypeOK
<1> QED BY <1>4, <1>5, <1>6, <1>7 DEF Hands

LEMMA StepKeepsHands ==
    ASSUME IInv, Hands, [Next]_vars
    PROVE  Hands'
<1>1. ASSUME NEW CONSTANT a \in Threads, Submit(a)
      PROVE  Hands'
  <2>1. PICK i \in Ids : Count(a, i)
    BY <1>1 DEF Submit
  <2>2. call[a] = "none" /\ \A c \in Clients : mine'[c] \subseteq mine[c] \cup {i}
    BY <1>1 DEF Submit, MaySubmit, parallelVars
  <2> QED BY <2>1, <2>2, CountKeepsHands
<1>2. ASSUME NEW CONSTANT c \in Clients, SubmitChunk(c)
      PROVE  Hands'
  <2>1. PICK i \in Ids : Count(c, i) /\ mine' = [mine EXCEPT ![c] = @ \cup {i}]
    BY <1>2 DEF SubmitChunk
  <2>2. /\ call[c] = "none" /\ c \in Threads
        /\ \A d \in Clients : mine'[d] \subseteq mine[d] \cup {i}
    BY <1>2, <2>1 DEF SubmitChunk, Threads, IInv, TypeOK
  <2> QED BY <2>1, <2>2, CountKeepsHands
<1>3. ASSUME NEW CONSTANT a \in Threads, Send(a) \/ SendFails(a)
      PROVE  Hands'
  BY <1>3, SendKeepsHands
<1>4. ASSUME NEW CONSTANT c \in Clients, WaitIdle(c) \/ SeesIdle(c) \/ Parallel(c) \/ Collect(c)
      PROVE  Hands'
  <2>1. UNCHANGED <<task, queue, at, hand, item>>
    BY <1>4 DEF WaitIdle, SeesIdle, Parallel, Collect, taskVars, workerVars, callVars
  <2>2. /\ \A a \in Threads : call[a] = "send" => call'[a] = "send"
        /\ \A w \in Workers : call'[w] # "wait"
    BY <1>4, ThreadsAssumption
       DEF WaitIdle, SeesIdle, Parallel, Collect, callVars, IInv, TypeOK, Threads, Hands, NoWorkerWaits
  <2>3. \A d \in Clients : mine'[d] \subseteq mine[d]
    BY <1>4 DEF WaitIdle, SeesIdle, Parallel, Collect, parallelVars, IInv, TypeOK
  <2> QED BY <2>1, <2>2, <2>3, HandsUntouched
<1>5. ASSUME NEW CONSTANT a \in Threads, Tally(a)
      PROVE  Hands'
  <2>1. /\ \A b \in Threads : call'[b] = IF b = a THEN "none" ELSE call[b]
        /\ \A b \in Threads \ {a} : item'[b] = item[b]
        /\ call[a] = "tally"
        /\ UNCHANGED <<task, queue, at, hand, mine>>
    BY <1>5 DEF Tally, taskVars, workerVars, parallelVars, IInv, TypeOK
  <2>2. Senders' /\ Holders'
    BY <2>1 DEF Hands, Senders, Holders
  <2>3. NoWorkerWaits' /\ QueueBounded' /\ NoneRefused'
    BY <2>1 DEF Hands, NoWorkerWaits, QueueBounded, NoneRefused, Threads
  <2> QED BY <2>2, <2>3 DEF Hands
<1>6. CASE Shutdown \/ UNCHANGED vars
  <2>1. UNCHANGED <<task, queue, at, hand, item, call, mine>>
    BY <1>6 DEF Shutdown, vars, taskVars, workerVars, callVars, parallelVars
  <2> QED BY <2>1, HandsUntouched DEF Hands, NoWorkerWaits
<1>7. ASSUME NEW CONSTANT w \in Workers, Work(w)
      PROVE  Hands'
  <2>1. CASE Check(w) /\ ~shutdown
    <3>1. /\ UNCHANGED <<task, queue, hand, call, item, mine>>
          /\ \A v \in Workers : at'[v] = "busy" <=> at[v] = "busy"
      BY <2>1 DEF Check, taskVars, callVars, parallelVars, IInv, TypeOK
    <3> QED BY <3>1 DEF Hands, Senders, Holders, NoWorkerWaits, QueueBounded, NoneRefused
  <2>2. CASE Check(w) /\ shutdown
    <3>1. at[w] # "busy" /\ Leave(w, {}) /\ {} \in SUBSET Ids
      BY <2>2 DEF Check
    <3> QED BY <3>1, LeaveKeepsHands
  <2>3. CASE Panic(w)
    <3>1. at[w] = "busy" /\ Leave(w, {hand[w]})
      BY <2>3 DEF Panic, Busy
    <3>2. {hand[w]} \in SUBSET Ids
      BY <3>1 DEF IInv, TypeOK
    <3>3. PICK lost \in SUBSET Ids : lost = {hand[w]}
      BY <3>2
    <3> QED BY <3>1, <3>3, LeaveKeepsHands
  <2> QED BY <1>7, <2>1, <2>2, <2>3, PollKeepsHands, AdvanceKeepsHands DEF Work
<1> QED BY <1>1, <1>2, <1>3, <1>4, <1>5, <1>6, <1>7 DEF Next, Proceed, Return

\* If nobody can take a step, whoever sends holds up all.
LEMMA StuckIsJammed ==
    ASSUME IInv, Hands, ~AtWork, NEW a \in Threads, call[a] = "send"
    PROVE  Jammed
<1>1. Len(queue) = Capacity
  <2>1. ~(Len(queue) < Capacity) /\ Len(queue) <= Capacity
    BY DEF AtWork, Hands, QueueBounded
  <2> QED BY <2>1, SizesAssumption DEF IInv, TypeOK
<1>2. queue # <<>>
  BY <1>1, SizesAssumption
<1>3. ASSUME NEW w \in Workers PROVE at[w] = "gone" \/ call[w] = "send"
  <2>1. at[w] \in {"top", "poll", "busy", "gone"} /\ call[w] \in {"none", "send", "tally", "wait"}
    BY DEF IInv, TypeOK, Threads
  <2>2. at[w] \notin {"top", "poll"} /\ call[w] # "tally" /\ call[w] # "wait"
    BY <1>2 DEF AtWork, Threads, Hands, NoWorkerWaits
  <2>3. at[w] = "busy" => call[w] # "none"
    BY DEF AtWork, Busy, Hands, Holders, InWork
  <2> QED BY <2>1, <2>2, <2>3
<1> QED BY <1>1, <1>3 DEF Jammed

\* If nobody sends either, every task is through.
LEMMA StuckIsDone ==
    ASSUME IInv, Hands, ~AtWork, \A a \in Threads : call[a] # "send", TasksIn({"lost"}) = {}
    PROVE  \A i \in Ids : task[i] \in {"none", "over", "refused"}
<1>1. \A w \in Workers : at[w] # "busy"
  <2> TAKE w \in Workers
  <2>1. call[w] \in {"none", "send", "tally", "wait"} /\ w \in Threads
    BY DEF IInv, TypeOK, Threads
  <2>2. call[w] = "none"
    BY <2>1 DEF AtWork, Hands, NoWorkerWaits
  <2> QED BY <2>2 DEF AtWork, Busy, Hands, Holders, InWork
<1>2. queue = <<>>
  <2>1. SUFFICES ASSUME queue # <<>> PROVE FALSE
    OBVIOUS
  <2>2. Disconnected
    BY <1>1, <2>1 DEF AtWork, Disconnected, IInv, TypeOK
  <2> QED BY <2>1, <2>2 DEF IInv, NothingLeft
<1> TAKE i \in Ids
<1>3. task[i] \in Places /\ task[i] # "lost"
  BY DEF IInv, TypeOK, TasksIn
<1>4. task[i] # "queued"
  BY <1>2 DEF IInv, QueueHolds
<1>5. task[i] # "sending" /\ task[i] \notin InWork
  BY <1>1 DEF Hands, Senders, Holders
<1> QED BY <1>3, <1>4, <1>5 DEF Places, InWork

\* As long as a client waits inside submit, wait_idle or a parallel call, some
\* thread can go on: no wakeup is missing, and only a panic, a discarded task or
\* tasks that submit tasks and hold every worker can make the wait one for ever.
THEOREM SomebodyIsAtWork == Spec => []NobodyWaitsInVain
<1>1. IInv /\ Hands => NobodyWaitsInVain
  <2>1. SUFFICES ASSUME IInv, Hands, ~AtWork, TasksIn({"lost"}) = {}, ~Jammed,
                        NEW c \in Clients, Waits(c)
                 PROVE  FALSE
    BY DEF NobodyWaitsInVain
  <2>2. \A a \in Threads : call[a] # "send"
    BY <2>1, StuckIsJammed
  <2>3. \A i \in Ids : task[i] \in {"none", "over", "refused"}
    BY <2>1, <2>2, StuckIsDone
  <2>4. active = 0
    <3>1. TasksIn(Outstanding) = {}
      BY <2>3 DEF TasksIn, Outstanding
    <3> QED BY <2>1, <3>1, FS_EmptySet DEF IInv, ActiveAddsUp
  <2>5. Reported(c) = mine[c]
    <3>1. \A i \in mine[c] : i \in Ids /\ task[i] = "over"
      BY <2>1, <2>3 DEF IInv, TypeOK, ChunksKnown, Hands, NoneRefused
    <3> QED BY <3>1 DEF Reported, TasksIn
  <2> QED BY <2>1, <2>2, <2>4, <2>5 DEF Waits, Threads, Collected
<1> QED BY <1>1, InitHolds, StepHolds, InitHands, StepKeepsHands, PTL DEF Spec

\* No step brings a lost task back.
LEMMA LostStaysLost ==
    ASSUME IInv, [Next]_vars, TasksIn({"lost"}) # {}
    PROVE  (TasksIn({"lost"}) # {})'
<1>1. PICK i \in Ids : task[i] = "lost"
  BY DEF TasksIn
<1> SUFFICES task'[i] = "lost"
  BY DEF TasksIn
<1> task \in [Ids -> Places]
  BY DEF IInv, TypeOK
<1>2. ASSUME NEW a \in Threads, Submit(a)
      PROVE  task'[i] = "lost"
  BY <1>1, <1>2 DEF Submit, Count, Fresh
<1>3. ASSUME NEW a \in Threads, Proceed(a)
      PROVE  task'[i] = "lost"
  <2>1. call[a] = "send" => item[a] # i
    BY <1>1 DEF IInv, OneSender
  <2> QED BY <1>1, <1>3, <2>1 DEF Proceed, Send, SendFails, Tally, taskVars
<1>4. ASSUME NEW c \in Clients, WaitIdle(c) \/ Parallel(c) \/ Return(c)
      PROVE  task'[i] = "lost"
  BY <1>1, <1>4 DEF WaitIdle, Parallel, Return, SeesIdle, SubmitChunk, Collect, Count, Fresh, taskVars
<1>5. ASSUME NEW w \in Workers, Check(w) \/ Panic(w)
      PROVE  task'[i] = "lost"
  BY <1>1, <1>5 DEF Check, Panic, Leave, taskVars
<1>6. ASSUME NEW w \in Workers, Poll(w)
      PROVE  task'[i] = "lost"
  <2>1. queue # <<>> => Head(queue) # i
    <3>1. queue \in Seq(Ids)
      BY DEF IInv, TypeOK
    <3>2. queue # <<>> => 1 \in 1..Len(queue) /\ Head(queue) = queue[1]
      BY <3>1
    <3> QED BY <1>1, <3>2 DEF IInv, QueueHolds
  <2> QED BY <1>1, <1>6, <2>1 DEF Poll
<1>7. ASSUME NEW w \in Workers, Run(w) \/ Complete(w) \/ Finish(w)
      PROVE  task'[i] = "lost"
  <2>1. hand[w] # i
    BY <1>1, <1>7 DEF Run, Complete, Finish, Busy
  <2> QED BY <1>1, <1>7, <2>1 DEF Run, Complete, Finish
<1>8. CASE Shutdown \/ UNCHANGED vars
  BY <1>1, <1>8 DEF Shutdown, vars, taskVars
<1> QED BY <1>2, <1>3, <1>4, <1>5, <1>6, <1>7, <1>8 DEF Next, Work

\* After a task panicked, or was discarded with the channel, active_tasks is
\* never zero again: no later wait_idle returns.
THEOREM LossIsForGood == Spec => [](TasksIn({"lost"}) # {} => [](active # 0))
<1>1. IInv /\ TasksIn({"lost"}) # {} => active # 0
  <2>1. SUFFICES ASSUME IInv, active = 0 PROVE TasksIn({"lost"}) = {}
    OBVIOUS
  <2>2. TasksIn(Outstanding) = {}
    <3>1. IsFiniteSet(Ids)
      BY SizesAssumption, FS_Interval DEF Ids
    <3>2. IsFiniteSet(TasksIn(Outstanding))
      BY <3>1, FS_Subset DEF TasksIn
    <3>3. Cardinality(TasksIn(Outstanding)) = 0
      BY <2>1 DEF IInv, ActiveAddsUp
    <3> QED BY <3>2, <3>3, FS_EmptySet
  <2> QED BY <2>2 DEF TasksIn, Outstanding
<1>2. IInv /\ [Next]_vars /\ TasksIn({"lost"}) # {} => (TasksIn({"lost"}) # {})'
  BY LostStaysLost
<1> QED BY <1>1, <1>2, Invariance, PTL DEF Spec
=============================================================================
