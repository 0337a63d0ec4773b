---------------------- MODULE WebSocketFanout_proofs ----------------------
(***************************************************************************)
(* Proofs about WebSocketFanout, for any clients, topics, capacity of the  *)
(* broadcast channel and number of events: a client whose send task lives  *)
(* misses nothing it is owed, and what it gets is in order.                *)
(***************************************************************************)
EXTENDS WebSocketFanout, TLAPS, SequenceTheorems

TypeOK ==
    /\ events \in Seq(Messages \union {System})
    /\ conn \in [Clients -> {"off", "registered", "open", "closing"}]
    /\ subs \in [Clients -> SUBSET Topics]
    /\ handler \in [Clients -> {"idle", "ack"}]
    /\ task \in [Clients -> {"none", "recv", "filter", "send", "ended"}]
    /\ rx \in [Clients -> Nat]
    /\ got \in [Clients -> Seq(Nat)]
    /\ owed \in [Clients -> SUBSET Nat]

\* Nobody is owed anything before its connection is open.
NothingOwedYet(c) ==
    conn[c] \in {"off", "registered"} => subs[c] = {} /\ owed[c] = {}

\* What a client is owed was broadcast, and its subscriptions still ask for it:
\* the filter, asked later, does not refuse it.
OwedPassesFilter(c) ==
    \A i \in owed[c] : i \in 1..Len(events) /\ WantedBy(subs[c], events[i])

\* The receiver does not run ahead of the channel.
Position(c) ==
    /\ rx[c] <= Len(events)
    /\ task[c] \in {"filter", "send"} => rx[c] >= 1

\* Written events are among those the send task is done with.
WrittenIsPassed(c) == Alive(c) => Written(c) \subseteq Passed(c)

Complete(c) == Alive(c) => owed[c] \intersect Passed(c) \subseteq Written(c)

Increasing(c) == \A i, j \in DOMAIN got[c] : i < j => got[c][i] < got[c][j]

Good(c) ==
    /\ NothingOwedYet(c)
    /\ OwedPassesFilter(c)
    /\ Position(c)
    /\ WrittenIsPassed(c)
    /\ Complete(c)
    /\ Increasing(c)

Inv == TypeOK /\ \A c \in Clients : Good(c)

ClientStep(c) ==
    \/ Register(c)
    \/ Open(c)
    \/ \E topics \in SUBSET Topics : Subscribe(c, topics) \/ Unsubscribe(c, topics)
    \/ Request(c)
    \/ Acknowledge(c)
    \/ Close(c)
    \/ Unregister(c)
    \/ SendTask(c)

-----------------------------------------------------------------------------
LEMMA TypeCorrect ==
    ASSUME TypeOK, [Next]_vars
    PROVE  TypeOK'
<1> USE DEF TypeOK
<1>1. ASSUME NEW message \in Messages \union {System}, Broadcast(message)
      PROVE  TypeOK'
  BY <1>1 DEF Broadcast
<1>2. ASSUME NEW c \in Clients, ClientStep(c)
      PROVE  TypeOK'
  <2>1. CASE Register(c)
    BY <2>1 DEF Register
  <2>2. CASE Open(c)
    <3>1. Len(events) \in Nat /\ << >> \in Seq(Nat)
      OBVIOUS
    <3>2. rx' \in [Clients -> Nat] /\ got' \in [Clients -> Seq(Nat)]
      BY <2>2, <3>1 DEF Open
    <3> QED BY <2>2, <3>2 DEF Open
  <2>3. CASE Acknowledge(c) \/ Request(c)
    BY <2>3 DEF Acknowledge, Request
  <2>4. CASE Close(c)
    BY <2>4 DEF Close
  <2>5. CASE Unregister(c)
    BY <2>5 DEF Unregister
  <2>6. ASSUME NEW topics \in SUBSET Topics, Subscribe(c, topics)
        PROVE  TypeOK'
    <3>1. subs[c] \union topics \in SUBSET Topics
      OBVIOUS
    <3>2. subs' = [subs EXCEPT ![c] = subs[c] \union topics]
      BY <2>6 DEF Subscribe
    <3>3. subs' \in [Clients -> SUBSET Topics]
      BY <3>1, <3>2
    <3> QED BY <2>6, <3>3 DEF Subscribe
  <2>7. ASSUME NEW topics \in SUBSET Topics, Unsubscribe(c, topics)
        PROVE  TypeOK'
    <3>1. /\ subs[c] \ topics \in SUBSET Topics
          /\ { i \in owed[c] : WantedBy(subs[c] \ topics, events[i]) } \in SUBSET Nat
      OBVIOUS
    <3>2. /\ subs' = [subs EXCEPT ![c] = subs[c] \ topics]
          /\ owed' = [owed EXCEPT ![c] = { i \in owed[c] : WantedBy(subs[c] \ topics, events[i]) }]
      BY <2>7 DEF Unsubscribe
    <3>3. subs' \in [Clients -> SUBSET Topics] /\ owed' \in [Clients -> SUBSET Nat]
      BY <3>1, <3>2
    <3> QED BY <2>7, <3>3 DEF Unsubscribe
  <2>8. CASE Recv(c)
    <3>1. CASE rx' = [rx EXCEPT ![c] = @ + 1] /\ task' = [task EXCEPT ![c] = "filter"]
      <4>1. UNCHANGED <<events, conn, subs, handler, got, owed>>
        BY <2>8 DEF Recv
      <4> QED BY <3>1, <4>1
    <3>2. CASE task' = [task EXCEPT ![c] = "ended"] /\ UNCHANGED rx
      <4>1. UNCHANGED <<events, conn, subs, handler, got, owed>>
        BY <2>8 DEF Recv
      <4> QED BY <3>2, <4>1
    <3> QED BY <2>8, <3>1, <3>2 DEF Recv
  <2>9. CASE Filter(c)
    BY <2>9 DEF Filter
  <2>10. CASE Send(c)
    <3>1. got[c] \in Seq(Nat) /\ rx[c] \in Nat
      OBVIOUS
    <3>2. Append(got[c], rx[c]) \in Seq(Nat)
      BY <3>1, AppendProperties
    <3>3. got' = [got EXCEPT ![c] = Append(got[c], rx[c])]
      BY <2>10 DEF Send
    <3>4. got' \in [Clients -> Seq(Nat)]
      BY <3>2, <3>3
    <3>5. /\ UNCHANGED <<events, conn, subs, handler, rx, owed>>
          /\ task' = [task EXCEPT ![c] = "recv"]
      BY <2>10 DEF Send
    <3> QED BY <3>4, <3>5
  <2>11. CASE SendFails(c)
    BY <2>11 DEF SendFails
  <2> QED BY <1>2, <2>1, <2>2, <2>3, <2>4, <2>5, <2>6, <2>7, <2>8, <2>9, <2>10, <2>11
            DEF ClientStep, SendTask
<1>3. CASE UNCHANGED vars
  BY <1>3 DEF vars
<1> QED BY <1>1, <1>2, <1>3 DEF Next, ClientStep

\* A step of one connection touches nobody else's state, nor the channel.
LEMMA OthersUntouched ==
    ASSUME TypeOK, NEW c \in Clients, NEW d \in Clients, c # d, ClientStep(c)
    PROVE  /\ events' = events
           /\ conn'[d] = conn[d] /\ subs'[d] = subs[d] /\ task'[d] = task[d]
           /\ rx'[d] = rx[d] /\ got'[d] = got[d] /\ owed'[d] = owed[d]
<1> USE DEF TypeOK
<1>1. CASE Register(c) \/ Request(c) \/ Acknowledge(c) \/ Close(c) \/ Unregister(c)
  BY <1>1 DEF Register, Request, Acknowledge, Close, Unregister
<1>2. CASE Open(c)
  BY <1>2 DEF Open
<1>3. ASSUME NEW topics \in SUBSET Topics, Subscribe(c, topics) \/ Unsubscribe(c, topics)
      PROVE  /\ events' = events
             /\ conn'[d] = conn[d] /\ subs'[d] = subs[d] /\ task'[d] = task[d]
             /\ rx'[d] = rx[d] /\ got'[d] = got[d] /\ owed'[d] = owed[d]
  BY <1>3 DEF Subscribe, Unsubscribe
<1>4. CASE Recv(c) \/ Filter(c) \/ SendFails(c)
  BY <1>4 DEF Recv, Filter, SendFails
<1>5. CASE Send(c)
  BY <1>5 DEF Send
<1> QED BY <1>1, <1>2, <1>3, <1>4, <1>5 DEF ClientStep, SendTask

LEMMA SameIsGood ==
    ASSUME NEW d \in Clients, Good(d), events' = events,
           conn'[d] = conn[d], subs'[d] = subs[d], task'[d] = task[d],
           rx'[d] = rx[d], got'[d] = got[d], owed'[d] = owed[d]
    PROVE  Good(d)'
  BY DEF Good, NothingOwedYet, OwedPassesFilter, Position, WrittenIsPassed,
         Complete, Increasing, Alive, Passed, Written

\* A broadcast event lies beyond every receiver: it is owed, and not passed.
LEMMA BroadcastGood ==
    ASSUME TypeOK, NEW d \in Clients, Good(d), NEW message \in Messages \union {System}, Broadcast(message)
    PROVE  Good(d)'
<1> USE DEF TypeOK, Good
<1>1. /\ Len(events') = Len(events) + 1 /\ Len(events) \in Nat
      /\ \A i \in 1..Len(events) : events'[i] = events[i]
      /\ events'[Len(events')] = message
  BY DEF Broadcast
<1>2. UNCHANGED <<conn, subs, task, rx, got>>
  BY DEF Broadcast
<1>3. owed'[d] = IF conn[d] = "open" /\ WantedBy(subs[d], message)
                   THEN owed[d] \union {Len(events')} ELSE owed[d]
  BY DEF Broadcast
<1>4. NothingOwedYet(d)'
  BY <1>2, <1>3 DEF NothingOwedYet
<1>5. OwedPassesFilter(d)'
  <2> SUFFICES ASSUME NEW i \in owed'[d]
               PROVE  i \in 1..Len(events') /\ WantedBy(subs[d], events'[i])
    BY <1>2 DEF OwedPassesFilter
  <2>1. CASE i \in owed[d]
    <3>1. i \in 1..Len(events) /\ WantedBy(subs[d], events[i])
      BY <2>1 DEF OwedPassesFilter
    <3> QED BY <1>1, <3>1
  <2>2. CASE i \notin owed[d]
    <3>1. i = Len(events') /\ WantedBy(subs[d], message)
      BY <1>3, <2>2
    <3> QED BY <1>1, <3>1
  <2> QED BY <2>1, <2>2
<1>6. Position(d)'
  BY <1>1, <1>2 DEF Position
<1>7. Passed(d)' = Passed(d) /\ Written(d)' = Written(d) /\ Alive(d)' = Alive(d)
  BY <1>2 DEF Passed, Written, Alive
<1>8. WrittenIsPassed(d)' /\ Increasing(d)'
  BY <1>2, <1>7 DEF WrittenIsPassed, Increasing
<1>9. Complete(d)'
  <2>1. Len(events') \notin Passed(d)
    BY <1>1 DEF Passed, Position
  <2> QED BY <1>3, <1>7, <2>1 DEF Complete
<1> QED BY <1>4, <1>5, <1>6, <1>8, <1>9

\* The steps that bring a client in and out, and change its subscriptions.
LEMMA HandlerGood ==
    ASSUME TypeOK, NEW c \in Clients, Good(c),
           \/ Register(c) \/ Open(c) \/ Request(c) \/ Acknowledge(c) \/ Close(c) \/ Unregister(c)
           \/ \E topics \in SUBSET Topics : Subscribe(c, topics) \/ Unsubscribe(c, topics)
    PROVE  Good(c)'
<1> USE DEF TypeOK, Good
<1>1. CASE Register(c)
  BY <1>1 DEF Register, NothingOwedYet, OwedPassesFilter, Position, WrittenIsPassed,
              Complete, Increasing, Alive, Passed, Written
<1>2. CASE Open(c)
  <2>1. /\ events' = events /\ subs'[c] = {} /\ owed'[c] = {} /\ conn'[c] = "open"
        /\ task'[c] = "recv" /\ rx'[c] = Len(events) /\ got'[c] = << >>
    BY <1>2 DEF Open, NothingOwedYet
  <2>2. Written(c)' = {}
    BY <2>1 DEF Written
  <2> QED BY <2>1, <2>2 DEF NothingOwedYet, OwedPassesFilter, Position, WrittenIsPassed,
                            Complete, Increasing, Alive
<1>3. CASE Request(c) \/ Acknowledge(c)
  BY <1>3, SameIsGood DEF Request, Acknowledge
<1>4. CASE Close(c)
  BY <1>4 DEF Close, NothingOwedYet, OwedPassesFilter, Position, WrittenIsPassed,
              Complete, Increasing, Alive
<1>5. CASE Unregister(c)
  BY <1>5 DEF Unregister, NothingOwedYet, OwedPassesFilter, Position, WrittenIsPassed,
              Complete, Increasing, Alive, Passed, Written
<1>6. ASSUME NEW topics \in SUBSET Topics, Subscribe(c, topics)
      PROVE  Good(c)'
  <2>1. /\ UNCHANGED <<events, conn, task, rx, got, owed>> /\ conn[c] = "open"
        /\ subs'[c] = subs[c] \union topics
    BY <1>6 DEF Subscribe
  <2>2. \A i \in owed[c] : WantedBy(subs'[c], events[i])
    BY <2>1 DEF OwedPassesFilter, WantedBy
  <2> QED BY <2>1, <2>2 DEF NothingOwedYet, OwedPassesFilter, Position, WrittenIsPassed,
                      Complete, Increasing, Alive, Passed, Written
<1>7. ASSUME NEW topics \in SUBSET Topics, Unsubscribe(c, topics)
      PROVE  Good(c)'
  <2>1. /\ UNCHANGED <<events, conn, task, rx, got>> /\ conn[c] = "open"
        /\ subs'[c] = subs[c] \ topics
        /\ owed'[c] = { i \in owed[c] : WantedBy(subs[c] \ topics, events[i]) }
    BY <1>7 DEF Unsubscribe
  <2> QED BY <2>1 DEF NothingOwedYet, OwedPassesFilter, Position, WrittenIsPassed,
                      Complete, Increasing, Alive, Passed, Written
<1> QED BY <1>1, <1>2, <1>3, <1>4, <1>5, <1>6, <1>7

\* The steps of the send task.  The filter may refuse only what is not owed.
LEMMA SendTaskGood ==
    ASSUME TypeOK, NEW c \in Clients, Good(c), SendTask(c)
    PROVE  Good(c)'
<1> USE DEF TypeOK, Good
<1>1. UNCHANGED <<events, conn, subs, owed>>
  BY DEF SendTask, Recv, Filter, Send, SendFails
<1>2. NothingOwedYet(c)' /\ OwedPassesFilter(c)'
  BY <1>1 DEF NothingOwedYet, OwedPassesFilter
<1>3. CASE Recv(c)
  <2>1. got' = got /\ rx[c] < Len(events) /\ Len(events) \in Nat /\ task[c] = "recv"
    BY <1>3 DEF Recv
  <2>2. CASE rx'[c] = rx[c] + 1 /\ task'[c] = "filter"
    <3>1. Passed(c)' = Passed(c) /\ Written(c)' = Written(c) /\ Alive(c)
      BY <2>1, <2>2 DEF Passed, Written, Alive
    <3> QED BY <1>1, <1>2, <2>1, <2>2, <3>1
            DEF Position, WrittenIsPassed, Complete, Increasing
  <2>3. CASE rx' = rx /\ task'[c] = "ended"
    BY <1>1, <1>2, <2>1, <2>3 DEF Position, WrittenIsPassed, Complete, Increasing, Alive
  <2> QED BY <1>3, <2>2, <2>3 DEF Recv
<1>4. CASE Filter(c)
  <2>1. got' = got /\ rx' = rx /\ task[c] = "filter" /\ rx[c] >= 1 /\ rx[c] \in Nat
    BY <1>4 DEF Filter, Position
  <2>2. Written(c)' = Written(c) /\ Alive(c)
    BY <2>1 DEF Written, Alive
  <2>3. CASE WantedBy(subs[c], events[rx[c]]) /\ task'[c] = "send"
    <3>1. Passed(c)' = Passed(c)
      BY <2>1, <2>3 DEF Passed
    <3> QED BY <1>1, <1>2, <2>1, <2>2, <2>3, <3>1
            DEF Position, WrittenIsPassed, Complete, Increasing
  <2>4. CASE ~WantedBy(subs[c], events[rx[c]]) /\ task'[c] = "recv"
    <3>1. Passed(c)' = Passed(c) \union {rx[c]}
      BY <2>1, <2>4 DEF Passed
    <3>2. rx[c] \notin owed[c]
      BY <2>4 DEF OwedPassesFilter
    <3> QED BY <1>1, <1>2, <2>1, <2>2, <2>4, <3>1, <3>2
            DEF Position, WrittenIsPassed, Complete, Increasing
  <2> QED BY <1>4, <2>3, <2>4 DEF Filter
<1>5. CASE Send(c)
  <2>1. /\ rx' = rx /\ task[c] = "send" /\ task'[c] = "recv"
        /\ rx[c] >= 1 /\ rx[c] \in Nat /\ got'[c] = Append(got[c], rx[c])
    BY <1>5 DEF Send, Position
  <2>2. /\ Len(got'[c]) = Len(got[c]) + 1 /\ Len(got[c]) \in Nat
        /\ DOMAIN got[c] = 1..Len(got[c]) /\ DOMAIN got'[c] = 1..Len(got[c])+1
        /\ \A i \in 1..Len(got[c]) : got'[c][i] = got[c][i]
        /\ got'[c][Len(got[c]) + 1] = rx[c]
    BY <2>1
  <2>3. Written(c)' = Written(c) \union {rx[c]}
    <3>1. ASSUME NEW i \in 1..Len(got[c])+1
          PROVE  got'[c][i] \in Written(c) \union {rx[c]}
      <4>1. CASE i \in 1..Len(got[c])
        BY <2>2, <4>1 DEF Written
      <4>2. CASE i = Len(got[c]) + 1
        BY <2>2, <4>2
      <4> QED BY <2>2, <4>1, <4>2
    <3>2. ASSUME NEW i \in 1..Len(got[c])
          PROVE  got[c][i] \in Written(c)'
      <4>1. i \in DOMAIN got'[c] /\ got'[c][i] = got[c][i]
        BY <2>2
      <4> QED BY <4>1 DEF Written
    <3>3. rx[c] \in Written(c)'
      <4>1. Len(got[c]) + 1 \in DOMAIN got'[c]
        BY <2>2
      <4> QED BY <2>2, <4>1 DEF Written
    <3>4. Written(c)' \subseteq Written(c) \union {rx[c]}
      <4> SUFFICES ASSUME NEW x \in Written(c)'
                   PROVE  x \in Written(c) \union {rx[c]}
        OBVIOUS
      <4>1. PICK i \in DOMAIN got'[c] : x = got'[c][i]
        BY DEF Written
      <4>2. i \in 1..Len(got[c])+1
        BY <2>2, <4>1
      <4> QED BY <3>1, <4>1, <4>2
    <3>5. Written(c) \subseteq Written(c)'
      <4>1. Written(c) = { got[c][i] : i \in 1..Len(got[c]) }
        BY <2>2 DEF Written
      <4> QED BY <3>2, <4>1
    <3> QED BY <3>3, <3>4, <3>5
  <2>4. Passed(c)' = Passed(c) \union {rx[c]} /\ Alive(c) /\ Alive(c)'
    BY <2>1 DEF Passed, Alive
  <2>5. \A i \in DOMAIN got[c] : got[c][i] < rx[c]
    <3>1. \A i \in DOMAIN got[c] : got[c][i] \in 1..rx[c]-1
      BY <2>1, <2>4 DEF WrittenIsPassed, Written, Passed
    <3> QED BY <2>1, <3>1
  <2>6. Increasing(c)'
    <3> SUFFICES ASSUME NEW i \in 1..Len(got[c])+1, NEW j \in 1..Len(got[c])+1, i < j
                 PROVE  got'[c][i] < got'[c][j]
      BY <2>2 DEF Increasing
    <3>1. i \in 1..Len(got[c])
      BY <2>2
    <3>2. CASE j \in 1..Len(got[c])
      BY <2>2, <3>1, <3>2 DEF Increasing
    <3>3. CASE j = Len(got[c]) + 1
      BY <2>2, <2>5, <3>1, <3>3
    <3> QED BY <2>2, <3>2, <3>3
  <2>7. Position(c)' /\ WrittenIsPassed(c)' /\ Complete(c)'
    BY <1>1, <2>1, <2>3, <2>4 DEF Position, WrittenIsPassed, Complete
  <2> QED BY <1>2, <2>6, <2>7
<1>6. CASE SendFails(c)
  BY <1>1, <1>2, <1>6
     DEF SendFails, Position, WrittenIsPassed, Complete, Increasing, Alive
<1> QED BY <1>3, <1>4, <1>5, <1>6 DEF SendTask

LEMMA InitInv ==
    ASSUME Init
    PROVE  Inv
<1>1. TypeOK
  BY DEF Init, TypeOK
<1>2. ASSUME NEW c \in Clients
      PROVE  Good(c)
  BY DEF Init, Good, NothingOwedYet, OwedPassesFilter, Position, WrittenIsPassed,
         Complete, Increasing, Alive
<1> QED BY <1>1, <1>2 DEF Inv

LEMMA NextKeepsInv ==
    ASSUME Inv, [Next]_vars
    PROVE  Inv'
<1>1. TypeOK'
  BY TypeCorrect DEF Inv
<1> SUFFICES ASSUME NEW d \in Clients
             PROVE  Good(d)'
  BY <1>1 DEF Inv
<1>2. TypeOK /\ Good(d)
  BY DEF Inv
<1>3. ASSUME NEW message \in Messages \union {System}, Broadcast(message)
      PROVE  Good(d)'
  BY <1>2, <1>3, BroadcastGood
<1>4. ASSUME NEW c \in Clients, ClientStep(c)
      PROVE  Good(d)'
  <2>1. CASE c = d
    BY <1>2, <1>4, <2>1, HandlerGood, SendTaskGood DEF ClientStep
  <2>2. CASE c # d
    BY <1>2, <1>4, <2>2, OthersUntouched, SameIsGood
  <2> QED BY <2>1, <2>2
<1>5. CASE UNCHANGED vars
  BY <1>2, <1>5, SameIsGood DEF vars
<1> QED BY <1>3, <1>4, <1>5 DEF Next, ClientStep

-----------------------------------------------------------------------------
\* While its send task lives a client misses nothing it is owed, whatever it
\* subscribes to and unsubscribes from meanwhile.
THEOREM ThmNoGap == Spec => []NoGap
<1>1. Inv => NoGap
  BY DEF Inv, Good, Complete, NoGap
<1> QED BY <1>1, InitInv, NextKeepsInv, PTL DEF Spec

\* Events are written in the order of their broadcast, each once.
THEOREM ThmInOrder == Spec => []InOrder
<1>1. Inv => InOrder
  BY DEF Inv, Good, Increasing, InOrder
<1> QED BY <1>1, InitInv, NextKeepsInv, PTL DEF Spec
=============================================================================
