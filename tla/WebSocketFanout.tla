-------------------------- MODULE WebSocketFanout --------------------------
(***************************************************************************)
(* The fan-out of gausstwin-api/src/websocket.rs: a ConnectionManager with *)
(* its broadcast channel, and for each connection a send task that filters *)
(* what it receives by the client's subscriptions of that moment, beside a *)
(* handler of the client's own messages.  Both write to the socket under a *)
(* mutex, which the handler keeps from the change of the subscriptions to  *)
(* the acknowledgement.  What is broadcast is told apart by its position;   *)
(* an event or a metric stands for the subscriptions that ask for it: the   *)
(* event's topic, or every topic that begins with the metric's twin.       *)
(***************************************************************************)
EXTENDS Integers, Sequences, FiniteSets

CONSTANTS
    Clients, Topics,
    Messages,           \* events and metrics that may be broadcast: sets of topics
    System,             \* a message of any other kind, which goes to everybody
    Capacity,           \* events the broadcast channel keeps for a receiver
    MaxEvents           \* bound: events broadcast

ASSUME BoundsAssumption == Capacity \in Nat \ {0} /\ MaxEvents \in Nat

VARIABLES
    events,         \* what was broadcast so far
    conn,           \* "off", "registered", "open" or "closing"
    subs,           \* subscriptions in the manager's ClientInfo
    handler,        \* "idle", or "ack" with the socket's mutex held
    task,           \* where the send task is
    rx,             \* position of its receiver
    got,            \* events written to the client's socket, in order
    owed            \* history: events broadcast while the client was subscribed to
                    \* them, and stayed subscribed

vars == <<events, conn, subs, handler, task, rx, got, owed>>

Alive(c) == task[c] \in {"recv", "filter", "send"}

\* The test of the send task
WantedBy(topics, message) == message = System \/ topics \intersect message # {}

Written(c) == { got[c][i] : i \in DOMAIN got[c] }

\* Events the send task is done with
Passed(c) == 1..(IF task[c] = "recv" THEN rx[c] ELSE rx[c] - 1)

-----------------------------------------------------------------------------
Init ==
    /\ events = << >>
    /\ conn = [c \in Clients |-> "off"]
    /\ subs = [c \in Clients |-> {}]
    /\ handler = [c \in Clients |-> "idle"]
    /\ task = [c \in Clients |-> "none"]
    /\ rx = [c \in Clients |-> 0]
    /\ got = [c \in Clients |-> << >>]
    /\ owed = [c \in Clients |-> {}]

Register(c) ==
    /\ conn[c] = "off"
    /\ conn' = [conn EXCEPT ![c] = "registered"]
    /\ subs' = [subs EXCEPT ![c] = {}]
    /\ UNCHANGED <<events, handler, task, rx, got, owed>>

\* subscribe_to_events: from here on, the receiver sees what is broadcast
Open(c) ==
    /\ conn[c] = "registered"
    /\ conn' = [conn EXCEPT ![c] = "open"]
    /\ task' = [task EXCEPT ![c] = "recv"]
    /\ rx' = [rx EXCEPT ![c] = Len(events)]
    /\ got' = [got EXCEPT ![c] = << >>]
    /\ UNCHANGED <<events, subs, handler, owed>>

Broadcast(message) ==
    /\ Len(events) < MaxEvents
    /\ events' = Append(events, message)
    /\ owed' = [c \in Clients |->
                  IF conn[c] = "open" /\ WantedBy(subs[c], message)
                  THEN owed[c] \union {Len(events')} ELSE owed[c]]
    /\ UNCHANGED <<conn, subs, handler, task, rx, got>>

-----------------------------------------------------------------------------
\* A message of the client names topics: all of them change in one step under the
\* manager's lock, then the message is acknowledged.
Subscribe(c, topics) ==
    /\ conn[c] = "open"
    /\ handler[c] = "idle"
    /\ subs' = [subs EXCEPT ![c] = @ \union topics]
    /\ handler' = [handler EXCEPT ![c] = "ack"]
    /\ UNCHANGED <<events, conn, task, rx, got, owed>>

Unsubscribe(c, topics) ==
    /\ conn[c] = "open"
    /\ handler[c] = "idle"
    /\ subs' = [subs EXCEPT ![c] = @ \ topics]
    /\ handler' = [handler EXCEPT ![c] = "ack"]
    /\ owed' = [owed EXCEPT ![c] = { i \in @ : WantedBy(subs[c] \ topics, events[i]) }]
    /\ UNCHANGED <<events, conn, task, rx, got>>

\* A ping, a command or what cannot be parsed: it is only answered.
Request(c) ==
    /\ conn[c] = "open"
    /\ handler[c] = "idle"
    /\ handler' = [handler EXCEPT ![c] = "ack"]
    /\ UNCHANGED <<events, conn, subs, task, rx, got, owed>>

\* Faulty variant: the mutex is kept for the next message of the client.
AcknowledgeKeepsMutex(c) ==
    /\ handler[c] = "ack"
    /\ UNCHANGED vars

Acknowledge(c) ==
    /\ handler[c] = "ack"
    /\ handler' = [handler EXCEPT ![c] = "idle"]
    /\ UNCHANGED <<events, conn, subs, task, rx, got, owed>>

\* The receive loop ends: the send task is aborted ...
Close(c) ==
    /\ conn[c] = "open"
    /\ handler[c] = "idle"
    /\ conn' = [conn EXCEPT ![c] = "closing"]
    /\ task' = [task EXCEPT ![c] = "none"]
    /\ UNCHANGED <<events, subs, handler, rx, got, owed>>

\* ... and the client is unregistered.
Unregister(c) ==
    /\ conn[c] = "closing"
    /\ conn' = [conn EXCEPT ![c] = "off"]
    /\ subs' = [subs EXCEPT ![c] = {}]
    /\ owed' = [owed EXCEPT ![c] = {}]
    /\ UNCHANGED <<events, handler, task, rx, got>>

-----------------------------------------------------------------------------
Lagged(c) == Len(events) - rx[c] > Capacity

\* Faulty variants, for the properties to tell apart: a receiver that resumes
\* at the oldest event kept, and a write that is tried again once it is done.
RecvSkipsLag(c) ==
    /\ task[c] = "recv"
    /\ rx[c] < Len(events)
    /\ rx' = [rx EXCEPT ![c] = IF Lagged(c) THEN Len(events) - Capacity + 1 ELSE @ + 1]
    /\ task' = [task EXCEPT ![c] = "filter"]
    /\ UNCHANGED <<events, conn, subs, handler, got, owed>>

SendTwice(c) ==
    /\ task[c] = "send"
    /\ handler[c] = "idle"
    /\ got' = [got EXCEPT ![c] = Append(@, rx[c])]
    /\ UNCHANGED <<events, conn, subs, handler, task, rx, owed>>

\* recv(): the next event, or Lagged, which ends the task though the client
\* stays connected and subscribed
Recv(c) ==
    /\ task[c] = "recv"
    /\ rx[c] < Len(events)
    /\ \/ /\ ~Lagged(c)
          /\ rx' = [rx EXCEPT ![c] = @ + 1]
          /\ task' = [task EXCEPT ![c] = "filter"]
       \/ /\ Lagged(c)
          /\ task' = [task EXCEPT ![c] = "ended"]
          /\ UNCHANGED rx
    /\ UNCHANGED <<events, conn, subs, handler, got, owed>>

Filter(c) ==
    /\ task[c] = "filter"
    /\ task' = [task EXCEPT ![c] = IF WantedBy(subs[c], events[rx[c]]) THEN "send" ELSE "recv"]
    /\ UNCHANGED <<events, conn, subs, handler, rx, got, owed>>

Send(c) ==
    /\ task[c] = "send"
    /\ handler[c] = "idle"
    /\ got' = [got EXCEPT ![c] = Append(@, rx[c])]
    /\ task' = [task EXCEPT ![c] = "recv"]
    /\ UNCHANGED <<events, conn, subs, handler, rx, owed>>

\* The socket is broken: the task ends, the receive loop may not know yet.
SendFails(c) ==
    /\ task[c] = "send"
    /\ handler[c] = "idle"
    /\ task' = [task EXCEPT ![c] = "ended"]
    /\ UNCHANGED <<events, conn, subs, handler, rx, got, owed>>

-----------------------------------------------------------------------------
SendTask(c) == Recv(c) \/ Filter(c) \/ Send(c) \/ SendFails(c)

Next ==
    \/ \E message \in Messages \union {System} : Broadcast(message)
    \/ \E c \in Clients :
        \/ Register(c)
        \/ Open(c)
        \/ \E topics \in SUBSET Topics : Subscribe(c, topics) \/ Unsubscribe(c, topics)
        \/ Request(c)
        \/ Acknowledge(c)
        \/ Close(c)
        \/ Unregister(c)
        \/ SendTask(c)

\* The runtime runs every task that can go on; the mutex of the socket is fair,
\* so that the handler's turns do not keep the send task from its own.
Fairness ==
    \A c \in Clients : SF_vars(SendTask(c)) /\ WF_vars(Acknowledge(c))

Spec == Init /\ [][Next]_vars /\ Fairness

-----------------------------------------------------------------------------
\* While its send task lives a client misses nothing it is owed: all events it
\* asks for broadcast since it subscribed, up to the receiver's position,
\* were written.  Lagging behind ends the task instead of leaving a gap.
NoGap ==
    \A c \in Clients : Alive(c) => owed[c] \intersect Passed(c) \subseteq Written(c)

\* Events are written in the order of their broadcast, each once, however the
\* client changes its subscriptions and however long the mutex is waited for.
InOrder ==
    \A c \in Clients : \A i, j \in DOMAIN got[c] : i < j => got[c][i] < got[c][j]

\* What a client is owed is written at last, unless it leaves, unsubscribes, or
\* its send task has ended: a client that lagged once is never written to again.
Delivered ==
    \A c \in Clients, i \in 1..MaxEvents :
        (i \in owed[c]) ~> (i \in Written(c) \/ i \notin owed[c] \/ ~Alive(c))
=============================================================================
