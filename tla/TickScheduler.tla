--------------------------- MODULE TickScheduler ---------------------------
(***************************************************************************)
(* What trait Scheduler (gausstwin-core/src/scheduler.rs) promises the     *)
(* model's step loop, with no queue and no index: a set of members, and    *)
(* the members still due in the current tick.  An agent becomes due when   *)
(* the tick is reset or when it joins, and stops being due when it is      *)
(* handed out or leaves; nothing else changes who is due.                  *)
(***************************************************************************)
CONSTANT Agents

VARIABLES
    members,    \* the agents the scheduler manages
    due         \* members not yet handed out in this tick

tickVars == <<members, due>>

TickTypeOK ==
    /\ members \subseteq Agents
    /\ due \subseteq members

TickInit ==
    /\ members = {}
    /\ due = {}

\* initialize: the given agents replace the members and all are due
Enrol(S) ==
    /\ members' = S
    /\ due' = S

\* add_agent of an agent that is not a member: due in this very tick
Join(a) ==
    /\ a \notin members
    /\ members' = members \union {a}
    /\ due' = due \union {a}

\* remove_agent: nobody else's turn is gained or lost
Leave(a) ==
    /\ a \in members
    /\ members' = members \ {a}
    /\ due' = due \ {a}

\* next_batch: some due agents are handed out, each of them once
HandOut(B) ==
    /\ B # {}
    /\ B \subseteq due
    /\ due' = due \ B
    /\ UNCHANGED members

\* reset_step: everybody is due again
NewTick ==
    /\ due' = members
    /\ UNCHANGED members

TickNext ==
    \/ \E S \in SUBSET Agents : Enrol(S)
    \/ \E a \in Agents : Join(a)
    \/ \E a \in Agents : Leave(a)
    \/ \E B \in SUBSET Agents : HandOut(B)
    \/ NewTick

TickSpec == TickInit /\ [][TickNext]_tickVars
=============================================================================
