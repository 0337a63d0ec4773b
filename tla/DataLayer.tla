------------------------------ MODULE DataLayer ------------------------------
(***************************************************************************)
(* What the cache and the store of gausstwin-data have in common: tasks     *)
(* that call them with keys and values, each in one call at a time.         *)
(***************************************************************************)
EXTENDS Integers, FiniteSets

CONSTANTS
    Clients,        \* tasks that share the cache, or use the store
    Keys,
    Values,
    Nothing,        \* no value
    MaxCalls        \* bound: calls

ASSUME ValuesAssumption == Nothing \notin Values
ASSUME CallsAssumption == MaxCalls \in Nat

VARIABLES
    pc,             \* where each client is in its call
    request,        \* the call
    calls           \* calls so far

NoRequest == [op |-> "none"]

Goto(c, place) == pc' = [pc EXCEPT ![c] = place]
=============================================================================
