---------------------------- MODULE CachePromise ----------------------------
(***************************************************************************)
(* What trait AsyncCache of gausstwin-data/src/cache.rs promises to those   *)
(* who call it, over a map that may forget.  Each call is carried out at    *)
(* one moment, that of its return: a get is answered with what the map has  *)
(* for the key it asked for, a put has put its value under its key, a       *)
(* remove has taken out its key and a clear all of them.  A call that is    *)
(* dropped has no answer and has changed nothing.                           *)
(***************************************************************************)
EXTENDS LossyMap

CONSTANTS
    Clients,
    NoRequest       \* the request of who is not in a call

VARIABLES
    request,        \* the call each client is in
    answer          \* of each client's last call: what a get was told, "done" for
                    \* Ok(()), "pending" for a call without an answer

vars == <<content, request, answer>>

Requests ==
    [op : {"get", "remove"}, key : Keys]
    \cup [op : {"put"}, key : Keys, value : Values, ttl : {"none", "running"}]
    \cup [op : {"clear"}]

Init ==
    /\ MapInit
    /\ request = [c \in Clients |-> NoRequest]
    /\ answer = [c \in Clients |-> Nothing]

Call(c, r) ==
    /\ request[c] = NoRequest
    /\ request' = [request EXCEPT ![c] = r]
    /\ answer' = [answer EXCEPT ![c] = "pending"]
    /\ UNCHANGED content

Drop(c) ==
    /\ request[c] # NoRequest
    /\ request' = [request EXCEPT ![c] = NoRequest]
    /\ UNCHANGED <<content, answer>>

Forget ==
    /\ Becomes(content)
    /\ UNCHANGED <<request, answer>>

\* The call of c returns a.
Returns(c, a) ==
    /\ request' = [request EXCEPT ![c] = NoRequest]
    /\ answer' = [answer EXCEPT ![c] = a]

ReturnGet(c) ==
    /\ request[c].op = "get"
    /\ \E v \in Told(request[c].key) : Returns(c, v)
    /\ UNCHANGED content

ReturnPut(c) ==
    /\ request[c].op = "put"
    /\ Written(request[c].key, request[c].value)
    /\ Returns(c, "done")

ReturnRemove(c) ==
    /\ request[c].op = "remove"
    /\ Erased({request[c].key})
    /\ Returns(c, "done")

ReturnClear(c) ==
    /\ request[c].op = "clear"
    /\ Erased(Keys)
    /\ Returns(c, "done")

Next ==
    \/ \E c \in Clients :
        \/ \E r \in Requests : Call(c, r)
        \/ Drop(c)
        \/ ReturnGet(c) \/ ReturnPut(c) \/ ReturnRemove(c) \/ ReturnClear(c)
    \/ Forget

PromiseSpec == Init /\ [][Next]_vars
=============================================================================
