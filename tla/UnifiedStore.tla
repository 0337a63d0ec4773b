---------------------------- MODULE UnifiedStore ----------------------------
(***************************************************************************)
(* UnifiedStoreImpl of gausstwin-data/src/store.rs over the stores that      *)
(* create_unified_store gives it: the vector of a record in one, its scalar *)
(* in another, and the whole record in the cache, of which only the promise  *)
(* of LossyMap is used.  store_hybrid and delete change the three one after *)
(* the other; get_hybrid asks the cache, then the two, and fills the cache  *)
(* with what it has put together.  No lock is held from one to the next.    *)
(*                                                                         *)
(* A call may fail in a store, or be dropped, before each of its steps; what *)
(* it has changed by then stays.  A value stands for a vector or a scalar.  *)
(***************************************************************************)
EXTENDS DataLayer

VARIABLES
    vector,         \* the vector of each key, or Nothing
    scalar,         \* the scalar of each key, or Nothing
    cache,          \* the record the cache remembers for each key, or Nothing
    seen,           \* what get_hybrid has put together
    alone,          \* history: writes that have met no call on their key
    tangled         \* history: keys on which a write met a call, or was cut short

stores == <<vector, scalar>>
history == <<alone, tangled>>
storeVars == <<stores, cache, pc, request, seen, calls, history>>

Records == [vector : Values, scalar : Values]
Pair(v, s) == [vector |-> v, scalar |-> s]

Cache == INSTANCE LossyMap WITH Values <- Records, content <- cache

HybridRequests ==
    [op : {"get", "delete"}, key : Keys] \cup [op : {"store"}, key : Keys, value : Values]

On(k) == { c \in Clients : pc[c] # "idle" /\ request[c].key = k }
Writes(c) == request[c].op \in {"store", "delete"}
Writers(k) == { c \in On(k) : Writes(c) }

-----------------------------------------------------------------------------
StoreInit ==
    /\ vector = [k \in Keys |-> Nothing]
    /\ scalar = [k \in Keys |-> Nothing]
    /\ Cache!MapInit
    /\ pc = [c \in Clients |-> "idle"]
    /\ request = [c \in Clients |-> NoRequest]
    /\ seen = [c \in Clients |-> Nothing]
    /\ calls = 0
    /\ alone = {}
    /\ tangled = {}

\* A call begins.  Two calls on a key meet when one of them writes.
Begin(c, r) ==
    LET write == r.op # "get"
        met == { d \in On(r.key) : write \/ Writes(d) }
    IN  /\ pc[c] = "idle"
        /\ calls < MaxCalls
        /\ calls' = calls + 1
        /\ request' = [request EXCEPT ![c] = r]
        /\ Goto(c, IF write THEN "vector" ELSE "ask")
        /\ alone' = (alone \ met) \cup (IF write /\ met = {} THEN {c} ELSE {})
        /\ tangled' = IF met = {} THEN tangled ELSE tangled \cup {r.key}
        /\ UNCHANGED <<stores, cache, seen>>

End(c) ==
    /\ Goto(c, "idle")
    /\ request' = [request EXCEPT ![c] = NoRequest]
    /\ seen' = [seen EXCEPT ![c] = Nothing]
    /\ alone' = alone \ {c}
    /\ UNCHANGED calls

\* A step fails and the call returns the error, or the call is dropped.
Abandon(c) ==
    /\ pc[c] # "idle"
    /\ End(c)
    /\ tangled' = IF Writes(c) /\ pc[c] # "vector"
                  THEN tangled \cup {request[c].key} ELSE tangled
    /\ UNCHANGED <<stores, cache>>

-----------------------------------------------------------------------------
\* store_hybrid and delete: what a store shall hold for the key
Wanted(c) == IF request[c].op = "store" THEN request[c].value ELSE Nothing

WriteVector(c) ==
    /\ pc[c] = "vector"
    /\ Writes(c)
    /\ vector' = [vector EXCEPT ![request[c].key] = Wanted(c)]
    /\ Goto(c, "scalar")
    /\ UNCHANGED <<scalar, cache, request, seen, calls, history>>

WriteScalar(c) ==
    /\ pc[c] = "scalar"
    /\ Writes(c)
    /\ scalar' = [scalar EXCEPT ![request[c].key] = Wanted(c)]
    /\ Goto(c, "cache")
    /\ UNCHANGED <<vector, cache, request, seen, calls, history>>

\* A faulty variant, for the property to tell apart: delete leaves the cache.
WriteCacheUnlessDeleted(c) ==
    /\ pc[c] = "cache"
    /\ Writes(c)
    /\ IF request[c].op = "store"
       THEN Cache!Written(request[c].key, Pair(Wanted(c), Wanted(c)))
       ELSE UNCHANGED cache
    /\ End(c)
    /\ tangled' = IF c \in alone THEN tangled \ {request[c].key} ELSE tangled
    /\ UNCHANGED stores

\* A write that met nobody leaves its key in order, whatever was there before.
WriteCache(c) ==
    /\ pc[c] = "cache"
    /\ Writes(c)
    /\ IF request[c].op = "store"
       THEN Cache!Written(request[c].key, Pair(Wanted(c), Wanted(c)))
       ELSE Cache!Erased({request[c].key})
    /\ End(c)
    /\ tangled' = IF c \in alone THEN tangled \ {request[c].key} ELSE tangled
    /\ UNCHANGED stores

-----------------------------------------------------------------------------
\* get_hybrid returns what the cache has ...
AskCache(c) ==
    /\ pc[c] = "ask"
    /\ \E data \in Cache!Told(request[c].key) :
        IF data # Nothing
        THEN End(c)
        ELSE Goto(c, "vector") /\ UNCHANGED <<request, seen, calls, alone>>
    /\ UNCHANGED <<stores, cache, tangled>>

\* ... or reads the two stores ...
ReadVector(c) ==
    /\ pc[c] = "vector"
    /\ ~Writes(c)
    /\ seen' = [seen EXCEPT ![c] = vector[request[c].key]]
    /\ Goto(c, "scalar")
    /\ UNCHANGED <<stores, cache, request, calls, history>>

\* ... and is told "not found" if one of them has nothing ...
ReadScalar(c) ==
    LET s == scalar[request[c].key]
    IN  /\ pc[c] = "scalar"
        /\ ~Writes(c)
        /\ IF seen[c] = Nothing \/ s = Nothing
           THEN End(c)
           ELSE /\ seen' = [seen EXCEPT ![c] = Pair(seen[c], s)]
                /\ Goto(c, "cache")
                /\ UNCHANGED <<request, calls, alone>>
        /\ UNCHANGED <<stores, cache, tangled>>

\* ... or else puts the record into the cache and returns it.
FillCache(c) ==
    /\ pc[c] = "cache"
    /\ ~Writes(c)
    /\ Cache!Written(request[c].key, seen[c])
    /\ End(c)
    /\ UNCHANGED <<stores, tangled>>

-----------------------------------------------------------------------------
StoreNext ==
    \E c \in Clients :
        \/ \E r \in HybridRequests : Begin(c, r)
        \/ Abandon(c)
        \/ WriteVector(c) \/ WriteScalar(c) \/ WriteCache(c)
        \/ AskCache(c) \/ ReadVector(c) \/ ReadScalar(c) \/ FillCache(c)

StoreSpec == StoreInit /\ [][StoreNext]_storeVars

-----------------------------------------------------------------------------
\* On a key whose writes met no call and were not cut short, or were followed
\* by one that was not, the vector and the scalar are of one record, and that
\* record is all that the cache can answer and get_hybrid return, however many
\* calls of get_hybrid fill the cache at once and whatever it evicts.
UntangledKeysAgree ==
    \A k \in Keys \ tangled : Writers(k) = {} =>
        /\ vector[k] = scalar[k]
        /\ cache[k] \in {Nothing, Pair(vector[k], scalar[k])}
        /\ \A c \in On(k) : pc[c] = "cache" => seen[c] = Pair(vector[k], scalar[k])
=============================================================================
