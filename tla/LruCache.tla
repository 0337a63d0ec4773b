------------------------------ MODULE LruCache ------------------------------
(***************************************************************************)
(* LruCache of gausstwin-data/src/cache.rs: a map of entries and the        *)
(* statistics, each under a lock of its own.  Every operation awaits the    *)
(* lock of the entries and then, with it in hand, that of the statistics,   *)
(* which nobody keeps over an await.  get first sweeps out what has         *)
(* expired, lets go, and reads under a lock it shares with other readers.   *)
(*                                                                         *)
(* Despite its name put evicts any entries, the one it has just made among  *)
(* them, and nobody calls evict_lru.  A call may be dropped at any await.   *)
(* The clock is the step that makes a time to live run out.                *)
(***************************************************************************)
EXTENDS DataLayer

CONSTANT
    MaxSize         \* CacheConfig::max_size

ASSUME SetsAssumption == IsFiniteSet(Clients) /\ IsFiniteSet(Keys)
ASSUME SizesAssumption == MaxSize \in Nat
ASSUME AnswersAssumption == {"done", "pending"} \cap (Values \cup {Nothing}) = {}

VARIABLES
    kept,           \* entries: the value of each key, or Nothing
    ttl,            \* of each entry: none, still running, or over
    size,           \* stats.size
    evictions,      \* stats.evictions
    found,          \* what get has found, behind the lock
    answer,         \* what the last call returned, "pending" if it has not
    due,            \* history: entries made, less those removed or cleared
    late            \* history: gets whose entry had expired before they looked

cacheVars == <<kept, ttl, size, evictions, due>>
callVars == <<pc, request, found, answer, calls>>
vars == <<cacheVars, callVars, late>>

\* What the cache is to those who call it
Promise == INSTANCE CachePromise WITH content <- kept

\* A faulty variant, for the properties to tell apart: a get that has let go of
\* the entries when it answers.
ReadersIgnored == TRUE

Stored == { k \in Keys : kept[k] # Nothing }
Expired(k) == kept[k] # Nothing /\ ttl[k] = "over"
At(places) == { c \in Clients : pc[c] \in places }

\* The lock of the entries: one writer, or any number of readers
NoWriter == At({"sweeping", "changing"}) = {}
NoReader == At({"counting"}) = {}

-----------------------------------------------------------------------------
\* Faulty variants of put, for the properties to tell apart: one that leaves an
\* entry that is there, one that does not count what it evicts, and one that
\* evicts through evict_lru, which waits for the lock that put holds.
PutIfAbsent(c) ==
    LET r == request[c]
        new == Stored \cup {r.key}
    IN  \E out \in SUBSET new :
            /\ Cardinality(out) = IF Cardinality(new) > MaxSize
                                  THEN Cardinality(new) - MaxSize ELSE 0
            /\ kept' = [k \in Keys |-> IF k \in out THEN Nothing
                                       ELSE IF k = r.key /\ k \notin Stored
                                            THEN r.value ELSE kept[k]]
            /\ ttl' = [k \in Keys |-> IF k \in out THEN "none"
                                      ELSE IF k = r.key THEN r.ttl ELSE ttl[k]]
            /\ evictions' = evictions + Cardinality(out)
            /\ size' = Cardinality(new \ out)
            /\ due' = IF r.key \in Stored THEN due ELSE due + 1

PutUncounted(c) ==
    LET r == request[c]
        new == Stored \cup {r.key}
    IN  \E out \in SUBSET new :
            /\ Cardinality(out) = IF Cardinality(new) > MaxSize
                                  THEN Cardinality(new) - MaxSize ELSE 0
            /\ kept' = [k \in Keys |-> IF k \in out THEN Nothing
                                       ELSE IF k = r.key THEN r.value ELSE kept[k]]
            /\ ttl' = [ttl EXCEPT ![r.key] = r.ttl]
            /\ size' = Cardinality(new \ out)
            /\ due' = IF r.key \in Stored THEN due ELSE due + 1
            /\ UNCHANGED evictions

PutTwiceLocked(c) ==
    /\ NoWriter
    /\ request[c].op = "put"
    /\ UNCHANGED cacheVars

-----------------------------------------------------------------------------
Init ==
    /\ kept = [k \in Keys |-> Nothing]
    /\ ttl = [k \in Keys |-> "none"]
    /\ size = 0
    /\ evictions = 0
    /\ pc = [c \in Clients |-> "idle"]
    /\ request = [c \in Clients |-> NoRequest]
    /\ found = [c \in Clients |-> Nothing]
    /\ answer = [c \in Clients |-> Nothing]
    /\ calls = 0
    /\ due = 0
    /\ late = {}

Call(c, r) ==
    /\ pc[c] = "idle"
    /\ calls < MaxCalls
    /\ calls' = calls + 1
    /\ request' = [request EXCEPT ![c] = r]
    /\ Goto(c, IF r.op = "get" THEN "sweep" ELSE "change")
    /\ answer' = [answer EXCEPT ![c] = "pending"]
    /\ late' = IF r.op = "get" /\ ttl[r.key] = "over" THEN late \cup {c} ELSE late
    /\ UNCHANGED <<cacheVars, found>>

\* The call returns, or is dropped, and what it holds with it.
Leave(c) ==
    /\ Goto(c, "idle")
    /\ request' = [request EXCEPT ![c] = NoRequest]
    /\ found' = [found EXCEPT ![c] = Nothing]
    /\ UNCHANGED calls

Cancel(c) ==
    /\ pc[c] # "idle"
    /\ Leave(c)
    /\ late' = late \ {c}
    /\ UNCHANGED <<cacheVars, answer>>

\* Time goes on.
RunOut(k) ==
    /\ kept[k] # Nothing
    /\ ttl[k] = "running"
    /\ ttl' = [ttl EXCEPT ![k] = "over"]
    /\ late' = late \cup { c \in At({"sweep", "sweeping", "read"}) : request[c].key = k }
    /\ UNCHANGED <<kept, size, evictions, due, callVars>>

-----------------------------------------------------------------------------
\* The await of the lock of the entries, for writing
Lock(c) ==
    /\ NoWriter /\ NoReader
    /\ \/ pc[c] = "sweep" /\ Goto(c, "sweeping")
       \/ pc[c] = "change" /\ Goto(c, "changing")
    /\ UNCHANGED <<cacheVars, request, found, answer, calls, late>>

\* evict_expired()
Sweep(c) ==
    /\ pc[c] = "sweeping"
    /\ Goto(c, "read")
    /\ LET out == { k \in Keys : Expired(k) }
           n == Cardinality(out)
       IN  /\ kept' = [k \in Keys |-> IF k \in out THEN Nothing ELSE kept[k]]
           /\ ttl' = [k \in Keys |-> IF k \in out THEN "none" ELSE ttl[k]]
           /\ evictions' = evictions + n
           /\ size' = IF size > n THEN size - n ELSE 0
    /\ UNCHANGED <<due, request, found, answer, calls, late>>

\* A faulty variant: the sweep is taken to have removed all that had expired.
ReadOnce(c) ==
    /\ pc[c] = "read"
    /\ NoWriter
    /\ Goto(c, "counting")
    /\ found' = [found EXCEPT ![c] = kept[request[c].key]]
    /\ UNCHANGED <<cacheVars, request, answer, calls, late>>

\* get() looks again whether the entry has expired, finds it or not ...
Read(c) ==
    /\ pc[c] = "read"
    /\ NoWriter
    /\ Goto(c, "counting")
    /\ LET k == request[c].key
       IN  found' = [found EXCEPT ![c] = IF Expired(k) THEN Nothing ELSE kept[k]]
    /\ UNCHANGED <<cacheVars, request, answer, calls, late>>

\* ... and answers when it has counted the hit or the miss.
Answer(c) ==
    /\ pc[c] = "counting"
    /\ answer' = [answer EXCEPT ![c] = found[c]]
    /\ Leave(c)
    /\ late' = late \ {c}
    /\ UNCHANGED cacheVars

-----------------------------------------------------------------------------
\* put() inserts the entry and evicts as many as are too many.
Put(c) ==
    LET r == request[c]
        new == Stored \cup {r.key}
    IN  \E out \in SUBSET new :
            /\ Cardinality(out) = IF Cardinality(new) > MaxSize
                                  THEN Cardinality(new) - MaxSize ELSE 0
            /\ kept' = [k \in Keys |-> IF k \in out THEN Nothing
                                       ELSE IF k = r.key THEN r.value ELSE kept[k]]
            /\ ttl' = [k \in Keys |-> IF k \in out THEN "none"
                                      ELSE IF k = r.key THEN r.ttl ELSE ttl[k]]
            /\ evictions' = evictions + Cardinality(out)
            /\ size' = Cardinality(new \ out)
            /\ due' = IF r.key \in Stored THEN due ELSE due + 1

Remove(c) ==
    LET k == request[c].key
    IN  /\ kept' = [kept EXCEPT ![k] = Nothing]
        /\ ttl' = [ttl EXCEPT ![k] = "none"]
        /\ IF k \in Stored
           THEN size' = (IF size > 0 THEN size - 1 ELSE 0) /\ due' = due - 1
           ELSE UNCHANGED <<size, due>>
        /\ UNCHANGED evictions

Clear ==
    /\ kept' = [k \in Keys |-> Nothing]
    /\ ttl' = [k \in Keys |-> "none"]
    /\ size' = 0
    /\ due' = due - Cardinality(Stored)
    /\ UNCHANGED evictions

Change(c) ==
    /\ pc[c] = "changing"
    /\ Leave(c)
    /\ \/ request[c].op = "put" /\ Put(c)
       \/ request[c].op = "remove" /\ Remove(c)
       \/ request[c].op = "clear" /\ Clear
    /\ answer' = [answer EXCEPT ![c] = "done"]
    /\ late' = IF request[c].op = "put"
               THEN { d \in late : request[d].key # request[c].key } ELSE late

-----------------------------------------------------------------------------
Next ==
    \/ \E c \in Clients :
        \/ \E r \in Promise!Requests : Call(c, r)
        \/ Cancel(c)
        \/ Lock(c)
        \/ Sweep(c) \/ Read(c) \/ Answer(c)
        \/ Change(c)
    \/ \E k \in Keys : RunOut(k)

\* The lock is first come, first served, so that who waits while others take
\* turns is not passed over; the runtime goes on with who has it.
Fairness ==
    \A c \in Clients :
        /\ SF_vars(Lock(c)) /\ SF_vars(Read(c))
        /\ WF_vars(Sweep(c) \/ Answer(c) \/ Change(c))

Spec == Init /\ [][Next]_vars /\ Fairness

-----------------------------------------------------------------------------
\* The cache keeps its promise: at the moment it returns, a get is answered with
\* what was put last under the key it asked for and not taken out since, or with
\* nothing; a put, a remove and a clear have done to their own key, or to all of
\* them, what they were asked for; a call that was dropped has done nothing.
KeepsPromise == Promise!PromiseSpec

\* No get returns an entry that had expired before it looked, be it before the
\* call, before the sweep or between the two, unless the key was put again.
NothingExpired == \A c \in late : pc[c] = "counting" => found[c] = Nothing

\* The size in the statistics is that of the map, within its limit, and every
\* entry that was made and not taken out is there or was counted as evicted.
StatsAddUp ==
    /\ size = Cardinality(Stored)
    /\ size <= MaxSize
    /\ size + evictions = due

\* Every call returns: no lock is awaited by who holds it already, or in a
\* circle.
CallsReturn == \A c \in Clients : pc[c] # "idle" ~> pc[c] = "idle"
=============================================================================
