-------------------------- MODULE DataStore_proofs --------------------------
(***************************************************************************)
(* Proofs about the data layer.  LruCache, for any clients, keys, values   *)
(* and room, is a map that may forget, its statistics add up, and nothing  *)
(* expired comes back.  UnifiedStore, over any cache that is such a map,   *)
(* keeps vector, scalar and cache of one record unless calls meet.         *)
(***************************************************************************)
EXTENDS LruCache, UnifiedStore, TLAPS, FiniteSetTheorems

GetPlaces == {"sweep", "sweeping", "read", "counting"}
ChangePlaces == {"change", "changing"}
Answers == Values \cup {Nothing, "pending", "done"}

TypeOK ==
    /\ kept \in [Keys -> Values \cup {Nothing}]
    /\ ttl \in [Keys -> {"none", "running", "over"}]
    /\ size \in Nat
    /\ evictions \in Int
    /\ due \in Int
    /\ pc \in [Clients -> GetPlaces \cup ChangePlaces \cup {"idle"}]
    /\ request \in [Clients -> Promise!Requests \cup {NoRequest}]
    /\ found \in [Clients -> Values \cup {Nothing}]
    /\ answer \in [Clients -> Answers]

\* A call at a place of get is a get, one at a place of change is not, and who
\* is in no call has no request.
RightPlace ==
    \A c \in Clients :
        /\ pc[c] = "idle" => request[c] = NoRequest
        /\ pc[c] \in GetPlaces => request[c] \in Promise!Requests /\ request[c].op = "get"
        /\ pc[c] \in ChangePlaces => request[c] \in Promise!Requests /\ request[c].op # "get"

\* Who writes is alone with the entries.
Exclusion ==
    \A c, d \in Clients :
        pc[c] \in {"sweeping", "changing"} /\ pc[d] \in {"sweeping", "changing", "counting"} => c = d

\* What a reader has found is still there, or was nothing.
FoundIsKept ==
    \A c \in Clients : pc[c] = "counting" => found[c] \in {kept[request[c].key], Nothing}

\* A get that came too late finds its entry gone, or expired.
LateFindsNothing ==
    \A c \in late :
        /\ c \in Clients
        /\ pc[c] \in GetPlaces
        /\ pc[c] # "counting" => kept[request[c].key] = Nothing \/ ttl[request[c].key] = "over"
        /\ pc[c] = "counting" => found[c] = Nothing

IInv ==
    /\ TypeOK
    /\ RightPlace
    /\ Exclusion
    /\ FoundIsKept
    /\ LateFindsNothing
    /\ StatsAddUp

-----------------------------------------------------------------------------
\* What each kind of request carries
LEMMA RequestFacts ==
    ASSUME NEW r \in Promise!Requests
    PROVE  /\ r.op \in {"get", "put", "remove", "clear"}
           /\ r.op # "clear" => r.key \in Keys
           /\ r.op = "put" => r.value \in Values /\ r.ttl \in {"none", "running"}
BY DEF Promise!Requests

LEMMA InitHolds ==
    ASSUME Init
    PROVE  IInv
<1>1. TypeOK
  BY DEF Init, TypeOK, Answers
<1>2. Stored = {}
  BY DEF Init, Stored
<1>3. StatsAddUp
  BY <1>2, FS_EmptySet, SizesAssumption DEF Init, StatsAddUp
<1> QED BY <1>1, <1>3 DEF Init, IInv, RightPlace, GetPlaces, ChangePlaces, Exclusion, FoundIsKept, LateFindsNothing

\* A step that leaves the entries alone and moves one client.
LEMMA OneMoves ==
    ASSUME IInv, UNCHANGED <<kept, size, evictions, due>>,
           ttl' = ttl,
           NEW CONSTANT c \in Clients, NEW CONSTANT place, Goto(c, place),
           place \in GetPlaces \cup ChangePlaces \cup {"idle"},
           request' \in [Clients -> Promise!Requests \cup {NoRequest}],
           found' \in [Clients -> Values \cup {Nothing}],
           answer' \in [Clients -> Answers],
           \A d \in Clients \ {c} : request'[d] = request[d] /\ found'[d] = found[d],
           place = "idle" => request'[c] = NoRequest,
           place \in GetPlaces => request'[c] \in Promise!Requests /\ request'[c].op = "get",
           place \in ChangePlaces => request'[c] \in Promise!Requests /\ request'[c].op # "get",
           place \in {"sweeping", "changing"} =>
               \A d \in Clients \ {c} : pc[d] \notin {"sweeping", "changing", "counting"},
           place = "counting" =>
               /\ \A d \in Clients \ {c} : pc[d] \notin {"sweeping", "changing"}
               /\ found'[c] \in {kept[request'[c].key], Nothing},
           late' \subseteq late \cup {c},
           c \in late' =>
               /\ place \in GetPlaces
               /\ place # "counting" => kept[request'[c].key] = Nothing \/ ttl[request'[c].key] = "over"
               /\ place = "counting" => found'[c] = Nothing
    PROVE  IInv'
<1>1. /\ pc'[c] = place
      /\ \A d \in Clients \ {c} : pc'[d] = pc[d]
      /\ pc' \in [Clients -> GetPlaces \cup ChangePlaces \cup {"idle"}]
  BY DEF Goto, IInv, TypeOK
<1>2. TypeOK'
  BY <1>1 DEF IInv, TypeOK
<1>3. RightPlace'
  BY <1>1 DEF IInv, RightPlace
<1>4. Exclusion'
  BY <1>1 DEF IInv, Exclusion
<1>5. FoundIsKept'
  BY <1>1 DEF IInv, FoundIsKept
<1>6. LateFindsNothing'
  <2>1. SUFFICES ASSUME NEW d \in late', d # c
                 PROVE  /\ d \in Clients
                        /\ pc'[d] \in GetPlaces
                        /\ pc'[d] # "counting" =>
                             kept[request'[d].key] = Nothing \/ ttl[request'[d].key] = "over"
                        /\ pc'[d] = "counting" => found'[d] = Nothing
    BY <1>1 DEF LateFindsNothing
  <2>2. d \in late
    BY <2>1
  <2> QED BY <1>1, <2>1, <2>2 DEF IInv, LateFindsNothing
<1>7. StatsAddUp'
  BY DEF IInv, StatsAddUp, Stored
<1> QED BY <1>2, <1>3, <1>4, <1>5, <1>6, <1>7 DEF IInv

\* A step of the one who writes: nobody has found anything meanwhile.
LEMMA WriterMoves ==
    ASSUME IInv, NEW CONSTANT c \in Clients, pc[c] \in {"sweeping", "changing"},
           NEW CONSTANT place \in {"read", "idle"}, Goto(c, place),
           kept' \in [Keys -> Values \cup {Nothing}],
           ttl' \in [Keys -> {"none", "running", "over"}],
           evictions' \in Int, due' \in Int, size' \in Nat,
           request' \in [Clients -> Promise!Requests \cup {NoRequest}],
           found' \in [Clients -> Values \cup {Nothing}],
           answer' \in [Clients -> Answers],
           \A d \in Clients \ {c} : request'[d] = request[d] /\ found'[d] = found[d],
           place = "idle" => request'[c] = NoRequest,
           place = "read" => request'[c] \in Promise!Requests /\ request'[c].op = "get",
           late' \subseteq late, place = "idle" => c \notin late',
           \A d \in late' : kept'[request'[d].key] = Nothing \/ ttl'[request'[d].key] = "over",
           StatsAddUp'
    PROVE  IInv'
<1>1. /\ pc'[c] = place
      /\ \A d \in Clients \ {c} : pc'[d] = pc[d]
      /\ pc' \in [Clients -> GetPlaces \cup ChangePlaces \cup {"idle"}]
  BY DEF Goto, IInv, TypeOK, GetPlaces
<1>2. \A d \in Clients : pc'[d] \notin {"sweeping", "changing", "counting"}
  BY <1>1 DEF IInv, Exclusion
<1>3. TypeOK'
  BY <1>1 DEF IInv, TypeOK
<1>4. RightPlace'
  BY <1>1 DEF IInv, RightPlace, GetPlaces, ChangePlaces
<1>5. Exclusion' /\ FoundIsKept'
  BY <1>2 DEF Exclusion, FoundIsKept
<1>6. LateFindsNothing'
  BY <1>1, <1>2 DEF IInv, LateFindsNothing, GetPlaces
<1> QED BY <1>3, <1>4, <1>5, <1>6 DEF IInv

-----------------------------------------------------------------------------
LEMMA CallKeeps ==
    ASSUME IInv, NEW CONSTANT c \in Clients, NEW CONSTANT r \in Promise!Requests, Call(c, r)
    PROVE  IInv'
<1> DEFINE place == IF r.op = "get" THEN "sweep" ELSE "change"
<1>1. /\ Goto(c, place)
      /\ request' = [request EXCEPT ![c] = r]
      /\ late' = IF r.op = "get" /\ ttl[r.key] = "over" THEN late \cup {c} ELSE late
      /\ answer' = [answer EXCEPT ![c] = "pending"]
      /\ UNCHANGED <<kept, ttl, size, evictions, due, found>>
      /\ pc[c] = "idle"
  BY DEF Call, cacheVars
<1>2. /\ place \in GetPlaces \cup ChangePlaces \cup {"idle"}
      /\ place \notin {"idle", "sweeping", "changing", "counting"}
      /\ place \in GetPlaces <=> r.op = "get"
      /\ place \in ChangePlaces <=> r.op # "get"
  BY DEF GetPlaces, ChangePlaces
<1>3. c \notin late
  BY <1>1 DEF IInv, LateFindsNothing, GetPlaces
<1>4. /\ request' \in [Clients -> Promise!Requests \cup {NoRequest}]
      /\ found' \in [Clients -> Values \cup {Nothing}]
      /\ answer' \in [Clients -> Answers]
      /\ request'[c] = r
      /\ \A d \in Clients \ {c} : request'[d] = request[d] /\ found'[d] = found[d]
  BY <1>1 DEF IInv, TypeOK, Answers
<1>5. late' \subseteq late \cup {c} /\ (c \in late' => r.op = "get" /\ ttl[r.key] = "over")
  BY <1>1, <1>3
<1> HIDE DEF place
<1> QED BY <1>1, <1>2, <1>4, <1>5, OneMoves

LEMMA CancelKeeps ==
    ASSUME IInv, NEW CONSTANT c \in Clients, Cancel(c)
    PROVE  IInv'
<1>1. /\ Goto(c, "idle")
      /\ request' = [request EXCEPT ![c] = NoRequest]
      /\ found' = [found EXCEPT ![c] = Nothing]
      /\ UNCHANGED <<kept, ttl, size, evictions, due, answer>>
      /\ late' = late \ {c}
  BY DEF Cancel, Leave, cacheVars
<1>2. /\ request' \in [Clients -> Promise!Requests \cup {NoRequest}]
      /\ found' \in [Clients -> Values \cup {Nothing}]
      /\ answer' \in [Clients -> Answers]
      /\ request'[c] = NoRequest
      /\ \A d \in Clients \ {c} : request'[d] = request[d] /\ found'[d] = found[d]
  BY <1>1 DEF IInv, TypeOK, Answers
<1>3. "idle" \notin GetPlaces /\ "idle" \notin ChangePlaces
  BY DEF GetPlaces, ChangePlaces
<1> QED BY <1>1, <1>2, <1>3, OneMoves

LEMMA LockKeeps ==
    ASSUME IInv, NEW CONSTANT c \in Clients, Lock(c)
    PROVE  IInv'
<1>1. PICK place \in {"sweeping", "changing"} :
        /\ Goto(c, place)
        /\ place = "sweeping" => pc[c] = "sweep"
        /\ place = "changing" => pc[c] = "change"
  BY DEF Lock
<1>2. /\ UNCHANGED <<kept, ttl, size, evictions, due, request, found, answer, late>>
      /\ \A d \in Clients : pc[d] \notin {"sweeping", "changing", "counting"}
  BY DEF Lock, cacheVars, NoWriter, NoReader, At
<1>3. /\ request' \in [Clients -> Promise!Requests \cup {NoRequest}]
      /\ found' \in [Clients -> Values \cup {Nothing}]
      /\ answer' \in [Clients -> Answers]
      /\ \A d \in Clients \ {c} : request'[d] = request[d] /\ found'[d] = found[d]
  BY <1>2 DEF IInv, TypeOK
<1>4. /\ place \in GetPlaces \cup ChangePlaces \cup {"idle"}
      /\ place # "counting" /\ place # "idle"
      /\ place \in GetPlaces => pc[c] \in GetPlaces /\ pc[c] # "counting"
      /\ place \in ChangePlaces => pc[c] \in ChangePlaces
  BY <1>1 DEF GetPlaces, ChangePlaces
<1>5. /\ place \in GetPlaces => request'[c] \in Promise!Requests /\ request'[c].op = "get"
      /\ place \in ChangePlaces => request'[c] \in Promise!Requests /\ request'[c].op # "get"
  BY <1>2, <1>4 DEF IInv, RightPlace
<1>6. c \in late' => /\ place \in GetPlaces
                     /\ kept[request'[c].key] = Nothing \/ ttl[request'[c].key] = "over"
  BY <1>1, <1>2 DEF IInv, LateFindsNothing, GetPlaces
<1>7. late' \subseteq late \cup {c}
  BY <1>2
<1> QED BY <1>1, <1>2, <1>3, <1>4, <1>5, <1>6, <1>7, OneMoves

LEMMA ReadKeeps ==
    ASSUME IInv, NEW CONSTANT c \in Clients, Read(c)
    PROVE  IInv'
<1> DEFINE k == request[c].key
           v == IF Expired(k) THEN Nothing ELSE kept[k]
<1>1. /\ Goto(c, "counting")
      /\ found' = [found EXCEPT ![c] = v]
      /\ UNCHANGED <<kept, ttl, size, evictions, due, request, answer, late>>
      /\ pc[c] = "read"
      /\ \A d \in Clients : pc[d] \notin {"sweeping", "changing"}
  BY DEF Read, cacheVars, NoWriter, At
<1>2. request[c] \in Promise!Requests /\ request[c].op = "get" /\ k \in Keys
  <2>1. request[c] \in Promise!Requests /\ request[c].op = "get"
    BY <1>1 DEF IInv, RightPlace, GetPlaces
  <2> QED BY <2>1, RequestFacts
<1>3. v \in {kept[k], Nothing} /\ v \in Values \cup {Nothing}
  BY <1>2 DEF IInv, TypeOK
<1>4. c \in late => v = Nothing
  BY <1>1 DEF IInv, LateFindsNothing, Expired
<1> HIDE DEF v
<1>5. /\ request' \in [Clients -> Promise!Requests \cup {NoRequest}]
      /\ found' \in [Clients -> Values \cup {Nothing}]
      /\ answer' \in [Clients -> Answers]
      /\ found'[c] = v
      /\ \A d \in Clients \ {c} : request'[d] = request[d] /\ found'[d] = found[d]
  BY <1>1, <1>3 DEF IInv, TypeOK
<1>6. "counting" \in GetPlaces /\ "counting" \notin ChangePlaces
  BY DEF GetPlaces, ChangePlaces
<1> QED BY <1>1, <1>2, <1>3, <1>4, <1>5, <1>6, OneMoves

LEMMA AnswerKeeps ==
    ASSUME IInv, NEW CONSTANT c \in Clients, Answer(c)
    PROVE  IInv'
<1>1. /\ Goto(c, "idle")
      /\ request' = [request EXCEPT ![c] = NoRequest]
      /\ found' = [found EXCEPT ![c] = Nothing]
      /\ answer' = [answer EXCEPT ![c] = found[c]]
      /\ UNCHANGED <<kept, ttl, size, evictions, due>>
      /\ late' = late \ {c}
  BY DEF Answer, Leave, cacheVars
<1>2. /\ request' \in [Clients -> Promise!Requests \cup {NoRequest}]
      /\ found' \in [Clients -> Values \cup {Nothing}]
      /\ answer' \in [Clients -> Answers]
      /\ request'[c] = NoRequest
      /\ \A d \in Clients \ {c} : request'[d] = request[d] /\ found'[d] = found[d]
  BY <1>1 DEF IInv, TypeOK, Answers
<1>3. "idle" \notin GetPlaces /\ "idle" \notin ChangePlaces
  BY DEF GetPlaces, ChangePlaces
<1> QED BY <1>1, <1>2, <1>3, OneMoves

LEMMA RunOutKeeps ==
    ASSUME IInv, NEW CONSTANT k \in Keys, RunOut(k)
    PROVE  IInv'
<1>1. /\ ttl' = [ttl EXCEPT ![k] = "over"]
      /\ kept[k] # Nothing /\ ttl[k] = "running"
      /\ late' = late \cup { c \in Clients : pc[c] \in {"sweep", "sweeping", "read"}
                                            /\ request[c].key = k }
      /\ UNCHANGED <<kept, size, evictions, due, pc, request, found, answer>>
  BY DEF RunOut, callVars, At
<1>2. TypeOK'
  BY <1>1 DEF IInv, TypeOK
<1>3. RightPlace' /\ Exclusion' /\ FoundIsKept'
  BY <1>1 DEF IInv, RightPlace, Exclusion, FoundIsKept
<1>4. LateFindsNothing'
  <2>1. ASSUME NEW d \in late
        PROVE  /\ d \in Clients
               /\ pc[d] \in GetPlaces
               /\ pc[d] # "counting" => kept[request[d].key] = Nothing \/ ttl'[request[d].key] = "over"
               /\ pc[d] = "counting" => found[d] = Nothing
    BY <1>1 DEF IInv, TypeOK, LateFindsNothing
  <2>2. ASSUME NEW d \in Clients, pc[d] \in {"sweep", "sweeping", "read"}, request[d].key = k
        PROVE  pc[d] \in GetPlaces /\ pc[d] # "counting" /\ ttl'[request[d].key] = "over"
    BY <1>1, <2>2 DEF IInv, TypeOK, GetPlaces
  <2> QED BY <1>1, <2>1, <2>2 DEF LateFindsNothing
<1>5. StatsAddUp'
  BY <1>1 DEF IInv, StatsAddUp, Stored
<1> QED BY <1>2, <1>3, <1>4, <1>5 DEF IInv

-----------------------------------------------------------------------------
\* Taking some keys out of a finite set
LEMMA TakeOut ==
    ASSUME NEW S, IsFiniteSet(S), NEW out \in SUBSET S
    PROVE  /\ Cardinality(S) \in Nat /\ Cardinality(out) \in Nat
           /\ Cardinality(out) <= Cardinality(S)
           /\ Cardinality(S \ out) = Cardinality(S) - Cardinality(out)
<1>1. S \cap out = out
  OBVIOUS
<1>2. IsFiniteSet(out) /\ Cardinality(out) <= Cardinality(S)
  BY FS_Subset
<1>3. Cardinality(S \ out) = Cardinality(S) - Cardinality(out)
  BY <1>1, FS_Difference
<1> QED BY <1>2, <1>3, FS_CardinalityType

LEMMA StoredFinite ==
    IsFiniteSet(Stored) /\ Cardinality(Stored) \in Nat
<1>1. Stored \in SUBSET Keys
  BY DEF Stored
<1> QED BY <1>1, SetsAssumption, FS_Subset, FS_CardinalityType

LEMMA SweepKeeps ==
    ASSUME IInv, NEW CONSTANT c \in Clients, Sweep(c)
    PROVE  IInv'
<1> DEFINE out == { k \in Keys : Expired(k) }
           n == Cardinality(out)
<1>1. /\ pc[c] = "sweeping"
      /\ Goto(c, "read")
      /\ kept' = [k \in Keys |-> IF k \in out THEN Nothing ELSE kept[k]]
      /\ ttl' = [k \in Keys |-> IF k \in out THEN "none" ELSE ttl[k]]
      /\ evictions' = evictions + n
      /\ size' = IF size > n THEN size - n ELSE 0
      /\ UNCHANGED <<due, request, found, answer, late>>
  BY DEF Sweep
<1>2. out \in SUBSET Stored /\ out \in SUBSET Keys
  BY DEF Expired, Stored
<1>3. Stored' = Stored \ out
  BY <1>1 DEF Stored
<1>4. /\ Cardinality(Stored) \in Nat /\ n \in Nat /\ n <= Cardinality(Stored)
      /\ Cardinality(Stored \ out) = Cardinality(Stored) - n
  BY <1>2, StoredFinite, TakeOut
<1>5. /\ kept' \in [Keys -> Values \cup {Nothing}]
      /\ ttl' \in [Keys -> {"none", "running", "over"}]
  BY <1>1 DEF IInv, TypeOK
<1>6. /\ request' \in [Clients -> Promise!Requests \cup {NoRequest}]
      /\ found' \in [Clients -> Values \cup {Nothing}]
      /\ \A d \in Clients \ {c} : request'[d] = request[d] /\ found'[d] = found[d]
      /\ answer' \in [Clients -> Answers]
      /\ late' \subseteq late
  BY <1>1 DEF IInv, TypeOK
<1>7. request'[c] \in Promise!Requests /\ request'[c].op = "get"
  BY <1>1 DEF IInv, RightPlace, GetPlaces
<1>8. \A d \in late' : kept'[request'[d].key] = Nothing \/ ttl'[request'[d].key] = "over"
  <2>1. SUFFICES ASSUME NEW d \in late
                 PROVE  kept'[request[d].key] = Nothing \/ ttl'[request[d].key] = "over"
    BY <1>1
  <2>2. d \in Clients /\ pc[d] \in GetPlaces
    BY DEF IInv, LateFindsNothing
  <2>3. pc[d] # "counting"
    BY <1>1, <2>2 DEF IInv, Exclusion
  <2>4. request[d].key \in Keys
    BY <2>2, RequestFacts DEF IInv, RightPlace
  <2>5. kept[request[d].key] = Nothing \/ ttl[request[d].key] = "over"
    BY <2>3 DEF IInv, LateFindsNothing
  <2> QED BY <1>1, <2>4, <2>5 DEF Expired
<1> HIDE DEF n, out
<1>9. /\ size = Cardinality(Stored) /\ size <= MaxSize /\ size + evictions = due
      /\ size \in Nat /\ evictions \in Int /\ due \in Int
  BY DEF IInv, StatsAddUp, TypeOK
<1>10. /\ size' = Cardinality(Stored') /\ size' <= MaxSize /\ size' + evictions' = due'
       /\ size' \in Nat /\ evictions' \in Int /\ due' \in Int
  BY <1>1, <1>3, <1>4, <1>9, SizesAssumption
<1>11. StatsAddUp'
  BY <1>10 DEF StatsAddUp
<1> QED BY <1>1, <1>5, <1>6, <1>7, <1>8, <1>10, <1>11, WriterMoves

-----------------------------------------------------------------------------
\* What a change does to the entries and the statistics
LEMMA PutCounts ==
    ASSUME IInv, NEW CONSTANT c \in Clients, Put(c),
           request[c] \in Promise!Requests, request[c].op = "put"
    PROVE  /\ kept' \in [Keys -> Values \cup {Nothing}]
           /\ ttl' \in [Keys -> {"none", "running", "over"}]
           /\ evictions' \in Int /\ due' \in Int /\ size' \in Nat
           /\ StatsAddUp'
           /\ \A k \in Keys : k # request[c].key =>
                  kept'[k] = Nothing \/ (kept'[k] = kept[k] /\ ttl'[k] = ttl[k])
<1> DEFINE r == request[c]
           new == Stored \cup {r.key}
<1>1. r.key \in Keys /\ r.value \in Values /\ r.ttl \in {"none", "running"}
  BY RequestFacts
<1>2. PICK out \in SUBSET new :
         /\ Cardinality(out) = IF Cardinality(new) > MaxSize
                               THEN Cardinality(new) - MaxSize ELSE 0
         /\ kept' = [k \in Keys |-> IF k \in out THEN Nothing
                                    ELSE IF k = r.key THEN r.value ELSE kept[k]]
         /\ ttl' = [k \in Keys |-> IF k \in out THEN "none"
                                   ELSE IF k = r.key THEN r.ttl ELSE ttl[k]]
         /\ evictions' = evictions + Cardinality(out)
         /\ size' = Cardinality(new \ out)
         /\ due' = IF r.key \in Stored THEN due ELSE due + 1
  BY DEF Put
<1>3. kept' \in [Keys -> Values \cup {Nothing}] /\ ttl' \in [Keys -> {"none", "running", "over"}]
  BY <1>1, <1>2 DEF IInv, TypeOK
<1>4. Stored' = new \ out
  BY <1>1, <1>2, ValuesAssumption DEF Stored
<1>5. /\ IsFiniteSet(new)
      /\ Cardinality(new) = IF r.key \in Stored THEN Cardinality(Stored) ELSE Cardinality(Stored) + 1
  BY StoredFinite, FS_AddElement
<1>6. /\ Cardinality(new) \in Nat /\ Cardinality(out) \in Nat
      /\ Cardinality(out) <= Cardinality(new)
      /\ Cardinality(new \ out) = Cardinality(new) - Cardinality(out)
  BY <1>5, TakeOut
<1>7. \A k \in Keys : k # r.key =>
          kept'[k] = Nothing \/ (kept'[k] = kept[k] /\ ttl'[k] = ttl[k])
  BY <1>2
<1>8. /\ size = Cardinality(Stored) /\ size + evictions = due
      /\ size \in Nat /\ evictions \in Int /\ due \in Int
  BY DEF IInv, StatsAddUp, TypeOK
<1> HIDE DEF new, r
<1>9. /\ size' = Cardinality(Stored') /\ size' <= MaxSize /\ size' + evictions' = due'
      /\ size' \in Nat /\ evictions' \in Int /\ due' \in Int
  BY <1>2, <1>4, <1>5, <1>6, <1>8, SizesAssumption
<1>10. StatsAddUp'
  BY <1>9 DEF StatsAddUp
<1> QED BY <1>3, <1>7, <1>9, <1>10 DEF r

LEMMA RemoveCounts ==
    ASSUME IInv, NEW CONSTANT c \in Clients, Remove(c),
           request[c] \in Promise!Requests, request[c].op = "remove"
    PROVE  /\ kept' \in [Keys -> Values \cup {Nothing}]
           /\ ttl' \in [Keys -> {"none", "running", "over"}]
           /\ evictions' \in Int /\ due' \in Int /\ size' \in Nat
           /\ StatsAddUp'
           /\ \A k \in Keys :
                  kept'[k] = Nothing \/ (kept'[k] = kept[k] /\ ttl'[k] = ttl[k])
<1> DEFINE k == request[c].key
<1>1. k \in Keys
  BY RequestFacts
<1>2. /\ kept' = [kept EXCEPT ![k] = Nothing]
      /\ ttl' = [ttl EXCEPT ![k] = "none"]
      /\ IF k \in Stored
         THEN size' = (IF size > 0 THEN size - 1 ELSE 0) /\ due' = due - 1
         ELSE size' = size /\ due' = due
      /\ evictions' = evictions
  BY DEF Remove
<1>3. kept' \in [Keys -> Values \cup {Nothing}] /\ ttl' \in [Keys -> {"none", "running", "over"}]
  BY <1>2 DEF IInv, TypeOK
<1>4. Stored' = Stored \ {k}
  BY <1>1, <1>2 DEF IInv, TypeOK, Stored
<1>5. Cardinality(Stored') = IF k \in Stored THEN Cardinality(Stored) - 1 ELSE Cardinality(Stored)
  BY <1>4, StoredFinite, FS_RemoveElement
<1>6. Cardinality(Stored) = 0 => k \notin Stored
  BY StoredFinite, FS_EmptySet
<1>7. \A j \in Keys : kept'[j] = Nothing \/ (kept'[j] = kept[j] /\ ttl'[j] = ttl[j])
  BY <1>2 DEF IInv, TypeOK
<1>8. /\ size = Cardinality(Stored) /\ size <= MaxSize /\ size + evictions = due
      /\ size \in Nat /\ evictions \in Int /\ due \in Int
  BY DEF IInv, StatsAddUp, TypeOK
<1> HIDE DEF k
<1>9. /\ size' = Cardinality(Stored') /\ size' <= MaxSize /\ size' + evictions' = due'
      /\ size' \in Nat /\ evictions' \in Int /\ due' \in Int
  BY <1>2, <1>5, <1>6, <1>8, SizesAssumption
<1>10. StatsAddUp'
  BY <1>9 DEF StatsAddUp
<1> QED BY <1>3, <1>7, <1>9, <1>10

LEMMA ClearCounts ==
    ASSUME IInv, Clear
    PROVE  /\ kept' \in [Keys -> Values \cup {Nothing}]
           /\ ttl' \in [Keys -> {"none", "running", "over"}]
           /\ evictions' \in Int /\ due' \in Int /\ size' \in Nat
           /\ StatsAddUp'
           /\ \A k \in Keys : kept'[k] = Nothing
<1>1. /\ kept' = [k \in Keys |-> Nothing]
      /\ ttl' = [k \in Keys |-> "none"]
      /\ size' = 0
      /\ due' = due - Cardinality(Stored)
      /\ evictions' = evictions
  BY DEF Clear
<1>2. Stored' = {}
  BY <1>1 DEF Stored
<1>3. Cardinality(Stored') = 0
  BY <1>2, FS_EmptySet
<1>4. /\ size = Cardinality(Stored) /\ size + evictions = due
      /\ size \in Nat /\ evictions \in Int /\ due \in Int
  BY DEF IInv, StatsAddUp, TypeOK
<1>5. /\ size' = Cardinality(Stored') /\ size' <= MaxSize /\ size' + evictions' = due'
      /\ size' \in Nat /\ evictions' \in Int /\ due' \in Int
  BY <1>1, <1>3, <1>4, SizesAssumption
<1>6. StatsAddUp'
  BY <1>5 DEF StatsAddUp
<1> QED BY <1>1, <1>5, <1>6

LEMMA ChangeKeeps ==
    ASSUME IInv, NEW CONSTANT c \in Clients, Change(c)
    PROVE  IInv'
<1>1. /\ pc[c] = "changing"
      /\ Goto(c, "idle")
      /\ request' = [request EXCEPT ![c] = NoRequest]
      /\ found' = [found EXCEPT ![c] = Nothing]
      /\ late' = IF request[c].op = "put"
                 THEN { d \in late : request[d].key # request[c].key } ELSE late
      /\ answer' = [answer EXCEPT ![c] = "done"]
      /\ \/ request[c].op = "put" /\ Put(c)
         \/ request[c].op = "remove" /\ Remove(c)
         \/ request[c].op = "clear" /\ Clear
  BY DEF Change, Leave
<1>2. request[c] \in Promise!Requests
  BY <1>1 DEF IInv, RightPlace, ChangePlaces
<1>3. /\ kept' \in [Keys -> Values \cup {Nothing}]
      /\ ttl' \in [Keys -> {"none", "running", "over"}]
      /\ evictions' \in Int /\ due' \in Int /\ size' \in Nat
      /\ StatsAddUp'
      /\ \A k \in Keys : (request[c].op = "put" /\ k = request[c].key)
                         \/ kept'[k] = Nothing
                         \/ (kept'[k] = kept[k] /\ ttl'[k] = ttl[k])
  BY <1>1, <1>2, PutCounts, RemoveCounts, ClearCounts
<1>4. /\ request' \in [Clients -> Promise!Requests \cup {NoRequest}]
      /\ found' \in [Clients -> Values \cup {Nothing}]
      /\ answer' \in [Clients -> Answers]
      /\ request'[c] = NoRequest
      /\ \A d \in Clients \ {c} : request'[d] = request[d] /\ found'[d] = found[d]
      /\ late' \subseteq late
  BY <1>1 DEF IInv, TypeOK, Answers
<1>5. c \notin late
  BY <1>1 DEF IInv, LateFindsNothing, GetPlaces
<1>6. \A d \in late' : kept'[request'[d].key] = Nothing \/ ttl'[request'[d].key] = "over"
  <2>1. SUFFICES ASSUME NEW d \in late'
                 PROVE  kept'[request'[d].key] = Nothing \/ ttl'[request'[d].key] = "over"
    OBVIOUS
  <2>2. d \in late /\ d # c /\ d \in Clients /\ pc[d] \in GetPlaces
    BY <1>4, <1>5 DEF IInv, LateFindsNothing
  <2>3. pc[d] # "counting"
    BY <1>1, <2>2 DEF IInv, Exclusion
  <2>4. request'[d] = request[d] /\ request[d].key \in Keys
    BY <1>4, <2>2, RequestFacts DEF IInv, RightPlace
  <2>5. kept[request[d].key] = Nothing \/ ttl[request[d].key] = "over"
    BY <2>2, <2>3 DEF IInv, LateFindsNothing
  <2>6. ~ (request[c].op = "put" /\ request[d].key = request[c].key)
    BY <1>1, <2>1
  <2> QED BY <1>3, <2>4, <2>5, <2>6
<1> QED BY <1>1, <1>3, <1>4, <1>5, <1>6, WriterMoves

LEMMA StepHolds ==
    ASSUME IInv, [Next]_vars
    PROVE  IInv'
<1>1. CASE UNCHANGED vars
  BY <1>1 DEF vars, cacheVars, callVars, IInv, TypeOK, RightPlace, Exclusion,
              FoundIsKept, LateFindsNothing, StatsAddUp, Stored
<1>2. ASSUME NEW c \in Clients, NEW r \in Promise!Requests, Call(c, r) PROVE IInv'
  BY <1>2, CallKeeps
<1>3. ASSUME NEW c \in Clients, Cancel(c) PROVE IInv'
  BY <1>3, CancelKeeps
<1>4. ASSUME NEW c \in Clients, Lock(c) PROVE IInv'
  BY <1>4, LockKeeps
<1>5. ASSUME NEW c \in Clients, Sweep(c) PROVE IInv'
  BY <1>5, SweepKeeps
<1>6. ASSUME NEW c \in Clients, Read(c) PROVE IInv'
  BY <1>6, ReadKeeps
<1>7. ASSUME NEW c \in Clients, Answer(c) PROVE IInv'
  BY <1>7, AnswerKeeps
<1>8. ASSUME NEW c \in Clients, Change(c) PROVE IInv'
  BY <1>8, ChangeKeeps
<1>9. ASSUME NEW k \in Keys, RunOut(k) PROVE IInv'
  BY <1>9, RunOutKeeps
<1> QED BY <1>1, <1>2, <1>3, <1>4, <1>5, <1>6, <1>7, <1>8, <1>9 DEF Next

-----------------------------------------------------------------------------
\* In every reachable state each value has its type, each client is where its
\* request belongs, a writer is alone, what a reader has found is still there,
\* and the statistics add up, whatever calls are made, dropped or overlap.
THEOREM Invariance ==
    Spec => []IInv
<1>1. Init => IInv
  BY InitHolds
<1>2. IInv /\ [Next]_vars => IInv'
  BY StepHolds
<1> QED BY <1>1, <1>2, PTL DEF Spec

\* The size in the statistics is always that of the map and within its limit,
\* and every entry that was made and not taken out is there or was counted as
\* evicted, by put or by the sweep of get.
THEOREM StatisticsAddUp ==
    Spec => []StatsAddUp
<1>1. IInv => StatsAddUp
  BY DEF IInv
<1> QED BY <1>1, Invariance, PTL

\* No get finds an entry that had expired when it was called, though it lets go
\* of the entries between the sweep and the look.
THEOREM NothingExpiredIsFound ==
    Spec => []NothingExpired
<1>1. IInv => NothingExpired
  BY DEF IInv, LateFindsNothing, NothingExpired
<1> QED BY <1>1, Invariance, PTL

-----------------------------------------------------------------------------
\* What each call that returns is to the one who made it
LEMMA ChangeIsPromised ==
    ASSUME IInv, NEW CONSTANT c \in Clients, Change(c)
    PROVE  Promise!Next
<1>1. /\ pc[c] = "changing"
      /\ Promise!Returns(c, "done")
      /\ \/ request[c].op = "put" /\ Put(c)
         \/ request[c].op = "remove" /\ Remove(c)
         \/ request[c].op = "clear" /\ Clear
  BY DEF Change, Leave, Promise!Returns
<1>2. request[c] \in Promise!Requests
  BY <1>1 DEF IInv, RightPlace, ChangePlaces
<1>3. kept \in [Keys -> Values \cup {Nothing}] /\ kept' \in [Keys -> Values \cup {Nothing}]
  BY <1>1, <1>2, PutCounts, RemoveCounts, ClearCounts DEF IInv, TypeOK
<1>4. CASE request[c].op = "put"
  <2> DEFINE k == request[c].key
             v == request[c].value
  <2>1. k \in Keys /\ v \in Values
    BY <1>2, <1>4, RequestFacts
  <2>2. PICK out : kept' = [j \in Keys |-> IF j \in out THEN Nothing
                                           ELSE IF j = k THEN v ELSE kept[j]]
    BY <1>1, <1>4 DEF Put
  <2>3. \A j \in Keys : kept'[j] \in {[kept EXCEPT ![k] = v][j], Nothing}
    BY <1>3, <2>2
  <2>4. Promise!Written(k, v)
    BY <1>3, <2>3 DEF Promise!Written, Promise!Becomes
  <2>5. Promise!ReturnPut(c)
    BY <1>1, <1>4, <2>4 DEF Promise!ReturnPut
  <2> QED BY <2>5 DEF Promise!Next
<1>5. CASE request[c].op = "remove"
  <2> DEFINE k == request[c].key
  <2>1. k \in Keys
    BY <1>2, <1>5, RequestFacts
  <2>2. kept' = [kept EXCEPT ![k] = Nothing]
    BY <1>1, <1>5 DEF Remove
  <2>3. \A j \in Keys :
          kept'[j] \in {[i \in Keys |-> IF i \in {k} THEN Nothing ELSE kept[i]][j], Nothing}
    BY <1>3, <2>2
  <2>4. Promise!Erased({k})
    BY <1>3, <2>3 DEF Promise!Erased, Promise!Becomes
  <2>5. Promise!ReturnRemove(c)
    BY <1>1, <1>5, <2>4 DEF Promise!ReturnRemove
  <2> QED BY <2>5 DEF Promise!Next
<1>6. CASE request[c].op = "clear"
  <2>1. kept' = [k \in Keys |-> Nothing]
    BY <1>1, <1>6 DEF Clear
  <2>2. Promise!Erased(Keys)
    BY <1>3, <2>1 DEF Promise!Erased, Promise!Becomes
  <2>3. Promise!ReturnClear(c)
    BY <1>1, <1>6, <2>2 DEF Promise!ReturnClear
  <2> QED BY <2>3 DEF Promise!Next
<1> QED BY <1>1, <1>4, <1>5, <1>6

LEMMA AnswerIsPromised ==
    ASSUME IInv, NEW CONSTANT c \in Clients, Answer(c)
    PROVE  Promise!ReturnGet(c)
<1>1. /\ pc[c] = "counting"
      /\ Promise!Returns(c, found[c])
      /\ UNCHANGED kept
  BY DEF Answer, Leave, cacheVars, Promise!Returns
<1>2. request[c].op = "get"
  BY <1>1 DEF IInv, RightPlace, GetPlaces
<1>3. found[c] \in Promise!Told(request[c].key)
  BY <1>1 DEF IInv, FoundIsKept, Promise!Told
<1> QED BY <1>1, <1>2, <1>3 DEF Promise!ReturnGet

\* Every step of the cache is one that its callers were promised, or none.
LEMMA StepIsPromised ==
    ASSUME IInv, [Next]_vars
    PROVE  [Promise!Next]_(Promise!vars)
<1>1. CASE UNCHANGED vars
  BY <1>1 DEF vars, cacheVars, callVars, Promise!vars
<1>2. ASSUME NEW c \in Clients, NEW r \in Promise!Requests, Call(c, r)
      PROVE  Promise!Next
  <2>1. request[c] = NoRequest
    BY <1>2 DEF Call, IInv, RightPlace
  <2>2. Promise!Call(c, r)
    BY <1>2, <2>1 DEF Call, cacheVars, Promise!Call
  <2> QED BY <2>2 DEF Promise!Next
<1>3. ASSUME NEW c \in Clients, Cancel(c)
      PROVE  Promise!Next
  <2>1. request[c] \in Promise!Requests
    BY <1>3 DEF Cancel, IInv, TypeOK, RightPlace
  <2>2. request[c] # NoRequest
    BY <2>1, RequestFacts DEF NoRequest
  <2>3. Promise!Drop(c)
    BY <1>3, <2>2 DEF Cancel, Leave, cacheVars, Promise!Drop
  <2> QED BY <2>3 DEF Promise!Next
<1>4. ASSUME NEW c \in Clients, Lock(c) \/ Read(c)
      PROVE  UNCHANGED Promise!vars
  BY <1>4 DEF Lock, Read, cacheVars, Promise!vars
<1>5. ASSUME NEW k \in Keys, RunOut(k)
      PROVE  UNCHANGED Promise!vars
  BY <1>5 DEF RunOut, callVars, Promise!vars
<1>6. ASSUME NEW c \in Clients, Sweep(c)
      PROVE  Promise!Next
  <2> DEFINE out == { k \in Keys : Expired(k) }
  <2>1. /\ kept' = [k \in Keys |-> IF k \in out THEN Nothing ELSE kept[k]]
        /\ UNCHANGED <<request, answer>>
    BY <1>6 DEF Sweep
  <2>2. Promise!Becomes(kept)
    BY <2>1 DEF Promise!Becomes, IInv, TypeOK
  <2>3. Promise!Forget
    BY <2>1, <2>2 DEF Promise!Forget
  <2> QED BY <2>3 DEF Promise!Next
<1>7. ASSUME NEW c \in Clients, Answer(c)
      PROVE  Promise!Next
  BY <1>7, AnswerIsPromised DEF Promise!Next
<1>8. ASSUME NEW c \in Clients, Change(c)
      PROVE  Promise!Next
  BY <1>8, ChangeIsPromised
<1> QED BY <1>1, <1>2, <1>3, <1>4, <1>5, <1>6, <1>7, <1>8 DEF Next

\* The cache keeps its promise, call by call: at the moment it returns, a get is
\* answered with what was put last under the key it asked for and not taken out
\* since, or with nothing; a put has put its own value under its own key, a remove
\* has taken out its own key, a clear every key; a dropped call has done nothing.
THEOREM CacheKeepsPromise ==
    Spec => KeepsPromise
<1>1. Init => Promise!Init
  BY DEF Init, Promise!Init, Promise!MapInit
<1>2. IInv /\ [Next]_vars => [Promise!Next]_(Promise!vars)
  BY StepIsPromised
<1> QED BY <1>1, <1>2, Invariance, PTL DEF Spec, KeepsPromise, Promise!PromiseSpec

-----------------------------------------------------------------------------
(***************************************************************************)
(* UnifiedStore, for the same clients, keys and values, over any cache that *)
(* keeps the promise of CachePromise, as a map that may forget.             *)
(***************************************************************************)
MaybeValues == Values \cup {Nothing}
MaybeRecords == Records \cup {Nothing}

StoreTypeOK ==
    /\ vector \in [Keys -> MaybeValues]
    /\ scalar \in [Keys -> MaybeValues]
    /\ cache \in [Keys -> MaybeRecords]
    /\ pc \in [Clients -> {"idle", "ask", "vector", "scalar", "cache"}]
    /\ request \in [Clients -> HybridRequests \cup {NoRequest}]
    /\ seen \in [Clients -> MaybeValues \cup MaybeRecords]
    /\ \A c \in Clients : pc[c] # "idle" => request[c] \in HybridRequests
    /\ \A c \in Clients : pc[c] # "cache" => seen[c] \in MaybeValues
    /\ \A c \in Clients : pc[c] = "cache" /\ ~Writes(c) => seen[c] \in Records
    /\ \A c \in Clients : pc[c] = "ask" => ~Writes(c)

\* The vector, the scalar and what the cache may answer are of one record.
Agree(k) ==
    /\ vector[k] = scalar[k]
    /\ cache[k] \in {Nothing, Pair(vector[k], scalar[k])}

\* What a get has read of the key is what is there.
ReadIsCurrent(c, k) ==
    /\ pc[c] = "scalar" => seen[c] = vector[k]
    /\ pc[c] = "cache" => seen[c] = Pair(vector[k], scalar[k])

\* A write of the history variable alone is a write, and the only call on its key.
AloneIsAlone ==
    \A c \in alone :
        /\ c \in Clients /\ pc[c] # "idle" /\ Writes(c)
        /\ On(request[c].key) = {c}

\* What a write has done so far is there.
Progress(c) ==
    LET k == request[c].key
    IN  /\ pc[c] \in {"scalar", "cache"} => vector[k] = Wanted(c)
        /\ pc[c] = "cache" => scalar[k] = Wanted(c)
        /\ pc[c] = "vector" /\ k \notin tangled => Agree(k)

AloneProgress == \A c \in alone : Progress(c)

\* On a key that is not tangled a write has met no other call.
WriterIsAlone == \A k \in Keys \ tangled : Writers(k) \subseteq alone

\* Without a write, the key agrees, and so does what its readers have read.
QuietAgrees ==
    \A k \in Keys \ tangled : Writers(k) = {} =>
        /\ Agree(k)
        /\ \A c \in On(k) : ReadIsCurrent(c, k)

StoreInv == StoreTypeOK /\ AloneIsAlone /\ AloneProgress /\ WriterIsAlone /\ QuietAgrees

\* What a request is calls of
LEMMA StoreRequestFacts ==
    ASSUME NEW r \in HybridRequests
    PROVE  /\ r.key \in Keys /\ r.op \in {"get", "delete", "store"}
           /\ r.op = "store" => r.value \in Values
BY DEF HybridRequests

\* A step that takes a call to its next pc leaves who is at work on which key.
LEMMA NextPlace ==
    ASSUME StoreTypeOK, NEW c \in Clients, NEW p, p # "idle",
           pc[c] # "idle", pc' = [pc EXCEPT ![c] = p], UNCHANGED request
    PROVE  /\ \A k : On(k)' = On(k) /\ Writers(k)' = Writers(k)
           /\ \A d : Writes(d)' = Writes(d) /\ Wanted(d)' = Wanted(d)
           /\ \A d \in Clients : d # c => pc'[d] = pc[d]
           /\ pc'[c] = p
<1>1. /\ pc'[c] = p
      /\ \A d \in Clients : d # c => pc'[d] = pc[d]
  BY DEF StoreTypeOK
<1>2. \A k : On(k)' = On(k)
  BY <1>1 DEF On
<1>3. \A d : Writes(d)' = Writes(d) /\ Wanted(d)' = Wanted(d)
  BY DEF Writes, Wanted
<1> QED BY <1>1, <1>2, <1>3 DEF Writers

\* A call that returns is no longer at work on its key.
LEMMA CallLeaves ==
    ASSUME StoreTypeOK, NEW c \in Clients, End(c)
    PROVE  /\ \A k : On(k)' = On(k) \ {c}
           /\ \A k : Writers(k)' = Writers(k) \ {c}
           /\ \A d \in Clients : d # c =>
                 /\ pc'[d] = pc[d] /\ request'[d] = request[d] /\ seen'[d] = seen[d]
                 /\ Writes(d)' = Writes(d) /\ Wanted(d)' = Wanted(d)
           /\ pc'[c] = "idle" /\ seen'[c] = Nothing /\ request'[c] = NoRequest
           /\ alone' = alone \ {c}
<1>1. /\ pc' = [pc EXCEPT ![c] = "idle"]
      /\ request' = [request EXCEPT ![c] = NoRequest]
      /\ seen' = [seen EXCEPT ![c] = Nothing]
      /\ alone' = alone \ {c}
  BY DEF End, Goto
<1>2. \A d \in Clients : d # c =>
          /\ pc'[d] = pc[d] /\ request'[d] = request[d] /\ seen'[d] = seen[d]
  BY <1>1 DEF StoreTypeOK
<1>3. pc'[c] = "idle" /\ seen'[c] = Nothing /\ request'[c] = NoRequest
  BY <1>1 DEF StoreTypeOK
<1>4. \A d \in Clients : d # c =>
          /\ Writes(d)' = Writes(d) /\ Wanted(d)' = Wanted(d)
  BY <1>2 DEF Writes, Wanted
<1>5. \A k : On(k)' = On(k) \ {c}
  BY <1>2, <1>3 DEF On
<1>6. \A k : On(k) \subseteq Clients
  BY DEF On
<1>7. \A k : Writers(k)' = Writers(k) \ {c}
  BY <1>4, <1>5, <1>6 DEF Writers
<1> QED BY <1>1, <1>2, <1>3, <1>4, <1>5, <1>7

\* A key keeps its record, though the cache may forget it.
Same(k) ==
    /\ vector'[k] = vector[k] /\ scalar'[k] = scalar[k]
    /\ cache'[k] \in {cache[k], Nothing}

\* What the promise of the cache says of its changes
LEMMA CacheSame ==
    ASSUME StoreTypeOK, UNCHANGED <<vector, scalar, cache>>, NEW k
    PROVE  Same(k)
BY DEF Same

LEMMA CacheWrites ==
    ASSUME StoreTypeOK, NEW k \in Keys, NEW v, Cache!Written(k, v)
    PROVE  /\ cache' \in [Keys -> MaybeRecords]
           /\ \A j \in Keys \ {k} : cache'[j] \in {cache[j], Nothing}
           /\ cache'[k] \in {v, Nothing}
<1> DEFINE new == [cache EXCEPT ![k] = v]
<1>1. /\ cache' \in [Keys -> Records \cup {Nothing}]
      /\ \A j \in Keys : cache'[j] \in {new[j], Nothing}
  BY DEF Cache!Written, Cache!Becomes
<1>2. new[k] = v /\ \A j \in Keys \ {k} : new[j] = cache[j]
  BY DEF StoreTypeOK
<1> QED BY <1>1, <1>2 DEF MaybeRecords

LEMMA CacheErases ==
    ASSUME StoreTypeOK, NEW k \in Keys, Cache!Erased({k})
    PROVE  /\ cache' \in [Keys -> MaybeRecords]
           /\ \A j \in Keys \ {k} : cache'[j] \in {cache[j], Nothing}
           /\ cache'[k] = Nothing
<1> DEFINE new == [j \in Keys |-> IF j \in {k} THEN Nothing ELSE cache[j]]
<1>1. /\ cache' \in [Keys -> Records \cup {Nothing}]
      /\ \A j \in Keys : cache'[j] \in {new[j], Nothing}
  BY DEF Cache!Erased, Cache!Becomes
<1>2. new[k] = Nothing /\ \A j \in Keys \ {k} : new[j] = cache[j]
  OBVIOUS
<1> QED BY <1>1, <1>2 DEF MaybeRecords

LEMMA SameAgrees ==
    ASSUME NEW k, Same(k), Agree(k)
    PROVE  Agree(k)'
BY DEF Same, Agree, Pair

LEMMA ProgressStays ==
    ASSUME NEW d, Progress(d), Same(request[d].key),
           pc'[d] = pc[d], request'[d] = request[d], Wanted(d)' = Wanted(d),
           request[d].key \in tangled => request[d].key \in tangled'
    PROVE  Progress(d)'
<1>1. request'[d].key = request[d].key
  OBVIOUS
<1>2. vector'[request[d].key] = vector[request[d].key] /\ scalar'[request[d].key] = scalar[request[d].key]
  BY DEF Same
<1>3. CASE pc[d] = "vector" /\ request[d].key \notin tangled
  <2>1. Agree(request[d].key)
    BY <1>3 DEF Progress
  <2> QED BY <1>1, <1>3, <2>1 DEF Progress, Agree, Same, Pair
<1>4. CASE ~(pc[d] = "vector" /\ request[d].key \notin tangled)
  BY <1>1, <1>2, <1>4 DEF Progress
<1> QED BY <1>3, <1>4

LEMMA StoreInitHolds ==
    StoreInit => StoreInv
<1> SUFFICES ASSUME StoreInit PROVE StoreInv
  OBVIOUS
<1>1. /\ vector = [k \in Keys |-> Nothing] /\ scalar = [k \in Keys |-> Nothing]
      /\ cache = [k \in Keys |-> Nothing]
      /\ pc = [c \in Clients |-> "idle"]
      /\ request = [c \in Clients |-> NoRequest]
      /\ seen = [c \in Clients |-> Nothing]
      /\ alone = {} /\ tangled = {}
  BY DEF StoreInit, Cache!MapInit
<1>2. StoreTypeOK
  BY <1>1 DEF StoreTypeOK, MaybeValues, MaybeRecords
<1>3. \A k \in Keys : On(k) = {} /\ Writers(k) = {}
  BY <1>1 DEF On, Writers
<1>4. QuietAgrees /\ WriterIsAlone
  BY <1>1, <1>3 DEF QuietAgrees, WriterIsAlone, Agree
<1> QED BY <1>1, <1>2, <1>4 DEF StoreInv, AloneIsAlone, AloneProgress

\* A call returns, or is given up: what has to be said of its own key and of the
\* others for the invariant to go on holding.
LEMMA LeaveKeeps ==
    ASSUME StoreInv, StoreTypeOK', NEW c \in Clients, NEW k \in Keys,
           pc[c] # "idle", k = request[c].key, End(c),
           \A j \in Keys \ {k} : Same(j) /\ (j \in tangled => j \in tangled'),
           k \in tangled' \/
              IF Writes(c) THEN On(k) = {c} /\ Agree(k)'
              ELSE /\ k \notin tangled /\ vector'[k] = vector[k] /\ scalar'[k] = scalar[k]
                   /\ Writers(k) = {} /\ Agree(k) => Agree(k)'
    PROVE  StoreInv'
<1>0. StoreTypeOK /\ AloneIsAlone /\ AloneProgress /\ WriterIsAlone /\ QuietAgrees
  BY DEF StoreInv
<1>1. /\ \A j : On(j)' = On(j) \ {c}
      /\ \A j : Writers(j)' = Writers(j) \ {c}
      /\ \A d \in Clients : d # c =>
            /\ pc'[d] = pc[d] /\ request'[d] = request[d] /\ seen'[d] = seen[d]
            /\ Writes(d)' = Writes(d) /\ Wanted(d)' = Wanted(d)
      /\ alone' = alone \ {c}
  BY <1>0, CallLeaves
<1>2. c \in On(k) /\ \A j \in Keys : j # k => c \notin On(j)
  BY DEF On
<1>3. \A j \in Keys : Writers(j) \subseteq On(j)
  BY DEF Writers
<1>4. ASSUME NEW d \in alone'
      PROVE  /\ d \in alone /\ d \in Clients /\ d # c /\ pc[d] # "idle"
             /\ request[d].key \in Keys /\ request[d].key # k /\ On(request[d].key) = {d}
             /\ Writes(d)
    <2>1. d \in alone /\ d # c
      BY <1>1
    <2>2. d \in Clients /\ pc[d] # "idle" /\ Writes(d) /\ On(request[d].key) = {d}
      BY <1>0, <2>1 DEF AloneIsAlone
    <2>3. request[d].key \in Keys
      BY <1>0, <2>2, StoreRequestFacts DEF StoreTypeOK
    <2> QED BY <1>2, <2>1, <2>2, <2>3
<1>5. AloneIsAlone'
  BY <1>1, <1>4 DEF AloneIsAlone
<1>6. AloneProgress'
  <2> SUFFICES ASSUME NEW d \in alone'
               PROVE  Progress(d)'
    BY DEF AloneProgress
  <2>1. /\ pc'[d] = pc[d] /\ request'[d] = request[d] /\ Wanted(d)' = Wanted(d)
        /\ request[d].key \in Keys \ {k}
    BY <1>1, <1>4
  <2>2. Progress(d)
    BY <1>0, <1>4 DEF AloneProgress
  <2>3. Same(request[d].key) /\ (request[d].key \in tangled => request[d].key \in tangled')
    BY <2>1
  <2> QED BY <2>1, <2>2, <2>3, ProgressStays
<1>7. WriterIsAlone'
  <2> SUFFICES ASSUME NEW j \in Keys, j \notin tangled', NEW d \in Writers(j)'
               PROVE  d \in alone'
    BY DEF WriterIsAlone
  <2>1. d \in Writers(j) /\ d # c
    BY <1>1
  <2>2. j = k => j \notin tangled
    BY <1>1, <1>3, <2>1
  <2>3. j \notin tangled
    BY <2>2
  <2> QED BY <1>0, <1>1, <2>1, <2>3 DEF WriterIsAlone
<1>8. QuietAgrees'
  <2> SUFFICES ASSUME NEW j \in Keys, j \notin tangled', Writers(j)' = {}
               PROVE  Agree(j)' /\ \A d \in On(j)' : ReadIsCurrent(d, j)'
    BY DEF QuietAgrees
  <2>1. CASE j = k /\ Writes(c)
    BY <1>1, <2>1
  <2>2. CASE j # k \/ ~Writes(c)
    <3>1. Writers(j) = {}
      <4>1. c \notin Writers(j)
        BY <1>2, <1>3, <2>2 DEF Writers
      <4> QED BY <1>1, <4>1
    <3>2. j \notin tangled /\ vector'[j] = vector[j] /\ scalar'[j] = scalar[j]
      BY <2>2 DEF Same
    <3>3. Agree(j) /\ \A d \in On(j) : ReadIsCurrent(d, j)
      BY <1>0, <3>1, <3>2 DEF QuietAgrees
    <3>4. Agree(j)'
      BY <2>2, <3>1, <3>3, SameAgrees
    <3>5. ASSUME NEW d \in On(j)'
          PROVE  ReadIsCurrent(d, j)'
      <4>1. d \in On(j) /\ d # c /\ d \in Clients
        BY <1>1 DEF On
      <4>2. pc'[d] = pc[d] /\ seen'[d] = seen[d] /\ ReadIsCurrent(d, j)
        BY <1>1, <3>3, <4>1
      <4> QED BY <3>2, <4>2 DEF ReadIsCurrent, Pair
    <3> QED BY <3>4, <3>5
  <2> QED BY <2>1, <2>2
<1> QED BY <1>5, <1>6, <1>7, <1>8 DEF StoreInv

\* A call goes on to its next pc.
LEMMA MoveKeeps ==
    ASSUME StoreInv, StoreTypeOK', NEW c \in Clients, NEW k \in Keys, NEW p, p # "idle",
           pc[c] # "idle", pc' = [pc EXCEPT ![c] = p], k = request[c].key,
           UNCHANGED <<request, alone, tangled>>,
           \A d \in Clients : d # c => seen'[d] = seen[d],
           \A j \in Keys \ {k} : Same(j),
           IF Writes(c) THEN c \in alone => Progress(c)'
           ELSE Same(k) /\ (QuietAgrees /\ k \notin tangled /\ Writers(k) = {}
                               => ReadIsCurrent(c, k)')
    PROVE  StoreInv'
<1>0. StoreTypeOK /\ AloneIsAlone /\ AloneProgress /\ WriterIsAlone /\ QuietAgrees
  BY DEF StoreInv
<1>1. /\ \A j : On(j)' = On(j) /\ Writers(j)' = Writers(j)
      /\ \A d : Writes(d)' = Writes(d) /\ Wanted(d)' = Wanted(d)
      /\ \A d \in Clients : d # c => pc'[d] = pc[d]
      /\ pc'[c] = p
  BY <1>0, NextPlace
<1>2. c \in On(k) /\ \A j \in Keys : j # k => c \notin On(j)
  BY DEF On
<1>3. ASSUME NEW d \in alone
      PROVE  /\ d \in Clients /\ pc[d] # "idle" /\ Writes(d)
             /\ request[d].key \in Keys /\ On(request[d].key) = {d}
             /\ d # c => request[d].key # k
    <2>1. d \in Clients /\ pc[d] # "idle" /\ Writes(d) /\ On(request[d].key) = {d}
      BY <1>0 DEF AloneIsAlone
    <2>2. request[d].key \in Keys
      BY <1>0, <2>1, StoreRequestFacts DEF StoreTypeOK
    <2> QED BY <1>2, <2>1, <2>2
<1>4. AloneIsAlone'
  BY <1>1, <1>3 DEF AloneIsAlone
<1>5. WriterIsAlone'
  BY <1>0, <1>1 DEF WriterIsAlone
<1>6. AloneProgress'
  <2> SUFFICES ASSUME NEW d \in alone
               PROVE  Progress(d)'
    BY DEF AloneProgress
  <2>1. CASE d = c
    BY <1>3, <2>1
  <2>2. CASE d # c
    <3>1. /\ pc'[d] = pc[d] /\ request'[d] = request[d] /\ Wanted(d)' = Wanted(d)
          /\ request[d].key \in Keys \ {k} /\ tangled' = tangled
      BY <1>1, <1>3, <2>2
    <3>2. Progress(d) /\ Same(request[d].key)
      BY <1>0, <3>1 DEF AloneProgress
    <3> QED BY <3>1, <3>2, ProgressStays
  <2> QED BY <2>1, <2>2
<1>7. QuietAgrees'
  <2> SUFFICES ASSUME NEW j \in Keys, j \notin tangled, Writers(j) = {}
               PROVE  Agree(j)' /\ \A d \in On(j)' : ReadIsCurrent(d, j)'
    BY <1>1 DEF QuietAgrees
  <2>1. Agree(j) /\ \A d \in On(j) : ReadIsCurrent(d, j)
    BY <1>0 DEF QuietAgrees
  <2>2. j = k => ~Writes(c)
    BY <1>2 DEF Writers
  <2>3. Same(j)
    BY <2>2
  <2>4. vector'[j] = vector[j] /\ scalar'[j] = scalar[j]
    BY <2>3 DEF Same
  <2>5. ASSUME NEW d \in On(j)'
        PROVE  ReadIsCurrent(d, j)'
    <3>1. d \in On(j) /\ d \in Clients
      BY <1>1 DEF On
    <3>2. CASE d = c
      <4>1. j = k
        BY <1>2, <3>1, <3>2
      <4> QED BY <1>0, <2>2, <3>2, <4>1
    <3>3. CASE d # c
      <4>1. pc'[d] = pc[d] /\ seen'[d] = seen[d] /\ ReadIsCurrent(d, j)
        BY <1>1, <2>1, <3>1, <3>3
      <4> QED BY <2>4, <4>1 DEF ReadIsCurrent, Pair
    <3> QED BY <3>2, <3>3
  <2> QED BY <2>1, <2>3, <2>5, SameAgrees
<1> QED BY <1>4, <1>5, <1>6, <1>7 DEF StoreInv

\* A call begins: writes that meet it are no longer alone, and their key is tangled.
LEMMA StoreCallKeeps ==
    ASSUME StoreInv, NEW c \in Clients, NEW r \in HybridRequests, Begin(c, r)
    PROVE  StoreInv'
<1> DEFINE write == r.op # "get"
           met == { d \in On(r.key) : write \/ Writes(d) }
<1>0. StoreTypeOK /\ AloneIsAlone /\ AloneProgress /\ WriterIsAlone /\ QuietAgrees
  BY DEF StoreInv
<1>1. /\ pc[c] = "idle"
      /\ pc' = [pc EXCEPT ![c] = IF write THEN "vector" ELSE "ask"]
      /\ request' = [request EXCEPT ![c] = r]
      /\ alone' = (alone \ met) \cup (IF write /\ met = {} THEN {c} ELSE {})
      /\ tangled' = IF met = {} THEN tangled ELSE tangled \cup {r.key}
      /\ UNCHANGED <<vector, scalar, cache, seen>>
  BY Zenon DEF Begin, Goto, stores
<1>2. /\ r.key \in Keys /\ r.op \in {"get", "delete", "store"}
  BY StoreRequestFacts
<1>3. /\ \A d \in Clients : d # c => pc'[d] = pc[d] /\ request'[d] = request[d]
      /\ pc'[c] = (IF write THEN "vector" ELSE "ask") /\ request'[c] = r
  BY <1>0, <1>1 DEF StoreTypeOK
<1>4. \A d \in Clients : d # c =>
         Writes(d)' = Writes(d) /\ Wanted(d)' = Wanted(d)
  BY <1>3 DEF Writes, Wanted
<1>5. Writes(c)' = write
  BY <1>2, <1>3 DEF Writes
<1>6. \A j : On(j)' = IF j = r.key THEN On(j) \cup {c} ELSE On(j)
  BY <1>1, <1>3 DEF On
<1>7. \A j : c \notin On(j) /\ On(j) \subseteq Clients /\ Writers(j) \subseteq On(j)
  BY <1>1 DEF On, Writers
<1>8. \A j : Writers(j)' = IF j = r.key /\ write THEN Writers(j) \cup {c}
                                                      ELSE Writers(j)
  BY <1>4, <1>5, <1>6, <1>7 DEF Writers
<1>9. met = IF write THEN On(r.key) ELSE Writers(r.key)
  BY DEF Writers
<1> HIDE DEF met
<1>10. StoreTypeOK'
  BY <1>0, <1>1, <1>2, <1>3, <1>4, <1>5 DEF StoreTypeOK, MaybeValues
<1>11. ASSUME NEW d \in alone', d # c
       PROVE  /\ d \in alone /\ d \in Clients /\ pc[d] # "idle" /\ Writes(d)
              /\ On(request[d].key) = {d} /\ request[d].key # r.key /\ request[d].key \in Keys
  <2>1. d \in alone /\ d \notin met
    BY <1>1, <1>11
  <2>2. d \in Clients /\ pc[d] # "idle" /\ Writes(d) /\ On(request[d].key) = {d}
    BY <1>0, <2>1 DEF AloneIsAlone
  <2>3. request[d].key = r.key => d \in met
    BY <1>9, <2>2 DEF Writers
  <2>4. request[d].key \in Keys
    BY <1>0, <2>2, StoreRequestFacts DEF StoreTypeOK
  <2> QED BY <2>1, <2>2, <2>3, <2>4
<1>12. c \in alone' => write /\ met = {} /\ On(r.key) = {}
  <2>1. c \notin alone
    BY <1>0, <1>1 DEF AloneIsAlone
  <2> QED BY <1>1, <1>9, <2>1
<1>13. AloneIsAlone'
  <2>1. ASSUME NEW d \in alone', d # c
        PROVE  /\ d \in Clients /\ pc'[d] # "idle" /\ Writes(d)'
               /\ request'[d].key = request[d].key /\ On(request[d].key)' = {d}
    BY <1>3, <1>4, <1>6, <1>11, <2>1
  <2>2. ASSUME c \in alone'
        PROVE  /\ pc'[c] # "idle" /\ Writes(c)'
               /\ request'[c].key = r.key /\ On(r.key)' = {c}
    BY <1>3, <1>5, <1>6, <1>12, <2>2
  <2> QED BY <2>1, <2>2 DEF AloneIsAlone, On
<1>14. \A j \in Keys : j \notin tangled' => j \notin tangled /\ (j = r.key => met = {})
  BY <1>1
<1>15. AloneProgress'
  <2> SUFFICES ASSUME NEW d \in alone'
               PROVE  Progress(d)'
    BY DEF AloneProgress
  <2>1. CASE d # c
    <3>1. /\ pc'[d] = pc[d] /\ request'[d] = request[d] /\ Wanted(d)' = Wanted(d)
          /\ request[d].key \in tangled => request[d].key \in tangled'
      BY <1>1, <1>3, <1>4, <1>11, <2>1
    <3>2. Progress(d) /\ Same(request[d].key)
      BY <1>0, <1>1, <1>11, <2>1, CacheSame DEF AloneProgress
    <3> QED BY <3>1, <3>2, ProgressStays
  <2>2. CASE d = c
    <3>1. write /\ On(r.key) = {} /\ pc'[c] = "vector" /\ request'[c].key = r.key
      BY <1>3, <1>12, <2>2
    <3>2. Writers(r.key) = {}
      BY <1>7, <3>1
    <3>3. r.key \notin tangled' => Agree(r.key)
      BY <1>0, <1>2, <1>14, <3>2 DEF QuietAgrees
    <3>4. r.key \notin tangled' => Agree(r.key)'
      BY <1>1, <3>3 DEF Agree
    <3>5. request'[d].key = r.key /\ pc'[d] = "vector"
      BY <2>2, <3>1
    <3> QED BY <3>4, <3>5 DEF Progress, Agree
  <2> QED BY <2>1, <2>2
<1>16. WriterIsAlone'
  <2> SUFFICES ASSUME NEW j \in Keys, j \notin tangled', NEW d \in Writers(j)'
               PROVE  d \in alone'
    BY DEF WriterIsAlone
  <2>1. j \notin tangled /\ (j = r.key => met = {})
    BY <1>14
  <2>2. CASE d = c
    <3>1. j = r.key /\ write
      BY <1>7, <1>8, <2>2
    <3> QED BY <1>1, <2>1, <2>2, <3>1
  <2>3. CASE d # c
    <3>1. d \in Writers(j) /\ d \in alone
      BY <1>0, <1>8, <2>1, <2>3 DEF WriterIsAlone
    <3>2. d \notin met
      <4>1. j = r.key => d \notin met
        BY <2>1
      <4>2. request[d].key = j
        BY <3>1 DEF Writers, On
      <4>3. d \in met => request[d].key = r.key
        BY <1>9 DEF Writers, On
      <4> QED BY <4>1, <4>2, <4>3
    <3> QED BY <1>1, <3>1, <3>2
  <2> QED BY <2>2, <2>3
<1>17. QuietAgrees'
  <2> SUFFICES ASSUME NEW j \in Keys, j \notin tangled', Writers(j)' = {}
               PROVE  Agree(j)' /\ \A d \in On(j)' : ReadIsCurrent(d, j)'
    BY DEF QuietAgrees
  <2>1. j \notin tangled /\ Writers(j) = {}
    BY <1>8, <1>14
  <2>2. Agree(j) /\ \A d \in On(j) : ReadIsCurrent(d, j)
    BY <1>0, <2>1 DEF QuietAgrees
  <2>3. Agree(j)'
    BY <1>1, <2>2 DEF Agree
  <2>4. ASSUME NEW d \in On(j)'
        PROVE  ReadIsCurrent(d, j)'
    <3>1. CASE d = c
      BY <1>3, <3>1 DEF ReadIsCurrent
    <3>2. CASE d # c
      <4>1. d \in On(j) /\ d \in Clients
        BY <1>6, <1>7, <3>2
      <4>2. pc'[d] = pc[d] /\ ReadIsCurrent(d, j) /\ UNCHANGED <<seen, vector, scalar>>
        BY <1>1, <1>3, <2>2, <3>2, <4>1
      <4> QED BY <4>2 DEF ReadIsCurrent, Pair
    <3> QED BY <3>1, <3>2
  <2> QED BY <2>3, <2>4
<1> QED BY <1>10, <1>13, <1>15, <1>16, <1>17 DEF StoreInv

\* A call that returns leaves its record of what it did well typed.
LEMMA LeaveTyped ==
    ASSUME StoreTypeOK, NEW c \in Clients, End(c),
           vector' \in [Keys -> MaybeValues], scalar' \in [Keys -> MaybeValues],
           cache' \in [Keys -> MaybeRecords]
    PROVE  StoreTypeOK'
<1>1. /\ pc' = [pc EXCEPT ![c] = "idle"]
      /\ request' = [request EXCEPT ![c] = NoRequest]
      /\ seen' = [seen EXCEPT ![c] = Nothing]
  BY DEF End, Goto
<1>2. /\ pc' \in [Clients -> {"idle", "ask", "vector", "scalar", "cache"}]
      /\ request' \in [Clients -> HybridRequests \cup {NoRequest}]
      /\ seen' \in [Clients -> MaybeValues \cup MaybeRecords]
  BY <1>1 DEF StoreTypeOK, MaybeValues
<1>3. ASSUME NEW d \in Clients
      PROVE  /\ pc'[d] # "idle" => request'[d] \in HybridRequests
             /\ pc'[d] # "cache" => seen'[d] \in MaybeValues
             /\ pc'[d] = "cache" /\ ~Writes(d)' => seen'[d] \in Records
             /\ pc'[d] = "ask" => ~Writes(d)'
  <2>1. CASE d = c
    BY <2>1, CallLeaves DEF MaybeValues
  <2>2. CASE d # c
    BY <2>2, CallLeaves DEF StoreTypeOK
  <2> QED BY <2>1, <2>2
<1> QED BY <1>2, <1>3 DEF StoreTypeOK

\* Who is in a call has a request, for a key.
LEMMA InCall ==
    ASSUME StoreTypeOK, NEW c \in Clients, pc[c] # "idle"
    PROVE  /\ request[c] \in HybridRequests /\ request[c].key \in Keys
           /\ Wanted(c) \in MaybeValues
<1>1. request[c] \in HybridRequests
  BY DEF StoreTypeOK
<1> QED BY <1>1, StoreRequestFacts DEF Wanted, MaybeValues

LEMMA AbandonKeeps ==
    ASSUME StoreInv, NEW c \in Clients, Abandon(c)
    PROVE  StoreInv'
<1>0. StoreTypeOK /\ AloneIsAlone /\ AloneProgress /\ WriterIsAlone /\ QuietAgrees
  BY DEF StoreInv
<1>k. PICK k \in Keys : k = request[c].key /\ pc[c] # "idle"
  BY <1>0, InCall DEF Abandon
<1>1. /\ pc[c] # "idle" /\ End(c)
      /\ tangled' = IF Writes(c) /\ pc[c] # "vector" THEN tangled \cup {k} ELSE tangled
      /\ UNCHANGED <<vector, scalar, cache>>
  BY <1>k DEF Abandon, stores
<1>3. StoreTypeOK'
  BY <1>0, <1>1, LeaveTyped DEF StoreTypeOK
<1>4. \A j \in Keys : Same(j)
  BY <1>0, <1>1, CacheSame
<1>5. ASSUME k \notin tangled', Writes(c)
      PROVE  On(k) = {c} /\ Agree(k)'
  <2>1. k \notin tangled /\ pc[c] = "vector"
    BY <1>1, <1>5
  <2>2. c \in Writers(k)
    BY <1>1, <1>5, <1>k DEF Writers, On
  <2>3. c \in alone
    BY <1>0, <1>k, <2>1, <2>2 DEF WriterIsAlone
  <2>4. On(k) = {c} /\ Progress(c)
    BY <1>0, <1>k, <2>3 DEF AloneIsAlone, AloneProgress
  <2>5. Agree(k)
    BY <1>k, <2>1, <2>4 DEF Progress
  <2> QED BY <1>k, <1>4, <2>4, <2>5, SameAgrees
<1>6. ASSUME k \notin tangled', ~Writes(c)
      PROVE  /\ k \notin tangled /\ vector'[k] = vector[k] /\ scalar'[k] = scalar[k]
             /\ Agree(k) => Agree(k)'
  BY <1>1, <1>k, <1>4, <1>6, SameAgrees
<1>7. \A j \in Keys \ {k} : Same(j) /\ (j \in tangled => j \in tangled')
  BY <1>1, <1>4
<1> QED BY <1>1, <1>k, <1>3, <1>5, <1>6, <1>7, LeaveKeeps

LEMMA WriteVectorKeeps ==
    ASSUME StoreInv, NEW c \in Clients, WriteVector(c)
    PROVE  StoreInv'
<1>0. StoreTypeOK /\ AloneIsAlone /\ AloneProgress /\ WriterIsAlone /\ QuietAgrees
  BY DEF StoreInv
<1>k. PICK k \in Keys : k = request[c].key /\ pc[c] # "idle"
  BY <1>0, InCall DEF WriteVector
<1>1. /\ pc[c] = "vector" /\ Writes(c)
      /\ vector' = [vector EXCEPT ![k] = Wanted(c)]
      /\ pc' = [pc EXCEPT ![c] = "scalar"]
      /\ UNCHANGED <<scalar, cache, request, seen, alone, tangled>>
  BY <1>k DEF WriteVector, Goto, history
<1>2. Wanted(c) \in MaybeValues
  BY <1>0, <1>1, InCall
<1>3. vector'[k] = Wanted(c) /\ \A j \in Keys \ {k} : vector'[j] = vector[j]
  BY <1>0, <1>1, <1>2 DEF StoreTypeOK
<1>4. \A j \in Keys \ {k} : Same(j)
  BY <1>1, <1>3 DEF Same
<1>5. StoreTypeOK'
  <2>1. vector' \in [Keys -> MaybeValues]
    BY <1>0, <1>1, <1>2 DEF StoreTypeOK
  <2>2. pc' \in [Clients -> {"idle", "ask", "vector", "scalar", "cache"}]
    BY <1>0, <1>1 DEF StoreTypeOK
  <2>3. ASSUME NEW d \in Clients
        PROVE  /\ pc'[d] # "idle" => request[d] \in HybridRequests
               /\ pc'[d] # "cache" => seen[d] \in MaybeValues
               /\ pc'[d] = "cache" /\ ~Writes(d)' => seen[d] \in Records
               /\ pc'[d] = "ask" => ~Writes(d)'
    BY <1>0, <1>1 DEF StoreTypeOK, Writes
  <2> QED BY <1>0, <1>1, <2>1, <2>2, <2>3 DEF StoreTypeOK
<1>6. Progress(c)'
  <2>1. pc'[c] = "scalar" /\ Wanted(c)' = Wanted(c) /\ request'[c].key = k
    BY <1>0, <1>k, <1>1 DEF StoreTypeOK, Wanted
  <2> QED BY <1>3, <2>1 DEF Progress
<1> QED BY <1>k, <1>1, <1>4, <1>5, <1>6, MoveKeeps

LEMMA WriteScalarKeeps ==
    ASSUME StoreInv, NEW c \in Clients, WriteScalar(c)
    PROVE  StoreInv'
<1>0. StoreTypeOK /\ AloneIsAlone /\ AloneProgress /\ WriterIsAlone /\ QuietAgrees
  BY DEF StoreInv
<1>k. PICK k \in Keys : k = request[c].key /\ pc[c] # "idle"
  BY <1>0, InCall DEF WriteScalar
<1>1. /\ pc[c] = "scalar" /\ Writes(c)
      /\ scalar' = [scalar EXCEPT ![k] = Wanted(c)]
      /\ pc' = [pc EXCEPT ![c] = "cache"]
      /\ UNCHANGED <<vector, cache, request, seen, alone, tangled>>
  BY <1>k DEF WriteScalar, Goto, history
<1>2. Wanted(c) \in MaybeValues
  BY <1>0, <1>1, InCall
<1>3. scalar'[k] = Wanted(c) /\ \A j \in Keys \ {k} : scalar'[j] = scalar[j]
  BY <1>0, <1>1, <1>2 DEF StoreTypeOK
<1>4. \A j \in Keys \ {k} : Same(j)
  BY <1>1, <1>3 DEF Same
<1>5. StoreTypeOK'
  <2>1. scalar' \in [Keys -> MaybeValues]
    BY <1>0, <1>1, <1>2 DEF StoreTypeOK
  <2>2. pc' \in [Clients -> {"idle", "ask", "vector", "scalar", "cache"}]
    BY <1>0, <1>1 DEF StoreTypeOK
  <2>3. ASSUME NEW d \in Clients
        PROVE  /\ pc'[d] # "idle" => request[d] \in HybridRequests
               /\ pc'[d] # "cache" => seen[d] \in MaybeValues
               /\ pc'[d] = "cache" /\ ~Writes(d)' => seen[d] \in Records
               /\ pc'[d] = "ask" => ~Writes(d)'
    BY <1>0, <1>1 DEF StoreTypeOK, Writes
  <2> QED BY <1>0, <1>1, <2>1, <2>2, <2>3 DEF StoreTypeOK
<1>6. c \in alone => Progress(c)'
  <2>1. pc'[c] = "cache" /\ Wanted(c)' = Wanted(c) /\ request'[c].key = k
    BY <1>0, <1>k, <1>1 DEF StoreTypeOK, Wanted
  <2>2. c \in alone => vector[k] = Wanted(c)
    BY <1>0, <1>k, <1>1 DEF AloneProgress, Progress
  <2> QED BY <1>1, <1>3, <2>1, <2>2 DEF Progress
<1> QED BY <1>k, <1>1, <1>4, <1>5, <1>6, MoveKeeps

LEMMA WriteCacheKeeps ==
    ASSUME StoreInv, NEW c \in Clients, WriteCache(c)
    PROVE  StoreInv'
<1>0. StoreTypeOK /\ AloneIsAlone /\ AloneProgress /\ WriterIsAlone /\ QuietAgrees
  BY DEF StoreInv
<1>k. PICK k \in Keys : k = request[c].key /\ pc[c] # "idle"
  BY <1>0, InCall DEF WriteCache
<1>v. PICK v : v = Wanted(c)
  OBVIOUS
<1>1. /\ pc[c] = "cache" /\ Writes(c) /\ End(c)
      /\ IF request[c].op = "store" THEN Cache!Written(k, Pair(v, v))
                                  ELSE Cache!Erased({k})
      /\ tangled' = IF c \in alone THEN tangled \ {k} ELSE tangled
      /\ UNCHANGED <<vector, scalar>>
  BY <1>k, <1>v DEF WriteCache, stores
<1>2. request[c].op # "store" => v = Nothing
  BY <1>v DEF Wanted
<1>3. /\ cache' \in [Keys -> MaybeRecords]
      /\ \A j \in Keys \ {k} : cache'[j] \in {cache[j], Nothing}
      /\ cache'[k] \in {Pair(v, v), Nothing}
  BY <1>0, <1>1, CacheWrites, CacheErases
<1>4. StoreTypeOK'
  BY <1>0, <1>1, <1>3, LeaveTyped DEF StoreTypeOK
<1>5. \A j \in Keys \ {k} : Same(j) /\ (j \in tangled => j \in tangled')
  BY <1>1, <1>3 DEF Same
<1>6. ASSUME k \notin tangled'
      PROVE  On(k) = {c} /\ Agree(k)'
  <2>1. c \in Writers(k)
    BY <1>k, <1>1 DEF Writers, On
  <2>2. c \in alone
    BY <1>0, <1>1, <1>6, <2>1 DEF WriterIsAlone
  <2>3. On(k) = {c} /\ Progress(c)
    BY <1>0, <1>k, <2>2 DEF AloneIsAlone, AloneProgress
  <2>4. vector[k] = v /\ scalar[k] = v
    BY <1>k, <1>v, <1>1, <2>3 DEF Progress
  <2> QED BY <1>1, <1>3, <2>3, <2>4 DEF Agree, Pair
<1> QED BY <1>k, <1>1, <1>4, <1>5, <1>6, LeaveKeeps

-----------------------------------------------------------------------------
LEMMA AskCacheKeeps ==
    ASSUME StoreInv, NEW c \in Clients, AskCache(c)
    PROVE  StoreInv'
<1>0. StoreTypeOK /\ AloneIsAlone /\ AloneProgress /\ WriterIsAlone /\ QuietAgrees
  BY DEF StoreInv
<1>k. PICK k \in Keys : k = request[c].key /\ pc[c] # "idle"
  BY <1>0, InCall DEF AskCache
<1>1. /\ pc[c] = "ask" /\ UNCHANGED <<vector, scalar, cache, tangled>>
      /\ \/ End(c)
         \/ Goto(c, "vector") /\ UNCHANGED <<request, seen, alone>>
  BY <1>k DEF AskCache, stores
<1>2. \A j \in Keys : Same(j)
  BY <1>0, <1>1, CacheSame
<1>3. ~Writes(c)
  BY <1>0, <1>1 DEF StoreTypeOK
<1>4. CASE End(c)
  <2>1. StoreTypeOK'
    BY <1>0, <1>1, <1>4, LeaveTyped DEF StoreTypeOK
  <2>2. vector'[k] = vector[k] /\ scalar'[k] = scalar[k] /\ (Agree(k) => Agree(k)')
    BY <1>1, <1>2, SameAgrees
  <2> QED BY <1>k, <1>1, <1>2, <1>3, <1>4, <2>1, <2>2, LeaveKeeps
<1>5. CASE Goto(c, "vector") /\ UNCHANGED <<request, seen, alone>>
  <2>1. pc' = [pc EXCEPT ![c] = "vector"]
    BY <1>5 DEF Goto
  <2>2. StoreTypeOK'
    BY <1>0, <1>1, <1>5, <2>1 DEF StoreTypeOK, Writes
  <2>3. ReadIsCurrent(c, k)'
    BY <1>0, <2>1 DEF ReadIsCurrent, StoreTypeOK
  <2> QED BY <1>k, <1>1, <1>2, <1>3, <1>5, <2>1, <2>2, <2>3, MoveKeeps
<1> QED BY <1>1, <1>4, <1>5

LEMMA ReadVectorKeeps ==
    ASSUME StoreInv, NEW c \in Clients, ReadVector(c)
    PROVE  StoreInv'
<1>0. StoreTypeOK /\ AloneIsAlone /\ AloneProgress /\ WriterIsAlone /\ QuietAgrees
  BY DEF StoreInv
<1>k. PICK k \in Keys : k = request[c].key /\ pc[c] # "idle"
  BY <1>0, InCall DEF ReadVector
<1>1. /\ pc[c] = "vector" /\ ~Writes(c)
      /\ seen' = [seen EXCEPT ![c] = vector[k]]
      /\ pc' = [pc EXCEPT ![c] = "scalar"]
      /\ UNCHANGED <<vector, scalar, cache, request, alone, tangled>>
  BY <1>k DEF ReadVector, Goto, stores, history
<1>2. \A j \in Keys : Same(j)
  BY <1>0, <1>1, CacheSame
<1>3. /\ pc'[c] = "scalar" /\ seen'[c] = vector[k] /\ vector[k] \in MaybeValues
      /\ \A d \in Clients : d # c => pc'[d] = pc[d] /\ seen'[d] = seen[d]
  BY <1>0, <1>1 DEF StoreTypeOK
<1>4. StoreTypeOK'
  <2>1. /\ pc' \in [Clients -> {"idle", "ask", "vector", "scalar", "cache"}]
        /\ seen' \in [Clients -> MaybeValues \cup MaybeRecords]
    BY <1>0, <1>1, <1>3 DEF StoreTypeOK
  <2>2. \A d : Writes(d)' = Writes(d)
    BY <1>1 DEF Writes
  <2> QED BY <1>0, <1>1, <1>3, <2>1, <2>2 DEF StoreTypeOK
<1>5. ReadIsCurrent(c, k)'
  BY <1>1, <1>3 DEF ReadIsCurrent
<1> QED BY <1>k, <1>1, <1>2, <1>3, <1>4, <1>5, MoveKeeps

LEMMA ReadScalarKeeps ==
    ASSUME StoreInv, NEW c \in Clients, ReadScalar(c)
    PROVE  StoreInv'
<1>0. StoreTypeOK /\ AloneIsAlone /\ AloneProgress /\ WriterIsAlone /\ QuietAgrees
  BY DEF StoreInv
<1>k. PICK k \in Keys : k = request[c].key /\ pc[c] # "idle"
  BY <1>0, InCall DEF ReadScalar
<1>1. /\ pc[c] = "scalar" /\ ~Writes(c)
      /\ \/ End(c)
         \/ /\ seen[c] # Nothing /\ scalar[k] # Nothing
            /\ seen' = [seen EXCEPT ![c] = Pair(seen[c], scalar[k])]
            /\ pc' = [pc EXCEPT ![c] = "cache"]
            /\ UNCHANGED <<request, alone>>
      /\ UNCHANGED <<vector, scalar, cache, tangled>>
  BY <1>k DEF ReadScalar, Goto, stores
<1>2. \A j \in Keys : Same(j)
  BY <1>0, <1>1, CacheSame
<1>3. CASE End(c)
  <2>1. StoreTypeOK'
    BY <1>0, <1>1, <1>3, LeaveTyped DEF StoreTypeOK
  <2>2. vector'[k] = vector[k] /\ scalar'[k] = scalar[k] /\ (Agree(k) => Agree(k)')
    BY <1>1, <1>2, SameAgrees
  <2> QED BY <1>k, <1>1, <1>2, <1>3, <2>1, <2>2, LeaveKeeps
<1>4. CASE ~End(c)
  <2>1. /\ seen[c] # Nothing /\ scalar[k] # Nothing
        /\ seen' = [seen EXCEPT ![c] = Pair(seen[c], scalar[k])]
        /\ pc' = [pc EXCEPT ![c] = "cache"]
        /\ UNCHANGED <<request, alone>>
    BY <1>1, <1>4
  <2>2. /\ pc'[c] = "cache" /\ seen'[c] = Pair(seen[c], scalar[k])
        /\ \A d \in Clients : d # c => pc'[d] = pc[d] /\ seen'[d] = seen[d]
    BY <1>0, <2>1 DEF StoreTypeOK
  <2>3. Pair(seen[c], scalar[k]) \in Records
    <3>1. seen[c] \in MaybeValues /\ scalar[k] \in MaybeValues
      BY <1>0, <1>1 DEF StoreTypeOK
    <3> QED BY <2>1, <3>1 DEF MaybeValues, Pair, Records
  <2>4. StoreTypeOK'
    <3>1. /\ pc' \in [Clients -> {"idle", "ask", "vector", "scalar", "cache"}]
          /\ seen' \in [Clients -> MaybeValues \cup MaybeRecords]
      BY <1>0, <2>1, <2>3 DEF StoreTypeOK, MaybeRecords
    <3>2. \A d : Writes(d)' = Writes(d)
      BY <2>1 DEF Writes
    <3> QED BY <1>0, <1>1, <2>1, <2>2, <2>3, <3>1, <3>2 DEF StoreTypeOK
  <2>5. QuietAgrees /\ k \notin tangled /\ Writers(k) = {} => ReadIsCurrent(c, k)'
    <3>1. c \in On(k)
      BY <1>k DEF On
    <3>2. QuietAgrees /\ k \notin tangled /\ Writers(k) = {} => seen[c] = vector[k]
      BY <1>1, <3>1 DEF QuietAgrees, ReadIsCurrent
    <3> QED BY <1>1, <2>2, <3>2 DEF ReadIsCurrent, Pair
  <2> QED BY <1>k, <1>1, <1>2, <2>1, <2>2, <2>4, <2>5, MoveKeeps
<1> QED BY <1>3, <1>4

LEMMA FillCacheKeeps ==
    ASSUME StoreInv, NEW c \in Clients, FillCache(c)
    PROVE  StoreInv'
<1>0. StoreTypeOK /\ AloneIsAlone /\ AloneProgress /\ WriterIsAlone /\ QuietAgrees
  BY DEF StoreInv
<1>k. PICK k \in Keys : k = request[c].key /\ pc[c] # "idle"
  BY <1>0, InCall DEF FillCache
<1>v. PICK v : v = seen[c]
  OBVIOUS
<1>1. /\ pc[c] = "cache" /\ ~Writes(c) /\ End(c)
      /\ Cache!Written(k, v)
      /\ UNCHANGED <<vector, scalar, tangled>>
  BY <1>k, <1>v DEF FillCache, stores
<1>2. /\ cache' \in [Keys -> MaybeRecords]
      /\ \A j \in Keys \ {k} : cache'[j] \in {cache[j], Nothing}
      /\ cache'[k] \in {v, Nothing}
  BY <1>0, <1>1, CacheWrites
<1>3. StoreTypeOK'
  BY <1>0, <1>1, <1>2, LeaveTyped DEF StoreTypeOK
<1>4. \A j \in Keys \ {k} : Same(j) /\ (j \in tangled => j \in tangled')
  BY <1>1, <1>2 DEF Same
<1>5. ASSUME k \notin tangled, Writers(k) = {}, Agree(k)
      PROVE  Agree(k)'
  <2>1. c \in On(k)
    BY <1>k DEF On
  <2>2. v = Pair(vector[k], scalar[k])
    BY <1>0, <1>v, <1>1, <1>5, <2>1 DEF QuietAgrees, ReadIsCurrent
  <2> QED BY <1>1, <1>2, <1>5, <2>2 DEF Agree, Pair
<1>6. k \in tangled' \/ (/\ k \notin tangled /\ vector'[k] = vector[k] /\ scalar'[k] = scalar[k]
                         /\ (Writers(k) = {} /\ Agree(k) => Agree(k)'))
  BY <1>1, <1>5
<1> QED BY <1>k, <1>1, <1>3, <1>4, <1>6, LeaveKeeps

-----------------------------------------------------------------------------
LEMMA StoreStepHolds ==
    StoreInv /\ [StoreNext]_(storeVars) => StoreInv'
<1> SUFFICES ASSUME StoreInv, [StoreNext]_(storeVars) PROVE StoreInv'
  OBVIOUS
<1>1. CASE UNCHANGED storeVars
  <2>1. UNCHANGED <<vector, scalar, cache, pc, request, seen, alone, tangled>>
    BY <1>1 DEF storeVars, stores, history
  <2> QED BY <2>1 DEF StoreInv, StoreTypeOK, AloneIsAlone, AloneProgress, WriterIsAlone, QuietAgrees,
              Agree, Progress, ReadIsCurrent, On, Writers, Writes,
              Wanted, Pair
<1>2. ASSUME NEW c \in Clients, NEW r \in HybridRequests, Begin(c, r) PROVE StoreInv'
  BY <1>2, StoreCallKeeps
<1>3. ASSUME NEW c \in Clients,
             \/ Abandon(c)
             \/ WriteVector(c) \/ WriteScalar(c) \/ WriteCache(c)
             \/ AskCache(c) \/ ReadVector(c)
             \/ ReadScalar(c) \/ FillCache(c)
      PROVE  StoreInv'
  BY <1>3, AbandonKeeps, WriteVectorKeeps, WriteScalarKeeps, WriteCacheKeeps,
     AskCacheKeeps, ReadVectorKeeps, ReadScalarKeeps, FillCacheKeeps
<1> QED BY <1>1, <1>2, <1>3 DEF StoreNext

\* For any clients, keys, values and number of calls: on a key whose writes met no
\* call and were not cut short, or were followed by one that was not, the vector, the
\* scalar, what the cache answers and what get_hybrid is about to put there are of
\* one record.
THEOREM ThmUntangledKeysAgree ==
    StoreSpec => []UntangledKeysAgree
<1>1. StoreInit => StoreInv
  BY StoreInitHolds
<1>2. StoreInv /\ [StoreNext]_(storeVars) => StoreInv'
  BY StoreStepHolds
<1>3. StoreInv => UntangledKeysAgree
  BY DEF StoreInv, QuietAgrees, Agree, ReadIsCurrent, UntangledKeysAgree
<1> QED BY <1>1, <1>2, <1>3, PTL DEF StoreSpec

=============================================================================
