---------------------- MODULE IndexedScheduler_proofs ----------------------
(***************************************************************************)
(* Proofs about IndexedScheduler: type correctness, HandedOutOnce and      *)
(* NoneSkipped from the inductive invariant IInv, and the refinement of    *)
(* TickScheduler, for every set of agents, batch size and either setting   *)
(* of Shuffles.                                                            *)
(***************************************************************************)
EXTENDS IndexedScheduler, TLAPS, SequenceTheorems

\* What Vec::remove returns: one element shorter, the tail moved by one.
LEMMA RemoveAtLemma ==
    ASSUME NEW S, NEW s \in Seq(S), NEW pos \in 1..Len(s)
    PROVE  /\ RemoveAt(s, pos) \in Seq(S)
           /\ Len(RemoveAt(s, pos)) = Len(s) - 1
           /\ \A i \in 1..Len(s)-1 :
                RemoveAt(s, pos)[i] = IF i < pos THEN s[i] ELSE s[i + 1]
<1> DEFINE front == SubSeq(s, 1, pos - 1)
           back == SubSeq(s, pos + 1, Len(s))
<1>0. Len(s) \in Nat /\ pos \in 1..Len(s) /\ \A i \in 1..Len(s) : s[i] \in S
  OBVIOUS
<1>1. /\ front \in Seq(S)
      /\ Len(front) = pos - 1
      /\ \A i \in 1..pos-1 : front[i] = s[i]
  <2>1. \A i \in 1..pos-1 : s[i] \in S
    BY <1>0
  <2>2. 1 \in Int /\ pos - 1 \in Int
    BY <1>0
  <2>3. /\ front \in Seq(S)
        /\ Len(front) = IF 1 <= pos-1 THEN (pos-1)-1+1 ELSE 0
        /\ \A i \in 1..((pos-1)-1+1) : front[i] = s[1+i-1]
    BY <2>1, <2>2, SubSeqProperties
  <2> HIDE DEF front
  <2> QED BY <1>0, <2>3
<1>2. /\ back \in Seq(S)
      /\ Len(back) = Len(s) - pos
      /\ \A i \in 1..Len(s)-pos : back[i] = s[pos + i]
  <2>1. \A i \in pos+1..Len(s) : s[i] \in S
    BY <1>0
  <2>2. pos + 1 \in Int /\ Len(s) \in Int
    BY <1>0
  <2>3. /\ back \in Seq(S)
        /\ Len(back) = IF pos+1 <= Len(s) THEN Len(s)-(pos+1)+1 ELSE 0
        /\ \A i \in 1..(Len(s)-(pos+1)+1) : back[i] = s[(pos+1)+i-1]
    BY <2>1, <2>2, SubSeqProperties
  <2> HIDE DEF back
  <2> QED BY <1>0, <2>3
<1>4. RemoveAt(s, pos) = front \o back
  BY DEF RemoveAt
<1> HIDE DEF front, back
<1>3. /\ front \o back \in Seq(S)
      /\ Len(front \o back) = Len(front) + Len(back)
      /\ \A i \in 1..Len(front)+Len(back) : (front \o back)[i] =
            IF i <= Len(front) THEN front[i] ELSE back[i - Len(front)]
  BY <1>1, <1>2, ConcatProperties
<1>5. \A i \in 1..Len(s)-1 :
        (front \o back)[i] = IF i < pos THEN s[i] ELSE s[i + 1]
  <2> SUFFICES ASSUME NEW i \in 1..Len(s)-1
               PROVE  (front \o back)[i] = IF i < pos THEN s[i] ELSE s[i + 1]
    OBVIOUS
  <2>1. (front \o back)[i] = IF i <= pos-1 THEN front[i] ELSE back[i - (pos-1)]
    BY <1>0, <1>1, <1>2, <1>3
  <2>2. CASE i < pos
    BY <1>0, <1>1, <2>1, <2>2
  <2>3. CASE ~(i < pos)
    <3> DEFINE k == i - (pos-1)
    <3>1. k \in 1..Len(s)-pos /\ pos + k = i + 1 /\ ~(i <= pos-1)
      BY <1>0, <2>3
    <3>2. (front \o back)[i] = back[k]
      BY <2>1, <3>1
    <3> HIDE DEF k
    <3>3. back[k] = s[i + 1]
      BY <1>2, <3>1
    <3> QED BY <2>3, <3>2, <3>3
  <2> QED BY <2>2, <2>3
<1>6. Len(front \o back) = Len(s) - 1
  BY <1>0, <1>1, <1>2, <1>3
<1> QED BY <1>3, <1>4, <1>5, <1>6

\* A shuffle permutes: same length, same agents, no duplicate brought in.
LEMMA ArrangementsLemma ==
    ASSUME NEW s \in Seq(Agents), NEW t \in Arrangements(s)
    PROVE  /\ t \in Seq(Agents)
           /\ Len(t) = Len(s)
           /\ IsInjective(s) => IsInjective(t)
           /\ { t[i] : i \in 1..Len(t) } = { s[i] : i \in 1..Len(s) }
<1>1. CASE t = s
  BY <1>1
<1>2. CASE t # s
  <2>1. PICK p \in Bijection(1..Len(s), 1..Len(s)) :
            t = [i \in 1..Len(s) |-> s[p[i]]]
    BY <1>2 DEF Arrangements
  <2>2. /\ p \in [1..Len(s) -> 1..Len(s)]
        /\ IsInjective(p)
        /\ \A j \in 1..Len(s) : \E i \in 1..Len(s) : p[i] = j
    BY DEF Bijection, Injection, Surjection
  <2>3. t \in [1..Len(s) -> Agents]
    BY <2>1, <2>2
  <2>4. t \in Seq(Agents) /\ Len(t) = Len(s)
    BY <2>3
  <2>5. \A i \in 1..Len(s) : t[i] = s[p[i]]
    BY <2>1
  <2>6. ASSUME IsInjective(s) PROVE IsInjective(t)
    <3> SUFFICES ASSUME NEW i \in 1..Len(s), NEW j \in 1..Len(s), t[i] = t[j]
                 PROVE  i = j
      BY <2>3 DEF IsInjective
    <3>1. p[i] \in DOMAIN s /\ p[j] \in DOMAIN s /\ s[p[i]] = s[p[j]]
      <4>1. p[i] \in 1..Len(s) /\ p[j] \in 1..Len(s)
        BY <2>2
      <4>2. DOMAIN s = 1..Len(s)
        OBVIOUS
      <4> QED BY <2>5, <4>1, <4>2
    <3>2. p[i] = p[j]
      BY <2>6, <3>1 DEF IsInjective
    <3> QED BY <2>2, <3>2 DEF IsInjective
  <2>7. { t[i] : i \in 1..Len(t) } = { s[i] : i \in 1..Len(s) }
    <3>1. ASSUME NEW i \in 1..Len(t) PROVE t[i] \in { s[j] : j \in 1..Len(s) }
      <4>1. i \in 1..Len(s) /\ p[i] \in 1..Len(s)
        BY <2>2, <2>4
      <4> QED BY <2>5, <4>1
    <3>2. ASSUME NEW j \in 1..Len(s) PROVE s[j] \in { t[i] : i \in 1..Len(t) }
      <4>1. PICK i \in 1..Len(s) : p[i] = j
        BY <2>2
      <4>2. i \in 1..Len(t) /\ t[i] = s[j]
        BY <2>4, <2>5, <4>1
      <4> QED BY <4>2
    <3> QED BY <3>1, <3>2
  <2> QED BY <2>4, <2>6, <2>7
<1> QED BY <1>1, <1>2

LEMMA ListsAreSequences ==
    ASSUME NEW list \in DistinctLists
    PROVE  list \in Seq(Agents) /\ IsInjective(list)
  BY DEF DistinctLists, AgentLists

\* What next_batch hands out, and where it leaves the index.
LEMMA BatchLemma ==
    ASSUME TypeOK, index <= Len(order), index < BatchEnd
    PROVE  /\ BatchEnd \in index+1..Len(order)
           /\ \A i \in index+1..BatchEnd : i \in DOMAIN order
           /\ Handed \subseteq Agents
  BY BatchSizeAssumption DEF TypeOK, BatchEnd, Handed

-----------------------------------------------------------------------------
\* A tick that has just begun: nobody has passed and nobody has run.
LEMMA FreshTick ==
    ASSUME order' \in Seq(Agents), IsInjective(order'),
           index' = 0, ran' = NoRuns
    PROVE  IInv'
  BY DEF IInv, TypeOK, NoDuplicates, RanIsPassed, OutsideNeverRan, NoRuns

LEMMA AddAgentKeepsIInv ==
    ASSUME IInv, NEW a \in Agents, AddAgent(a)
    PROVE  IInv'
<1> USE DEF IInv, TypeOK
<1>1. order' = Append(order, a) /\ order' \in Seq(Agents) /\ index' = index
  BY DEF AddAgent
<1>2. /\ Len(order') = Len(order) + 1
      /\ \A i \in 1..Len(order) : order'[i] = order[i]
      /\ order'[Len(order) + 1] = a
  BY <1>1
<1>3. \A i \in 1..Len(order) : order[i] # a
  BY DEF AddAgent, Contains
<1>4. ran' = [ran EXCEPT ![a] = 0] /\ ran' \in [Agents -> Nat]
  BY DEF AddAgent
<1>5. TypeOK' /\ (index <= Len(order))'
  BY <1>1, <1>2, <1>4
<1>6. NoDuplicates'
  BY <1>1, <1>2, <1>3 DEF NoDuplicates, IsInjective
<1>7. RanIsPassed'
  BY <1>1, <1>2, <1>3, <1>4 DEF RanIsPassed
<1>8. OutsideNeverRan'
  <2> SUFFICES ASSUME NEW b \in Agents, ~Contains(order', b)
               PROVE  ran'[b] = 0
    BY DEF OutsideNeverRan
  <2>1. b # a /\ ~Contains(order, b)
    BY <1>1, <1>2 DEF Contains
  <2> QED BY <1>4, <2>1 DEF OutsideNeverRan
<1> QED BY <1>5, <1>6, <1>7, <1>8

\* The hard case: the tail moves left under the index, so the passed part
\* stays the part that ran only because the index moves with it.
LEMMA RemoveAgentKeepsIInv ==
    ASSUME IInv, NEW a \in Agents, RemoveAgent(a)
    PROVE  IInv'
<1> USE DEF IInv, TypeOK
<1>1. PICK pos \in 1..Len(order) :
        /\ order[pos] = a
        /\ order' = RemoveAt(order, pos)
        /\ index' = IF pos <= index THEN index - 1 ELSE index
        /\ ran' = [ran EXCEPT ![a] = 0]
  BY DEF RemoveAgent
<1>2. /\ order' \in Seq(Agents)
      /\ Len(order') = Len(order) - 1
      /\ DOMAIN order' = 1..Len(order)-1
      /\ \A i \in 1..Len(order)-1 :
            order'[i] = IF i < pos THEN order[i] ELSE order[i + 1]
  <2>1. /\ RemoveAt(order, pos) \in Seq(Agents)
        /\ Len(RemoveAt(order, pos)) = Len(order) - 1
        /\ \A i \in 1..Len(order)-1 : RemoveAt(order, pos)[i] =
              IF i < pos THEN order[i] ELSE order[i + 1]
    BY RemoveAtLemma
  <2> QED BY <1>1, <2>1
<1> DEFINE old(i) == IF i < pos THEN i ELSE i + 1
<1>3. \A i \in 1..Len(order)-1 :
        /\ old(i) \in 1..Len(order)
        /\ old(i) # pos
        /\ order'[i] = order[old(i)]
        /\ old(i) <= index <=> i <= index'
  <2> SUFFICES ASSUME NEW i \in 1..Len(order)-1
               PROVE  /\ old(i) \in 1..Len(order)
                      /\ old(i) # pos
                      /\ order'[i] = order[old(i)]
                      /\ old(i) <= index <=> i <= index'
    OBVIOUS
  <2>1. Len(order) \in Nat /\ index \in Nat /\ index <= Len(order)
    OBVIOUS
  <2>2. old(i) \in 1..Len(order) /\ old(i) # pos
    BY <2>1
  <2>3. order'[i] = order[old(i)]
    BY <1>2
  <2>4. old(i) <= index <=> i <= index'
    BY <1>1, <2>1
  <2> QED BY <2>2, <2>3, <2>4
<1>4. \A i, j \in 1..Len(order)-1 : old(i) = old(j) => i = j
  OBVIOUS
<1>5. \A i \in 1..Len(order) : i # pos => order[i] # a
  BY <1>1 DEF NoDuplicates, IsInjective
<1> HIDE DEF old
<1>6. TypeOK' /\ (index <= Len(order))'
  BY <1>1, <1>2
<1>7. NoDuplicates'
  <2> SUFFICES ASSUME NEW i \in 1..Len(order)-1, NEW j \in 1..Len(order)-1,
                      order'[i] = order'[j]
               PROVE  i = j
    BY <1>2 DEF NoDuplicates, IsInjective
  <2>1. /\ order[old(i)] = order[old(j)]
        /\ old(i) \in 1..Len(order)
        /\ old(j) \in 1..Len(order)
    BY <1>3
  <2>2. DOMAIN order = 1..Len(order)
    OBVIOUS
  <2>3. old(i) = old(j)
    BY <2>1, <2>2 DEF NoDuplicates, IsInjective
  <2> QED BY <1>4, <2>3
<1>8. RanIsPassed'
  <2> SUFFICES ASSUME NEW i \in 1..Len(order)-1
               PROVE  ran'[order'[i]] = IF i <= index' THEN 1 ELSE 0
    BY <1>2 DEF RanIsPassed
  <2>1. ran'[order'[i]] = ran[order[old(i)]]
    BY <1>1, <1>3, <1>5
  <2> QED BY <1>3, <2>1 DEF RanIsPassed
<1>9. OutsideNeverRan'
  <2> SUFFICES ASSUME NEW b \in Agents, ~Contains(order', b)
               PROVE  ran'[b] = 0
    BY DEF OutsideNeverRan
  <2>1. CASE b = a
    BY <1>1, <2>1
  <2>2. CASE b # a
    <3>1. ASSUME NEW i \in 1..Len(order), order[i] = b PROVE FALSE
      <4>1. i # pos
        BY <1>1, <2>2, <3>1
      <4>2. PICK j \in 1..Len(order)-1 : old(j) = i
        <5>1. CASE i < pos
          <6>1. i \in 1..Len(order)-1 /\ old(i) = i
            BY <5>1 DEF old
          <6> QED BY <6>1
        <5>2. CASE i > pos
          <6>1. i - 1 \in 1..Len(order)-1 /\ old(i - 1) = i
            BY <5>2 DEF old
          <6> QED BY <6>1
        <5> QED BY <4>1, <5>1, <5>2
      <4>3. order'[j] = b /\ j \in 1..Len(order')
        BY <1>2, <1>3, <3>1, <4>2
      <4> QED BY <4>3 DEF Contains
    <3>2. ~Contains(order, b)
      BY <3>1 DEF Contains
    <3> QED BY <1>1, <2>2, <3>2 DEF OutsideNeverRan
  <2> QED BY <2>1, <2>2
<1> QED BY <1>6, <1>7, <1>8, <1>9

LEMMA NextBatchKeepsIInv ==
    ASSUME IInv, NextBatch
    PROVE  IInv'
<1> USE DEF IInv, TypeOK
<1>1. /\ BatchEnd \in index+1..Len(order)
      /\ order' = order
      /\ index' = BatchEnd
      /\ ran' = [a \in Agents |-> IF a \in Handed THEN ran[a] + 1 ELSE ran[a]]
  BY BatchLemma DEF NextBatch
<1>2. TypeOK' /\ (index <= Len(order))'
  BY <1>1
<1>3. RanIsPassed'
  <2> SUFFICES ASSUME NEW i \in 1..Len(order)
               PROVE  ran'[order[i]] = IF i <= BatchEnd THEN 1 ELSE 0
    BY <1>1 DEF RanIsPassed
  <2>1. order[i] \in Handed <=> i \in index+1..BatchEnd
    BY <1>1 DEF Handed, NoDuplicates, IsInjective
  <2>2. ran[order[i]] = IF i <= index THEN 1 ELSE 0
    BY DEF RanIsPassed
  <2> QED BY <1>1, <2>1, <2>2
<1>4. OutsideNeverRan'
  <2> SUFFICES ASSUME NEW b \in Agents, ~Contains(order, b)
               PROVE  ran'[b] = 0
    BY <1>1 DEF OutsideNeverRan
  <2>1. b \notin Handed
    BY <1>1 DEF Handed, Contains
  <2> QED BY <1>1, <2>1 DEF OutsideNeverRan
<1> QED BY <1>1, <1>2, <1>3, <1>4 DEF NoDuplicates

LEMMA IInvInductive == IInv /\ [Next]_vars => IInv'
<1> SUFFICES ASSUME IInv, [Next]_vars PROVE IInv'
  OBVIOUS
<1>1. CASE \E list \in DistinctLists : Initialize(list)
  <2>1. PICK list \in DistinctLists : Initialize(list)
    BY <1>1
  <2>2. order' \in Arrangements(list) /\ index' = 0 /\ ran' = NoRuns
    BY <2>1 DEF Initialize
  <2>3. order' \in Seq(Agents) /\ IsInjective(order')
    BY <2>2, ListsAreSequences, ArrangementsLemma
  <2> QED BY <2>2, <2>3, FreshTick
<1>2. CASE \E a \in Agents : AddAgent(a)
  BY <1>2, AddAgentKeepsIInv
<1>3. CASE \E a \in Agents : RemoveAgent(a)
  BY <1>3, RemoveAgentKeepsIInv
<1>4. CASE NextBatch
  BY <1>4, NextBatchKeepsIInv
<1>5. CASE ResetStep
  <2>1. order' \in Arrangements(order) /\ index' = 0 /\ ran' = NoRuns
    BY <1>5 DEF ResetStep
  <2>2. order' \in Seq(Agents) /\ IsInjective(order')
    BY <2>1, ArrangementsLemma DEF IInv, TypeOK, NoDuplicates
  <2> QED BY <2>1, <2>2, FreshTick
<1>6. CASE UNCHANGED vars
  BY <1>6 DEF vars, IInv, TypeOK, NoDuplicates, RanIsPassed, OutsideNeverRan
<1> QED BY <1>1, <1>2, <1>3, <1>4, <1>5, <1>6 DEF Next

\* The passed part of the list is exactly the part that has run, in every
\* reachable state of every scheduler of the family.
THEOREM Invariance == Spec => []IInv
<1>1. Init => IInv
  BY DEF Init, IInv, TypeOK, NoDuplicates, IsInjective, RanIsPassed,
         OutsideNeverRan, NoRuns
<1> QED BY <1>1, IInvInductive, PTL DEF Spec

\* Nobody is handed out twice in a tick.
THEOREM ThmHandedOutOnce == Spec => []HandedOutOnce
<1>1. IInv => HandedOutOnce
  <2> SUFFICES ASSUME IInv, NEW a \in Agents PROVE ran[a] <= 1
    BY DEF HandedOutOnce
  <2>1. CASE Contains(order, a)
    <3>1. PICK i \in 1..Len(order) : order[i] = a
      BY <2>1 DEF Contains
    <3>2. i \in DOMAIN order
      BY DEF IInv, TypeOK
    <3> QED BY <3>1, <3>2 DEF IInv, RanIsPassed
  <2>2. CASE ~Contains(order, a)
    BY <2>2 DEF IInv, OutsideNeverRan
  <2> QED BY <2>1, <2>2
<1> QED BY <1>1, Invariance, PTL

\* Nobody is passed over: when has_next turns false all have had their turn.
THEOREM ThmNoneSkipped == Spec => []NoneSkipped
<1>1. IInv => NoneSkipped
  BY DEF IInv, TypeOK, RanIsPassed, NoneSkipped, HasNext
<1> QED BY <1>1, Invariance, PTL

-----------------------------------------------------------------------------
\* Each operation does to the set of due agents what TickScheduler says.
LEMMA JoinRefines ==
    ASSUME IInv, NEW a \in Agents, AddAgent(a)
    PROVE  Tick!Join(a)
<1> USE DEF IInv, TypeOK
<1>1. /\ order' = Append(order, a)
      /\ Len(order') = Len(order) + 1
      /\ \A i \in 1..Len(order) : order'[i] = order[i] /\ order[i] # a
      /\ order'[Len(order) + 1] = a
      /\ index' = index
  BY DEF AddAgent, Contains
<1>2. a \notin members
  BY <1>1 DEF members
<1>3. members' = members \union {a}
  BY <1>1 DEF members
<1>4. due' = due \union {a}
  BY <1>1 DEF due
<1> QED BY <1>2, <1>3, <1>4 DEF Tick!Join

LEMMA LeaveRefines ==
    ASSUME IInv, NEW a \in Agents, RemoveAgent(a)
    PROVE  Tick!Leave(a)
<1>0. /\ order \in Seq(Agents)
      /\ index \in Nat /\ Len(order) \in Nat /\ index <= Len(order)
      /\ DOMAIN order = 1..Len(order)
      /\ NoDuplicates
  BY DEF IInv, TypeOK
<1>1. PICK pos \in 1..Len(order) :
        /\ order[pos] = a
        /\ order' = RemoveAt(order, pos)
        /\ index' = IF pos <= index THEN index - 1 ELSE index
  BY <1>0 DEF RemoveAgent
<1>2. /\ Len(order') = Len(order) - 1
      /\ \A i \in 1..Len(order)-1 :
            order'[i] = IF i < pos THEN order[i] ELSE order[i + 1]
  BY <1>0, <1>1, RemoveAtLemma
<1>3. \A i \in 1..Len(order) : i # pos => order[i] # a
  BY <1>0, <1>1 DEF NoDuplicates, IsInjective
<1>4. a \in members
  BY <1>1 DEF members
<1>5. members' = members \ {a}
  <2>1. ASSUME NEW i \in 1..Len(order') PROVE order'[i] \in members \ {a}
    <3> DEFINE k == IF i < pos THEN i ELSE i + 1
    <3>1. k \in 1..Len(order) /\ k # pos /\ order'[i] = order[k]
      BY <1>0, <1>2
    <3> HIDE DEF k
    <3> QED BY <1>3, <3>1 DEF members
  <2>2. ASSUME NEW i \in 1..Len(order), i # pos PROVE order[i] \in members'
    <3>1. CASE i < pos
      <4>1. i \in 1..Len(order') /\ order'[i] = order[i]
        BY <1>0, <1>2, <3>1
      <4> QED BY <4>1 DEF members
    <3>2. CASE i > pos
      <4>1. i - 1 \in 1..Len(order') /\ order'[i - 1] = order[i]
        BY <1>0, <1>2, <3>2
      <4> QED BY <4>1 DEF members
    <3> QED BY <1>0, <2>2, <3>1, <3>2
  <2>3. \A x \in members' : x \in members \ {a}
    BY <2>1 DEF members
  <2>4. \A x \in members \ {a} : x \in members'
    <3> SUFFICES ASSUME NEW x \in members, x # a PROVE x \in members'
      OBVIOUS
    <3>1. PICK i \in 1..Len(order) : x = order[i]
      BY DEF members
    <3> QED BY <1>1, <2>2, <3>1
  <2> QED BY <2>3, <2>4
<1>6. due' = due \ {a}
  <2>1. ASSUME NEW i \in index'+1..Len(order') PROVE order'[i] \in due \ {a}
    <3> DEFINE k == IF i < pos THEN i ELSE i + 1
    <3>0. i \in 1..Len(order)-1 /\ i > index'
      BY <1>0, <1>1, <1>2
    <3>1. k \in index+1..Len(order) /\ k # pos
      BY <1>0, <1>1, <3>0
    <3>2. order'[i] = order[k]
      BY <1>2, <3>0
    <3> HIDE DEF k
    <3>3. order[k] # a
      BY <1>0, <1>3, <3>1
    <3> QED BY <3>1, <3>2, <3>3 DEF due
  <2>2. ASSUME NEW i \in index+1..Len(order), i # pos PROVE order[i] \in due'
    <3>1. CASE i < pos
      <4>1. i \in index'+1..Len(order') /\ order'[i] = order[i]
        BY <1>0, <1>1, <1>2, <2>2, <3>1
      <4> QED BY <4>1 DEF due
    <3>2. CASE i > pos
      <4>1. i \in Nat /\ i - 1 \in 1..Len(order)-1
        BY <1>0, <2>2, <3>2
      <4>2. order'[i - 1] = order[i]
        BY <1>0, <1>2, <3>2, <4>1
      <4>3. i - 1 \in index'+1..Len(order')
        BY <1>0, <1>1, <1>2, <2>2, <3>2
      <4> QED BY <4>2, <4>3 DEF due
    <3> QED BY <1>0, <2>2, <3>1, <3>2
  <2>3. \A x \in due' : x \in due \ {a}
    BY <2>1 DEF due
  <2>4. \A x \in due \ {a} : x \in due'
    <3> SUFFICES ASSUME NEW x \in due, x # a PROVE x \in due'
      OBVIOUS
    <3>1. PICK i \in index+1..Len(order) : x = order[i]
      BY DEF due
    <3> QED BY <1>1, <2>2, <3>1
  <2> QED BY <2>3, <2>4
<1> QED BY <1>4, <1>5, <1>6 DEF Tick!Leave

LEMMA HandOutRefines ==
    ASSUME IInv, NextBatch
    PROVE  Tick!HandOut(Handed)
<1> USE DEF IInv, TypeOK
<1>1. /\ BatchEnd \in index+1..Len(order)
      /\ order' = order
      /\ index' = BatchEnd
  BY BatchLemma DEF NextBatch
<1>2. DOMAIN order = 1..Len(order)
  OBVIOUS
<1>3. Handed # {} /\ Handed \subseteq due
  BY <1>1 DEF Handed, due
<1>4. due' = due \ Handed
  <2>1. ASSUME NEW i \in BatchEnd+1..Len(order)
        PROVE  order[i] \in due /\ order[i] \notin Handed
    <3>1. i \in index+1..Len(order) /\ i \in DOMAIN order
      BY <1>1, <1>2
    <3>2. \A j \in index+1..BatchEnd : j # i /\ j \in DOMAIN order
      BY <1>1, <1>2
    <3>3. order[i] \notin Handed
      BY <3>1, <3>2 DEF Handed, NoDuplicates, IsInjective
    <3> QED BY <3>1, <3>3 DEF due
  <2>2. ASSUME NEW i \in index+1..Len(order), order[i] \notin Handed
        PROVE  i \in BatchEnd+1..Len(order)
    BY <1>1, <2>2 DEF Handed
  <2>3. due' = { order[i] : i \in BatchEnd+1..Len(order) }
    BY <1>1 DEF due
  <2> QED BY <2>1, <2>2, <2>3 DEF due
<1>5. members' = members
  BY <1>1 DEF members
<1> QED BY <1>3, <1>4, <1>5 DEF Tick!HandOut

LEMMA StepRefines == IInv /\ [Next]_vars => [Tick!TickNext]_Tick!tickVars
<1> SUFFICES ASSUME IInv, [Next]_vars
             PROVE  [Tick!TickNext]_Tick!tickVars
  OBVIOUS
<1>1. CASE \E list \in DistinctLists : Initialize(list)
  <2>1. PICK list \in DistinctLists : Initialize(list)
    BY <1>1
  <2>2. order' \in Seq(Agents) /\ index' = 0
    BY <2>1, ListsAreSequences, ArrangementsLemma DEF Initialize
  <2>3. members' \in SUBSET Agents /\ due' = members'
    BY <2>2 DEF members, due
  <2>4. Tick!Enrol(members')
    BY <2>3 DEF Tick!Enrol
  <2> QED BY <2>3, <2>4 DEF Tick!TickNext
<1>2. CASE \E a \in Agents : AddAgent(a)
  BY <1>2, JoinRefines DEF Tick!TickNext
<1>3. CASE \E a \in Agents : RemoveAgent(a)
  BY <1>3, LeaveRefines DEF Tick!TickNext
<1>4. CASE NextBatch
  <2>1. Handed \in SUBSET Agents
    BY <1>4, BatchLemma DEF IInv, NextBatch
  <2> QED BY <1>4, <2>1, HandOutRefines DEF Tick!TickNext
<1>5. CASE ResetStep
  <2>1. order' \in Arrangements(order) /\ index' = 0
    BY <1>5 DEF ResetStep
  <2>2. order' \in Seq(Agents) /\ members' = members
    BY <2>1, ArrangementsLemma DEF IInv, TypeOK, members
  <2>3. due' = members'
    <3>1. index' + 1 = 1
      BY <2>1
    <3> QED BY <3>1 DEF members, due
  <2> QED BY <2>2, <2>3 DEF Tick!NewTick, Tick!TickNext
<1>6. CASE UNCHANGED vars
  BY <1>6 DEF vars, members, due, Tick!tickVars
<1> QED BY <1>1, <1>2, <1>3, <1>4, <1>5, <1>6 DEF Next

\* The list with its index implements the set of due agents: joining makes
\* one agent due, leaving takes one turn away, handing out takes exactly the
\* turns it serves.
THEOREM Refinement == Spec => TickSpec
<1>1. Init => Tick!TickInit
  BY DEF Init, Tick!TickInit, members, due
<1> QED BY <1>1, Invariance, StepRefines, PTL DEF Spec, TickSpec, Tick!TickSpec
=============================================================================
