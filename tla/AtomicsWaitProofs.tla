------------------------- MODULE AtomicsWaitProofs -------------------------
(***************************************************************************)
(* Proofs about the waiter list of Atomics.wait for any number of agents,  *)
(* indices and values: the list is exact, no wake-up is missed, and a      *)
(* notify wakes the first waiters of its index.                            *)
(***************************************************************************)
EXTENDS AtomicsWait, FiniteSetTheorems, TLAPS

\* The list in one direction and in the other: an entry is for a wait that is
\* under way and not notified, and every such wait has an entry, one only.  A wait
\* that has only compared was not notified.
ListInv ==
    /\ \A n \in DOMAIN waiters :
        /\ pc[waiters[n].slot] \in {"parked", "leaving"} /\ ~woken[waiters[n].slot]
        /\ waiters[n].key = call[waiters[n].slot].index
    /\ \A m, n \in DOMAIN waiters : waiters[m].slot = waiters[n].slot => m = n
    /\ \A s \in Slots : pc[s] \in {"parked", "leaving"} /\ ~woken[s]
            => \E n \in DOMAIN waiters : waiters[n].slot = s
    /\ \A s \in Slots : pc[s] = "checked" => ~woken[s]

WaitInv == TypeOK /\ ListInv /\ NoMissedWakeUp
-----------------------------------------------------------------------------
\* A non-empty set of numbers has a least element.
LEMMA LeastNumber ==
    ASSUME NEW T \in SUBSET Nat, T # {}
    PROVE  \E x \in T : \A y \in T : x <= y
<1>1. PICK x \in T : \A y \in T : ~ (<<y, x>> \in OpToRel(<, Nat))
  BY NatLessThanWellFounded, WFMin, Zenon
<1>2. ASSUME NEW y \in T PROVE x <= y
  <2>1. <<y, x>> \in Nat \X Nat /\ ~ (y < x)
    BY <1>1, Zenon DEF OpToRel
  <2> QED BY <2>1
<1> QED BY <1>2, Zenon

\* A non-empty set of numbers with a bound has a greatest element.
LEMMA GreatestNumber ==
    ASSUME NEW n \in Nat, NEW T \in SUBSET (0 .. n), T # {}
    PROVE  \E x \in T : \A y \in T : y <= x
<1> DEFINE U == {n - x : x \in T}
<1>1. U \in SUBSET Nat /\ U # {}
  <2>1. \A x \in T : n - x \in Nat OBVIOUS
  <2>2. U \subseteq Nat BY <2>1, Zenon
  <2> QED BY <2>2, Zenon
<1>2. PICK u \in U : \A v \in U : u <= v
  <2> HIDE DEF U
  <2> QED BY <1>1, LeastNumber, Zenon
<1>3. PICK x \in T : u = n - x BY Zenon
<1>4. ASSUME NEW y \in T PROVE y <= x
  <2>1. u <= n - y BY <1>2, Zenon
  <2> QED BY <1>3, <2>1
<1> QED BY <1>4, Zenon

\* The slots and the arguments of a wait have their types.
LEMMA Constants ==
    /\ NoCall \in Calls
    /\ \A a \in Agents \ MainAgents : sync(a) \in Slots
    /\ \A a \in AsyncAgents : async(a) \in Slots
    /\ \A a \in Agents, b \in Agents : sync(a) # async(b)
    /\ \A c \in Calls : c.index \in Indices /\ c.expected \in Values
<1>1. PICK k \in Indices, v \in Values : TRUE BY WaitAssumption, Zenon
<1>2. [index |-> k, expected |-> v, timeout |-> "zero"] \in Calls BY Zenon DEF Calls, Timeouts
<1>3. NoCall \in Calls BY <1>2, Zenon DEF NoCall
<1> QED BY <1>3, Zenon DEF Slots, sync, async, Calls

\* Taking entries off the list leaves the others, once each and in their order.
LEMMA Retained ==
    ASSUME waiters \in Seq(Waiter), NEW kept \in SUBSET DOMAIN waiters, Retain(kept)
    PROVE  /\ waiters' \in Seq(Waiter)
           /\ IsFiniteSet(kept) /\ Len(waiters') = Cardinality(kept)
           /\ \A i \in DOMAIN waiters' : \E n \in kept : waiters'[i] = waiters[n]
           /\ \A n \in kept : \E i \in DOMAIN waiters' : waiters'[i] = waiters[n]
           /\ (\A m, n \in kept : waiters[m].slot = waiters[n].slot => m = n)
                => \A i, j \in DOMAIN waiters' : waiters'[i].slot = waiters'[j].slot => i = j
<1> DEFINE n == Cardinality(kept)
<1>1. kept \subseteq 1 .. Len(waiters) /\ Len(waiters) \in Nat OBVIOUS
<1>2. IsFiniteSet(kept) /\ n \in Nat
  <2>1. IsFiniteSet(1 .. Len(waiters)) BY <1>1, FS_Interval
  <2>2. IsFiniteSet(kept) BY <1>1, <2>1, FS_Subset, Zenon
  <2> QED BY <2>2, FS_CardinalityType, Zenon
<1>3. PICK order \in [1 .. n -> kept] :
        InOrder(order) /\ waiters' = [i \in DOMAIN order |-> waiters[order[i]]]
  BY Zenon DEF Retain
<1> HIDE DEF n
<1>4. \A i, j \in 1 .. n : order[i] = order[j] => i = j
  <2>1. \A i, j \in 1 .. n : i < j => order[i] < order[j] BY <1>3, Zenon DEF InOrder
  <2>2. \A i \in 1 .. n : order[i] \in Nat BY <1>1
  <2> QED BY <1>2, <2>1, <2>2
<1>5. order \in Injection(1 .. n, kept) BY <1>4, Zenon DEF Injection, IsInjective
<1>6. IsFiniteSet(1 .. n) /\ Cardinality(1 .. n) = n BY <1>2, FS_Interval
<1>7. order \in Surjection(1 .. n, kept) BY <1>2, <1>5, <1>6, FS_Injection, Zenon DEF n
<1>8. \A m \in kept : \E i \in 1 .. n : order[i] = m BY <1>7, Zenon DEF Surjection
<1>9. \A i \in 1 .. n : waiters[order[i]] \in Waiter BY <1>1
<1>10. waiters' = [i \in 1 .. n |-> waiters[order[i]]] BY <1>3, Zenon
<1>11. waiters' \in Seq(Waiter) /\ Len(waiters') = n /\ DOMAIN waiters' = 1 .. n
  BY <1>2, <1>9, <1>10
<1>12. \A i \in 1 .. n : waiters'[i] = waiters[order[i]] /\ order[i] \in kept BY <1>10, Zenon
<1> QED BY <1>2, <1>4, <1>8, <1>11, <1>12 DEF n
-----------------------------------------------------------------------------
\* What an agent that runs is not in.
LEMMA RunsIdle ==
    ASSUME NEW a \in Agents \ MainAgents, Runs(a)
    PROVE  pc[sync(a)] = "idle"
BY Zenon DEF Runs, Blocked

\* The types of what a wait changes.
WaitTypes ==
    /\ waiters \in Seq(Waiter)
    /\ pc \in [Slots -> {"idle", "checked", "parked", "leaving"}]
    /\ call \in [Slots -> Calls]
    /\ result \in [Slots -> {"none", "not-equal", "timed-out", "ok"}]

\* A wait that returns keeps the types.
LEMMA ReturnTypes ==
    ASSUME TypeOK, NEW s \in Slots, NEW r \in {"none", "not-equal", "timed-out", "ok"},
           Return(s, r), waiters' \in Seq(Waiter)
    PROVE  WaitTypes'
BY Constants, Zenon DEF Return, TypeOK, WaitTypes

\* A wait that is registered keeps the types.
LEMMA RegisterTypes ==
    ASSUME TypeOK, NEW s \in Slots, NEW c \in Calls, Register(s, c)
    PROVE  WaitTypes'
<1>1. [key |-> c.index, slot |-> s] \in Waiter BY Constants, Zenon DEF Waiter
<1>2. waiters' \in Seq(Waiter) BY <1>1 DEF Register, TypeOK
<1> QED BY <1>2, Zenon DEF Register, TypeOK, WaitTypes

\* Every step keeps the types.
LEMMA NextTypeOK == TypeOK /\ [Next]_vars => TypeOK'
<1> SUFFICES ASSUME TypeOK, [Next]_vars PROVE TypeOK'
  BY Zenon
<1> USE DEF TypeOK
<1>0. CASE UNCHANGED vars BY <1>0, Zenon DEF vars
<1>1. ASSUME NEW a \in Agents, NEW k \in Indices, NEW v \in Values, store(a, k, v)
      PROVE  TypeOK'
  BY <1>1, Zenon DEF store
<1>2. ASSUME NEW a \in Agents, NEW k \in Indices, NEW n \in 0 .. MaxCount, notify(a, k, n)
      PROVE  TypeOK'
  <2>1. waiters' \in Seq(Waiter) BY <1>2, Retained, Zenon DEF notify
  <2>2. woken' \in [Slots -> BOOLEAN] /\ told' \in [Indices -> BOOLEAN]
    BY <1>2, Zenon DEF notify
  <2> QED BY <1>2, <2>1, <2>2, Zenon DEF notify
<1>3. ASSUME NEW a \in Agents \ MainAgents, NEW c \in Calls, wait(a, c)
      PROVE  TypeOK'
  <2>1. sync(a) \in Slots /\ woken' \in [Slots -> BOOLEAN] /\ UNCHANGED <<mem, waiters, told>>
    BY <1>3, Constants, Zenon DEF wait
  <2>2. \/ \E r \in {"none", "not-equal", "timed-out", "ok"} : Return(sync(a), r)
        \/ /\ pc' = [pc EXCEPT ![sync(a)] = "checked"]
           /\ call' = [call EXCEPT ![sync(a)] = c]
           /\ result' = [result EXCEPT ![sync(a)] = "none"]
    BY <1>3, Zenon DEF wait
  <2>3. WaitTypes' BY <2>1, <2>2, ReturnTypes DEF WaitTypes
  <2> QED BY <2>1, <2>3, Zenon DEF WaitTypes
<1>4. ASSUME NEW a \in Agents \ MainAgents, atomics_park(a)
      PROVE  TypeOK'
  <2>1. sync(a) \in Slots /\ call[sync(a)] \in Calls /\ UNCHANGED <<mem, woken, told>>
    BY <1>4, Constants, Zenon DEF atomics_park
  <2>2. WaitTypes' BY <1>4, <2>1, ReturnTypes, RegisterTypes, Zenon DEF atomics_park
  <2> QED BY <2>1, <2>2, Zenon DEF WaitTypes
<1>5. ASSUME NEW a \in Agents \ MainAgents, WakeUp(a)
      PROVE  TypeOK'
  BY <1>5, Constants, Zenon DEF WakeUp
<1>6. ASSUME NEW a \in Agents \ MainAgents, Leave(a)
      PROVE  TypeOK'
  <2>1. waiters' \in Seq(Waiter) BY <1>6, Retained, Zenon DEF Leave, Deregister
  <2> QED BY <1>6, <2>1, Constants, Zenon DEF Leave, Return
<1>7. ASSUME NEW a \in AsyncAgents, NEW c \in Calls, waitAsync(a, c)
      PROVE  TypeOK'
  <2>1. async(a) \in Slots /\ woken' \in [Slots -> BOOLEAN] /\ UNCHANGED <<mem, told>>
    BY <1>7, Constants, Zenon DEF waitAsync
  <2>2. WaitTypes' BY <1>7, <2>1, ReturnTypes, RegisterTypes, Zenon DEF waitAsync
  <2> QED BY <2>1, <2>2, Zenon DEF WaitTypes
<1>8. ASSUME NEW a \in AsyncAgents, poll(a)
      PROVE  TypeOK'
  BY <1>8, Constants DEF poll, Return
<1>9. ASSUME NEW a \in AsyncAgents, deregister(a)
      PROVE  TypeOK'
  <2>1. waiters' \in Seq(Waiter) BY <1>9, Retained, Zenon DEF deregister, Deregister
  <2> QED BY <1>9, <2>1, Constants, Zenon DEF deregister, Return
<1> QED BY <1>0, <1>1, <1>2, <1>3, <1>4, <1>5, <1>6, <1>7, <1>8, <1>9, Zenon DEF Next
-----------------------------------------------------------------------------
(* The list is exact.                                                       *)

\* A step is about slot s alone.
Only(s) ==
    \A t \in Slots \ {s} : pc'[t] = pc[t] /\ call'[t] = call[t] /\ (woken'[t] <=> woken[t])

\* Entries are for slots, in a list of some length.
LEMMA Entries ==
    ASSUME TypeOK
    PROVE  /\ Len(waiters) \in Nat /\ DOMAIN waiters = 1 .. Len(waiters)
           /\ \A n \in DOMAIN waiters : waiters[n].slot \in Slots /\ waiters[n].key \in Indices
<1>1. waiters \in Seq(Waiter) BY Zenon DEF TypeOK
<1>2. \A n \in DOMAIN waiters : waiters[n] \in Waiter BY <1>1
<1> QED BY <1>1, <1>2 DEF Waiter

\* A slot without an entry stays without one; one with an entry goes on to leave.
LEMMA SlotMoves ==
    ASSUME TypeOK, TypeOK', ListInv, NEW s \in Slots, Only(s), UNCHANGED waiters,
           \/ /\ pc[s] \in {"idle", "checked"} \/ woken[s]
              /\ pc'[s] = "idle" \/ (pc'[s] = "checked" /\ ~woken'[s])
           \/ /\ pc[s] = "parked" /\ pc'[s] = "leaving"
              /\ call'[s] = call[s] /\ (woken'[s] <=> woken[s])
    PROVE  ListInv'
BY Entries DEF ListInv, Only

\* A new entry at the end of the list.
LEMMA SlotRegisters ==
    ASSUME TypeOK, TypeOK', ListInv, NEW s \in Slots, NEW c \in Calls, Register(s, c), Only(s),
           pc[s] \in {"idle", "checked"}, ~woken'[s]
    PROVE  ListInv'
<1> DEFINE e == [key |-> c.index, slot |-> s]
<1>1. /\ \A n \in DOMAIN waiters : waiters[n].slot \in Slots /\ waiters[n].slot # s
      /\ Len(waiters) \in Nat /\ DOMAIN waiters = 1 .. Len(waiters)
  BY Entries, Zenon DEF ListInv
<1>2. /\ DOMAIN waiters' = 1 .. Len(waiters) + 1
      /\ waiters'[Len(waiters) + 1] = e
      /\ \A n \in DOMAIN waiters : waiters'[n] = waiters[n]
  BY DEF Register, TypeOK
<1>3. pc'[s] = "parked" /\ call'[s] = c BY DEF Register, TypeOK
<1>4. \A n \in DOMAIN waiters' : n \in DOMAIN waiters \/ n = Len(waiters) + 1 BY <1>1, <1>2
<1>5. Len(waiters) + 1 \in DOMAIN waiters' /\ DOMAIN waiters \subseteq DOMAIN waiters'
  BY <1>1, <1>2
<1> HIDE DEF e
<1>6. e.key = c.index /\ e.slot = s BY Zenon DEF e
<1>7. \A n \in DOMAIN waiters' :
        /\ pc'[waiters'[n].slot] \in {"parked", "leaving"} /\ ~woken'[waiters'[n].slot]
        /\ waiters'[n].key = call'[waiters'[n].slot].index
  BY <1>1, <1>2, <1>3, <1>4, <1>6 DEF ListInv, Only
<1>8. \A m, n \in DOMAIN waiters' : waiters'[m].slot = waiters'[n].slot => m = n
  BY <1>1, <1>2, <1>4, <1>6 DEF ListInv
<1>9. ASSUME NEW t \in Slots, pc'[t] \in {"parked", "leaving"}, ~woken'[t]
      PROVE  \E n \in DOMAIN waiters' : waiters'[n].slot = t
  <2>1. CASE t = s BY <2>1, <1>2, <1>5, <1>6, Zenon
  <2>2. CASE t # s BY <2>2, <1>2, <1>5, <1>9 DEF ListInv, Only
  <2> QED BY <2>1, <2>2, Zenon
<1>10. \A t \in Slots : pc'[t] = "checked" => ~woken'[t] BY <1>3, Zenon DEF ListInv, Only
<1> QED BY <1>7, <1>8, <1>9, <1>10, Zenon DEF ListInv

\* An entry taken off the list with the wait it was for.
LEMMA SlotLeaves ==
    ASSUME TypeOK, TypeOK', ListInv, NEW s \in Slots, Deregister(s), Only(s), pc'[s] = "idle"
    PROVE  ListInv'
<1> DEFINE kept == DOMAIN waiters \ Registered(s)
<1>1. \A n \in DOMAIN waiters : waiters[n].slot \in Slots /\ (n \in kept <=> waiters[n].slot # s)
  BY Entries, Zenon DEF Registered
<1>2. kept \in SUBSET DOMAIN waiters /\ Retain(kept) BY Zenon DEF Deregister
<1> HIDE DEF kept
<1>3. /\ \A i \in DOMAIN waiters' : \E n \in kept : waiters'[i] = waiters[n]
      /\ \A n \in kept : \E i \in DOMAIN waiters' : waiters'[i] = waiters[n]
      /\ \A i, j \in DOMAIN waiters' : waiters'[i].slot = waiters'[j].slot => i = j
  <2>1. waiters \in Seq(Waiter) BY Zenon DEF TypeOK
  <2>2. \A m, n \in kept : waiters[m].slot = waiters[n].slot => m = n BY <1>2, Zenon DEF ListInv
  <2> QED BY <1>2, <2>1, <2>2, Retained, Zenon
<1>4. \A i \in DOMAIN waiters' :
        /\ pc'[waiters'[i].slot] \in {"parked", "leaving"} /\ ~woken'[waiters'[i].slot]
        /\ waiters'[i].key = call'[waiters'[i].slot].index
  BY <1>1, <1>2, <1>3 DEF ListInv, Only
<1>5. ASSUME NEW t \in Slots, pc'[t] \in {"parked", "leaving"}, ~woken'[t]
      PROVE  \E i \in DOMAIN waiters' : waiters'[i].slot = t
  <2>1. t # s BY <1>5, Zenon
  <2>2. PICK n \in DOMAIN waiters : waiters[n].slot = t BY <1>5, <2>1, Zenon DEF ListInv, Only
  <2> QED BY <1>1, <1>3, <2>1, <2>2, Zenon
<1>6. \A t \in Slots : pc'[t] = "checked" => ~woken'[t] BY Zenon DEF ListInv, Only
<1> QED BY <1>3, <1>4, <1>5, <1>6, Zenon DEF ListInv

\* The entries a notify takes off are those whose slots it wakes.
LEMMA SlotsNotified ==
    ASSUME TypeOK, TypeOK', ListInv, NEW a \in Agents, NEW k \in Indices,
           NEW count \in 0 .. MaxCount, notify(a, k, count)
    PROVE  ListInv'
<1> DEFINE up == Scan(k, count)
           kept == DOMAIN waiters \ up
<1>1. kept \in SUBSET DOMAIN waiters /\ Retain(kept) /\ up \subseteq DOMAIN waiters
      /\ DOMAIN waiters \subseteq kept \cup up /\ kept \cap up = {}
  BY Zenon DEF notify, Scan, At
<1>2. UNCHANGED <<pc, call>> BY Zenon DEF notify
<1>3. \A s \in Slots : woken'[s] <=> (woken[s] \/ \E n \in up : waiters[n].slot = s)
  BY Zenon DEF notify
<1>4. \A n \in DOMAIN waiters : waiters[n].slot \in Slots BY Entries, Zenon
<1> HIDE DEF up, kept
<1>5. /\ \A i \in DOMAIN waiters' : \E n \in kept : waiters'[i] = waiters[n]
      /\ \A n \in kept : \E i \in DOMAIN waiters' : waiters'[i] = waiters[n]
      /\ \A i, j \in DOMAIN waiters' : waiters'[i].slot = waiters'[j].slot => i = j
  <2>1. waiters \in Seq(Waiter) BY Zenon DEF TypeOK
  <2>2. \A m, n \in kept : waiters[m].slot = waiters[n].slot => m = n BY <1>1, Zenon DEF ListInv
  <2> QED BY <1>1, <2>1, <2>2, Retained, Zenon
<1>6. \A n \in kept : ~woken'[waiters[n].slot]
  BY <1>1, <1>3, <1>4 DEF ListInv
<1>7. \A i \in DOMAIN waiters' :
        /\ pc'[waiters'[i].slot] \in {"parked", "leaving"} /\ ~woken'[waiters'[i].slot]
        /\ waiters'[i].key = call'[waiters'[i].slot].index
  BY <1>1, <1>2, <1>5, <1>6 DEF ListInv
<1>8. ASSUME NEW t \in Slots, pc'[t] \in {"parked", "leaving"}, ~woken'[t]
      PROVE  \E i \in DOMAIN waiters' : waiters'[i].slot = t
  <2>1. PICK n \in DOMAIN waiters : waiters[n].slot = t BY <1>2, <1>3, <1>8, Zenon DEF ListInv
  <2>2. n \in kept BY <1>1, <1>3, <1>8, <2>1, Zenon
  <2> QED BY <1>5, <2>1, <2>2, Zenon
<1>9. \A t \in Slots : pc'[t] = "checked" => ~woken'[t]
  <2>1. \A n \in up : pc[waiters[n].slot] # "checked" BY <1>1, Zenon DEF ListInv
  <2> QED BY <1>2, <1>3, <2>1 DEF ListInv
<1> QED BY <1>5, <1>7, <1>8, <1>9, Zenon DEF ListInv
-----------------------------------------------------------------------------
\* Every step keeps the list exact.
LEMMA NextListInv == TypeOK /\ TypeOK' /\ ListInv /\ [Next]_vars => ListInv'
<1> SUFFICES ASSUME TypeOK, TypeOK', ListInv, [Next]_vars PROVE ListInv'
  BY Zenon
<1>0. CASE UNCHANGED vars BY <1>0, Zenon DEF vars, ListInv
<1>1. ASSUME NEW a \in Agents, NEW k \in Indices, NEW v \in Values, store(a, k, v)
      PROVE  ListInv'
  BY <1>1, Zenon DEF store, ListInv
<1>2. ASSUME NEW a \in Agents, NEW k \in Indices, NEW n \in 0 .. MaxCount, notify(a, k, n)
      PROVE  ListInv'
  BY <1>2, SlotsNotified, Zenon
<1>3. ASSUME NEW a \in Agents \ MainAgents, NEW c \in Calls, wait(a, c)
      PROVE  ListInv'
  <2>1. sync(a) \in Slots /\ pc[sync(a)] = "idle" BY <1>3, RunsIdle, Constants, Zenon DEF wait
  <2>2. UNCHANGED waiters /\ ~woken'[sync(a)] /\ pc'[sync(a)] \in {"idle", "checked"}
    BY <1>3, <2>1 DEF wait, Return, TypeOK
  <2>3. Only(sync(a)) BY <1>3, <2>1 DEF wait, Return, TypeOK, Only
  <2> QED BY <2>1, <2>2, <2>3, SlotMoves, Zenon
<1>4. ASSUME NEW a \in Agents \ MainAgents, atomics_park(a)
      PROVE  ListInv'
  <2>1. /\ sync(a) \in Slots /\ pc[sync(a)] = "checked" /\ ~woken[sync(a)]
        /\ call[sync(a)] \in Calls /\ UNCHANGED woken
    BY <1>4, Constants, Zenon DEF atomics_park, TypeOK, ListInv
  <2>2. CASE Return(sync(a), "not-equal") /\ UNCHANGED waiters
    <3>1. pc'[sync(a)] = "idle" /\ Only(sync(a)) BY <2>1, <2>2 DEF Return, Only, TypeOK
    <3> QED BY <2>1, <2>2, <3>1, SlotMoves, Zenon
  <2>3. CASE Register(sync(a), call[sync(a)])
    <3>1. Only(sync(a)) BY <2>1, <2>3 DEF Register, Only, TypeOK
    <3> QED BY <2>1, <2>3, <3>1, SlotRegisters, Zenon
  <2> QED BY <1>4, <2>2, <2>3, Zenon DEF atomics_park
<1>5. ASSUME NEW a \in Agents \ MainAgents, WakeUp(a)
      PROVE  ListInv'
  <2>1. /\ sync(a) \in Slots /\ pc[sync(a)] = "parked" /\ pc'[sync(a)] = "leaving"
        /\ UNCHANGED <<waiters, call, woken>>
    BY <1>5, Constants, Zenon DEF WakeUp, TypeOK
  <2>2. Only(sync(a)) BY <1>5, <2>1 DEF WakeUp, Only, TypeOK
  <2> QED BY <2>1, <2>2, SlotMoves, Zenon
<1>6. ASSUME NEW a \in Agents \ MainAgents, Leave(a)
      PROVE  ListInv'
  <2>1. sync(a) \in Slots /\ UNCHANGED woken /\ Deregister(sync(a)) BY <1>6, Constants, Zenon DEF Leave
  <2>2. pc'[sync(a)] = "idle" /\ Only(sync(a)) BY <1>6, <2>1 DEF Leave, Return, Only, TypeOK
  <2> QED BY <2>1, <2>2, SlotLeaves, Zenon
<1>7. ASSUME NEW a \in AsyncAgents, NEW c \in Calls, waitAsync(a, c)
      PROVE  ListInv'
  <2>1. async(a) \in Slots /\ pc[async(a)] = "idle" /\ ~woken'[async(a)]
    BY <1>7, Constants, Zenon DEF waitAsync, TypeOK
  <2>2. \A t \in Slots \ {async(a)} : woken'[t] <=> woken[t]
    BY <1>7, <2>1 DEF waitAsync, TypeOK
  <2>3. CASE \E r : Return(async(a), r) /\ UNCHANGED waiters
    <3>1. pc'[async(a)] = "idle" /\ Only(async(a)) BY <2>1, <2>2, <2>3 DEF Return, Only, TypeOK
    <3> QED BY <2>1, <2>3, <3>1, SlotMoves, Zenon
  <2>4. CASE Register(async(a), c)
    <3>1. Only(async(a)) BY <2>1, <2>2, <2>4 DEF Register, Only, TypeOK
    <3> QED BY <2>1, <2>4, <3>1, SlotRegisters, Zenon
  <2> QED BY <1>7, <2>3, <2>4, Zenon DEF waitAsync
<1>8. ASSUME NEW a \in AsyncAgents, poll(a)
      PROVE  ListInv'
  <2>1. async(a) \in Slots /\ pc[async(a)] = "parked" /\ UNCHANGED <<waiters, woken>>
    BY <1>8, Constants, Zenon DEF poll
  <2>2. CASE woken[async(a)] /\ Return(async(a), "ok")
    <3>1. pc'[async(a)] = "idle" /\ Only(async(a)) BY <2>1, <2>2 DEF Return, Only, TypeOK
    <3> QED BY <2>1, <2>2, <3>1, SlotMoves, Zenon
  <2>3. CASE pc' = [pc EXCEPT ![async(a)] = "leaving"] /\ UNCHANGED call
    <3>1. pc'[async(a)] = "leaving" /\ Only(async(a)) BY <2>1, <2>3, Zenon DEF Only, TypeOK
    <3> QED BY <2>1, <2>3, <3>1, SlotMoves, Zenon
  <2> QED BY <1>8, <2>2, <2>3, Zenon DEF poll
<1>9. ASSUME NEW a \in AsyncAgents, deregister(a)
      PROVE  ListInv'
  <2>1. async(a) \in Slots /\ UNCHANGED woken /\ Deregister(async(a))
    BY <1>9, Constants, Zenon DEF deregister
  <2>2. pc'[async(a)] = "idle" /\ Only(async(a))
    BY <1>9, <2>1 DEF deregister, Return, Only, TypeOK
  <2> QED BY <2>1, <2>2, SlotLeaves, Zenon
<1> QED BY <1>0, <1>1, <1>2, <1>3, <1>4, <1>5, <1>6, <1>7, <1>8, <1>9, Zenon DEF Next
-----------------------------------------------------------------------------
(* No wake-up is missed.                                                    *)

\* There are no more entries for an index than there are slots, so a notify
\* of the largest count takes all of them.
LEMMA NotifyAllTakesAll ==
    ASSUME TypeOK, ListInv, NEW k \in Indices
    PROVE  Scan(k, MaxCount) = At(k)
<1> DEFINE f == [n \in DOMAIN waiters |-> waiters[n].slot]
<1>1. f \in Injection(DOMAIN waiters, Slots)
  BY Entries, Zenon DEF ListInv, Injection, IsInjective
<1>2. IsFiniteSet(DOMAIN waiters) /\ Cardinality(DOMAIN waiters) <= Cardinality(Slots)
  BY <1>1, CountAssumption, FS_Injection, Zenon
<1>3. ASSUME NEW n \in At(k) PROVE Rank(n, k) <= MaxCount
  <2>1. {m \in At(k) : m <= n} \in SUBSET DOMAIN waiters BY Zenon DEF At
  <2>2. Rank(n, k) <= Cardinality(DOMAIN waiters) BY <1>2, <2>1, FS_Subset, Zenon DEF Rank
  <2>3. Rank(n, k) \in Nat
    BY <1>2, <2>1, FS_Subset, FS_CardinalityType, Zenon DEF Rank
  <2>4. Cardinality(DOMAIN waiters) \in Nat /\ Cardinality(Slots) \in Nat
    BY <1>2, CountAssumption, FS_CardinalityType, Zenon
  <2> QED BY <1>2, <2>2, <2>3, <2>4, CountAssumption, WaitAssumption
<1> QED BY <1>3, Zenon DEF Scan

\* What NoMissedWakeUp says of one slot.
Awaits(s) ==
    pc[s] = "parked" /\ ~woken[s] /\ told[call[s].index]
        => mem[call[s].index] = call[s].expected

\* A step about one slot that leaves the memory alone keeps it for the others.
LEMMA OthersAwait ==
    ASSUME NoMissedWakeUp, NEW s \in Slots, Only(s), UNCHANGED <<mem, told>>, Awaits(s)'
    PROVE  NoMissedWakeUp'
<1>1. ASSUME NEW t \in Slots PROVE Awaits(t)'
  <2>1. CASE t = s BY <2>1, Zenon
  <2>2. CASE t # s BY <2>2 DEF Only, NoMissedWakeUp, Awaits
  <2> QED BY <2>1, <2>2, Zenon
<1> QED BY <1>1, Zenon DEF NoMissedWakeUp, Awaits

\* Every step keeps NoMissedWakeUp: a store forgets that everyone was told, an
\* entry is made only after comparing under the lock of the list.
LEMMA NextNoMissed ==
    TypeOK /\ TypeOK' /\ ListInv /\ NoMissedWakeUp /\ [Next]_vars => NoMissedWakeUp'
<1> SUFFICES ASSUME TypeOK, TypeOK', ListInv, NoMissedWakeUp, [Next]_vars PROVE NoMissedWakeUp'
  BY Zenon
<1>0. CASE UNCHANGED vars BY <1>0, Zenon DEF vars, NoMissedWakeUp
<1>1. ASSUME NEW a \in Agents, NEW k \in Indices, NEW v \in Values, store(a, k, v)
      PROVE  NoMissedWakeUp'
  <2>1. /\ UNCHANGED <<pc, call, woken>> /\ ~told'[k]
        /\ \A l \in Indices \ {k} : (told'[l] <=> told[l]) /\ mem'[l] = mem[l]
    BY <1>1 DEF store, TypeOK
  <2>2. \A s \in Slots : call[s].index \in Indices BY Constants, Zenon DEF TypeOK
  <2> QED BY <2>1, <2>2, Zenon DEF NoMissedWakeUp
<1>2. ASSUME NEW a \in Agents, NEW k \in Indices, NEW n \in 0 .. MaxCount, notify(a, k, n)
      PROVE  NoMissedWakeUp'
  <2>0. \A l \in Indices : told'[l] <=> (told[l] \/ (l = k /\ n = MaxCount)) BY <1>2, Zenon DEF notify, TypeOK
  <2>1. /\ UNCHANGED <<mem, pc, call>>
        /\ \A l \in Indices : told'[l] <=> (told[l] \/ (l = k /\ n = MaxCount))
        /\ \A s \in Slots : woken'[s] <=> (woken[s] \/ \E m \in Scan(k, n) : waiters[m].slot = s)
    BY <1>2, <2>0, Zenon DEF notify
  <2>2. ASSUME NEW s \in Slots, pc[s] = "parked", ~woken'[s], told'[call[s].index]
        PROVE  told[call[s].index]
    <3>1. call[s].index \in Indices BY Constants, Zenon DEF TypeOK
    <3>2. SUFFICES ASSUME call[s].index = k, n = MaxCount PROVE FALSE BY <2>1, <2>2, <3>1, Zenon
    <3>3. PICK m \in DOMAIN waiters : waiters[m].slot = s BY <2>1, <2>2, Zenon DEF ListInv
    <3>4. m \in At(k) BY <3>2, <3>3, Zenon DEF ListInv, At
    <3>5. m \in Scan(k, n) BY <3>2, <3>4, NotifyAllTakesAll, Zenon
    <3> QED BY <2>1, <2>2, <3>3, <3>5, Zenon
  <2>3. \A s \in Slots : ~woken'[s] => ~woken[s] BY <2>1, Zenon
  <2> QED BY <2>1, <2>2, <2>3, Zenon DEF NoMissedWakeUp
<1>3. ASSUME NEW a \in Agents \ MainAgents, NEW c \in Calls, wait(a, c)
      PROVE  NoMissedWakeUp'
  <2>1. sync(a) \in Slots /\ UNCHANGED <<mem, told>> BY <1>3, Constants, Zenon DEF wait
  <2>2. Only(sync(a)) BY <1>3, <2>1 DEF wait, Return, TypeOK, Only
  <2>3. pc'[sync(a)] # "parked" BY <1>3, <2>1, Zenon DEF wait, Return, TypeOK
  <2> QED BY <2>1, <2>2, <2>3, OthersAwait, Zenon DEF Awaits
<1>4. ASSUME NEW a \in Agents \ MainAgents, atomics_park(a)
      PROVE  NoMissedWakeUp'
  <2>1. sync(a) \in Slots /\ UNCHANGED <<mem, told, woken>> BY <1>4, Constants, Zenon DEF atomics_park
  <2>2. Only(sync(a)) BY <1>4, <2>1 DEF atomics_park, Return, Register, TypeOK, Only
  <2>3. pc'[sync(a)] # "parked" \/ mem'[call'[sync(a)].index] = call'[sync(a)].expected
    BY <1>4, <2>1, Zenon DEF atomics_park, Return, Register, TypeOK
  <2> QED BY <2>1, <2>2, <2>3, OthersAwait, Zenon DEF Awaits
<1>5. ASSUME NEW a \in Agents \ MainAgents, WakeUp(a)
      PROVE  NoMissedWakeUp'
  <2>1. sync(a) \in Slots /\ UNCHANGED <<mem, told>> /\ pc'[sync(a)] # "parked"
    BY <1>5, Constants, Zenon DEF WakeUp, TypeOK
  <2>2. Only(sync(a)) BY <1>5, <2>1, Zenon DEF WakeUp, Only, TypeOK
  <2> QED BY <2>1, <2>2, OthersAwait, Zenon DEF Awaits
<1>6. ASSUME NEW a \in Agents \ MainAgents, Leave(a)
      PROVE  NoMissedWakeUp'
  <2>1. sync(a) \in Slots /\ UNCHANGED <<mem, told, woken>> BY <1>6, Constants, Zenon DEF Leave
  <2>2. pc'[sync(a)] # "parked" /\ Only(sync(a))
    BY <1>6, <2>1 DEF Leave, Return, Only, TypeOK
  <2> QED BY <2>1, <2>2, OthersAwait, Zenon DEF Awaits
<1>7. ASSUME NEW a \in AsyncAgents, NEW c \in Calls, waitAsync(a, c)
      PROVE  NoMissedWakeUp'
  <2>1. async(a) \in Slots /\ UNCHANGED <<mem, told>> BY <1>7, Constants, Zenon DEF waitAsync
  <2>2. Only(async(a)) BY <1>7, <2>1 DEF waitAsync, Return, Register, TypeOK, Only
  <2>3. pc'[async(a)] # "parked" \/ mem'[call'[async(a)].index] = call'[async(a)].expected
    BY <1>7, <2>1, Zenon DEF waitAsync, Return, Register, TypeOK
  <2> QED BY <2>1, <2>2, <2>3, OthersAwait, Zenon DEF Awaits
<1>8. ASSUME NEW a \in AsyncAgents, poll(a)
      PROVE  NoMissedWakeUp'
  <2>1. async(a) \in Slots /\ UNCHANGED <<mem, told, woken>> BY <1>8, Constants, Zenon DEF poll
  <2>2. Only(async(a)) BY <1>8, <2>1 DEF poll, Return, TypeOK, Only
  <2>3. pc'[async(a)] # "parked" BY <1>8, <2>1, Zenon DEF poll, Return, TypeOK
  <2> QED BY <2>1, <2>2, <2>3, OthersAwait, Zenon DEF Awaits
<1>9. ASSUME NEW a \in AsyncAgents, deregister(a)
      PROVE  NoMissedWakeUp'
  <2>1. async(a) \in Slots /\ UNCHANGED <<mem, told, woken>> BY <1>9, Constants, Zenon DEF deregister
  <2>2. pc'[async(a)] # "parked" /\ Only(async(a))
    BY <1>9, <2>1 DEF deregister, Return, Only, TypeOK
  <2> QED BY <2>1, <2>2, OthersAwait, Zenon DEF Awaits
<1> QED BY <1>0, <1>1, <1>2, <1>3, <1>4, <1>5, <1>6, <1>7, <1>8, <1>9, Zenon DEF Next

\* The inductive invariant holds.
LEMMA InvariantHolds == Spec => []WaitInv
<1>1. Init => WaitInv
  <2> SUFFICES ASSUME Init PROVE WaitInv BY Zenon
  <2>1. TypeOK BY Constants DEF Init, TypeOK
  <2>2. ListInv BY DEF Init, ListInv
  <2>3. NoMissedWakeUp BY Zenon DEF Init, NoMissedWakeUp
  <2> QED BY <2>1, <2>2, <2>3, Zenon DEF WaitInv
<1>2. WaitInv /\ [Next]_vars => WaitInv'
  BY NextTypeOK, NextListInv, NextNoMissed, Zenon DEF WaitInv
<1> QED BY <1>1, <1>2, PTL DEF Spec

\* The waiter list is exact, for any number of agents: a wait that is under way
\* and not notified has one entry under its own key, any other wait has none.
THEOREM WaiterListIsExact == Spec => []ListIsExact
<1>1. WaitInv => ListIsExact
  <2> SUFFICES ASSUME TypeOK, ListInv, NEW s \in Slots
               PROVE  IF pc[s] \in {"parked", "leaving"} /\ ~woken[s]
                      THEN \E n \in DOMAIN waiters :
                              Registered(s) = {n} /\ waiters[n].key = call[s].index
                      ELSE Registered(s) = {}
    BY Zenon DEF WaitInv, ListIsExact
  <2>1. CASE pc[s] \in {"parked", "leaving"} /\ ~woken[s]
    <3>1. PICK n \in DOMAIN waiters : waiters[n].slot = s BY <2>1, Zenon DEF ListInv
    <3>2. Registered(s) = {n} BY <3>1 DEF ListInv, Registered
    <3> QED BY <2>1, <3>1, <3>2, Zenon DEF ListInv
  <2>2. CASE ~(pc[s] \in {"parked", "leaving"} /\ ~woken[s])
    <3>1. Registered(s) = {} BY <2>2 DEF ListInv, Registered
    <3> QED BY <2>2, <3>1, Zenon
  <2> QED BY <2>1, <2>2, Zenon
<1> QED BY <1>1, InvariantHolds, PTL

\* No wake-up is missed between comparing and going to sleep, for any number of
\* agents, indices and values.
THEOREM NoWakeUpIsMissed == Spec => []NoMissedWakeUp
<1>1. WaitInv => NoMissedWakeUp BY Zenon DEF WaitInv
<1> QED BY <1>1, InvariantHolds, PTL
-----------------------------------------------------------------------------
(* A notify wakes the first waiters.                                        *)

\* The smaller of two numbers.
LEMMA MinOfTwo ==
    ASSUME NEW x \in Nat, NEW y \in Nat
    PROVE  Min({x, y}) = IF x <= y THEN x ELSE y
<1> DEFINE m == IF x <= y THEN x ELSE y
<1>1. m \in {x, y} /\ \A z \in {x, y} : m <= z OBVIOUS
<1>2. Min({x, y}) \in {x, y} /\ \A z \in {x, y} : Min({x, y}) <= z
  BY <1>1, Zenon DEF Min
<1> QED BY <1>1, <1>2

\* The entries a notify takes are the first ones for its index, as many as it
\* asks for or all there are.
LEMMA ScanTakesFirst ==
    ASSUME TypeOK, NEW k \in Indices, NEW n \in Nat
    PROVE  /\ \A m \in Scan(k, n), l \in At(k) \ Scan(k, n) : m < l
           /\ IsFiniteSet(Scan(k, n))
           /\ Cardinality(Scan(k, n)) = Min({n, Cardinality(At(k))})
<1> DEFINE A == At(k)
           up == Scan(k, n)
           upTo(m) == {j \in A : j <= m}
<1>1. Len(waiters) \in Nat /\ A \subseteq 1 .. Len(waiters) BY Entries, Zenon DEF At
<1>2. IsFiniteSet(1 .. Len(waiters)) BY <1>1, FS_Interval
<1>3. IsFiniteSet(A) BY <1>1, <1>2, FS_Subset, Zenon
<1>4. up \subseteq A /\ \A m \in A : m \in up <=> Cardinality(upTo(m)) <= n
  BY Zenon DEF Scan, Rank
<1> HIDE DEF A, up
<1>5. IsFiniteSet(up) BY <1>3, <1>4, FS_Subset, Zenon
<1>6. \A m \in A : IsFiniteSet(upTo(m)) /\ Cardinality(upTo(m)) \in Nat
  <2> TAKE m \in A
  <2>1. upTo(m) \in SUBSET A BY Zenon
  <2>2. IsFiniteSet(upTo(m)) BY <1>3, <2>1, FS_Subset, Zenon
  <2> QED BY <2>2, FS_CardinalityType, Zenon
<1>7. Cardinality(A) \in Nat /\ Cardinality(up) \in Nat /\ Cardinality(up) <= Cardinality(A)
  BY <1>3, <1>4, <1>5, FS_Subset, FS_CardinalityType, Zenon
<1>8. ASSUME NEW m \in up, NEW l \in A \ up PROVE m < l
  <2>1. m \in Nat /\ l \in Nat BY <1>1, <1>4
  <2>2. SUFFICES ASSUME l <= m PROVE FALSE BY <2>1
  <2>3. upTo(l) \in SUBSET upTo(m)
    <3>1. \A j \in A : j \in Nat BY <1>1
    <3>2. \A j \in A : j <= l => j <= m BY <2>1, <2>2, <3>1
    <3> QED BY <3>2, Zenon
  <2>4. m \in A BY <1>4, Zenon
  <2>5. Cardinality(upTo(l)) <= Cardinality(upTo(m)) BY <1>6, <2>3, <2>4, FS_Subset, Zenon
  <2>6. Cardinality(upTo(m)) <= n /\ ~(Cardinality(upTo(l)) <= n) BY <1>4, <2>4, Zenon
  <2> QED BY <1>6, <2>4, <2>5, <2>6
<1>9. Cardinality(up) <= n
  <2>1. CASE up = {} BY <2>1, FS_EmptySet
  <2>2. CASE up # {}
    <3>1. up \in SUBSET (0 .. Len(waiters)) BY <1>1, <1>4
    <3>2. PICK m \in up : \A j \in up : j <= m BY <1>1, <2>2, <3>1, GreatestNumber, Zenon
    <3>3. \A j \in A : j \in Nat BY <1>1
    <3>4. upTo(m) = up
      <4>1. \A j \in up : j \in upTo(m) BY <1>4, <3>2, Zenon
      <4>2. \A j \in A : j <= m => j \in up BY <1>4, <1>8, <3>3
      <4> QED BY <4>1, <4>2, Zenon
    <3>5. m \in A /\ Cardinality(upTo(m)) <= n BY <1>4, Zenon
    <3> HIDE DEF upTo
    <3> QED BY <3>4, <3>5, Zenon
  <2> QED BY <2>1, <2>2, Zenon
<1>10. CASE up = A
  BY <1>5, <1>7, <1>8, <1>9, <1>10, MinOfTwo DEF A, up
<1>11. CASE up # A
  <2>1. A \ up \in SUBSET Nat /\ A \ up # {}
    <3>1. \A j \in A : j \in Nat BY <1>1
    <3> QED BY <1>4, <1>11, <3>1, Zenon
  <2>2. PICK l \in A \ up : \A j \in A \ up : l <= j
    <3> DEFINE T == A \ up
    <3> HIDE DEF T
    <3>1. \E l \in T : \A j \in T : l <= j BY <2>1, LeastNumber, Zenon DEF T
    <3> QED BY <3>1, Zenon DEF T
  <2>3. \A j \in A : j \in Nat BY <1>1
  <2>4. upTo(l) = up \cup {l}
    <3>1. \A j \in up : j \in upTo(l) BY <1>4, <1>8, <2>3
    <3>2. l \in upTo(l) BY <2>3
    <3>3. \A j \in A : j <= l => j \in up \/ j = l BY <2>2, <2>3
    <3> QED BY <3>1, <3>2, <3>3, Zenon
  <2>5. Cardinality(up \cup {l}) = Cardinality(up) + 1 BY <1>5, FS_AddElement, Zenon
  <2>6. ~(Cardinality(upTo(l)) <= n) BY <1>4, Zenon
  <2>7. Cardinality(up) = n
    <3> HIDE DEF upTo
    <3> QED BY <1>7, <1>9, <2>4, <2>5, <2>6
  <2> QED BY <1>5, <1>7, <1>8, <2>7, MinOfTwo DEF A, up
<1> QED BY <1>10, <1>11, Zenon

\* Atomics.notify wakes the waiters of its index in the order they came, as many
\* as it asks for or all there are, and takes exactly those off the list.
THEOREM NotifyWakesFirst == Spec => NotifyInOrder
<1>1. ASSUME WaitInv, NEW k \in Indices, NEW n \in 0 .. MaxCount, NEW a \in Agents, notify(a, k, n)
      PROVE  LET up == {m \in At(k) : woken'[waiters[m].slot]}
             IN /\ \A m \in up, l \in At(k) \ up : m < l
                /\ Cardinality(up) = Min({n, Cardinality(At(k))})
                /\ Len(waiters') = Len(waiters) - Cardinality(up)
  <2>0. TypeOK /\ ListInv BY <1>1, Zenon DEF WaitInv
  <2>1. n \in Nat BY WaitAssumption
  <2>2. {m \in At(k) : woken'[waiters[m].slot]} = Scan(k, n)
    <3>1. \A s \in Slots : woken'[s] <=> (woken[s] \/ \E m \in Scan(k, n) : waiters[m].slot = s)
      BY <1>1, Zenon DEF notify
    <3>2. \A m \in At(k) : m \in DOMAIN waiters /\ waiters[m].slot \in Slots BY <2>0, Entries, Zenon DEF At
    <3>3. Scan(k, n) \subseteq At(k) BY Zenon DEF Scan
    <3>4. ASSUME NEW m \in At(k) PROVE woken'[waiters[m].slot] <=> m \in Scan(k, n)
      <4>1. ~woken[waiters[m].slot] BY <2>0, <3>2, Zenon DEF ListInv
      <4>2. \A l \in Scan(k, n) : waiters[l].slot = waiters[m].slot => l = m
        BY <2>0, <3>2, <3>3, Zenon DEF ListInv
      <4> QED BY <3>1, <3>2, <4>1, <4>2
    <3> QED BY <3>3, <3>4, Zenon
  <2>3. Len(waiters') = Len(waiters) - Cardinality(Scan(k, n))
    <3> DEFINE D == DOMAIN waiters
    <3>1. Retain(D \ Scan(k, n)) BY <1>1, Zenon DEF notify
    <3>2. Len(waiters') = Cardinality(D \ Scan(k, n))
      <4>1. waiters \in Seq(Waiter) BY <2>0, Zenon DEF TypeOK
      <4>2. D \ Scan(k, n) \in SUBSET DOMAIN waiters BY Zenon
      <4> QED BY <3>1, <4>1, <4>2, Retained
    <3>3. IsFiniteSet(D) /\ Cardinality(D) = Len(waiters)
      <4>1. Len(waiters) \in Nat /\ D = 1 .. Len(waiters) BY <2>0, Entries, Zenon
      <4> DEFINE len == Len(waiters)
      <4> HIDE DEF D, len
      <4>2. len \in Nat /\ D = 1 .. len BY <4>1, Zenon DEF len
      <4>3. IsFiniteSet(1 .. len) /\ Cardinality(1 .. len) = len BY <4>2, FS_Interval
      <4> QED BY <4>2, <4>3, Zenon DEF len
    <3>4. D \cap Scan(k, n) = Scan(k, n) BY Zenon DEF Scan, At
    <3> HIDE DEF D
    <3>5. Cardinality(D \ Scan(k, n)) = Cardinality(D) - Cardinality(D \cap Scan(k, n))
      BY <3>3, FS_Difference, Zenon
    <3> QED BY <3>2, <3>3, <3>4, <3>5, Zenon
  <2> QED BY <2>0, <2>1, <2>2, <2>3, ScanTakesFirst, Zenon
<1> DEFINE Step == \A k \in Indices, n \in 0 .. MaxCount : (\E a \in Agents : notify(a, k, n)) =>
        LET up == {m \in At(k) : woken'[waiters[m].slot]}
        IN /\ \A m \in up, l \in At(k) \ up : m < l
           /\ Cardinality(up) = Min({n, Cardinality(At(k))})
           /\ Len(waiters') = Len(waiters) - Cardinality(up)
<1>2. WaitInv /\ [Next]_vars => [Step]_vars BY <1>1, Zenon
<1>3. [][Step]_vars => NotifyInOrder BY PTL DEF NotifyInOrder
<1> QED BY <1>2, <1>3, InvariantHolds, PTL DEF Spec
=============================================================================
