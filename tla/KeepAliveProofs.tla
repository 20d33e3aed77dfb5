------------------------- MODULE KeepAliveProofs -------------------------
(* What the counters of the event loop count, and the theorems about the     *)
(* loop: types, the order of the timers, exact counters, one completion per  *)
(* work, no missed wake-up, no lost call, and the contract.  ref_count is    *)
(* the number of holds (HoldInv) and napi_keepalive the number of queued and *)
(* running works plus the function's share (CountInv).                       *)
EXTENDS LoopContractProofs, FiniteSetTheorems

\* The counter's range leaves room for every work, the function and one more.
LEMMA Constants == /\ Cardinality(Works) \in Nat /\ Modulus \in Nat
                   /\ Modulus > Cardinality(Works) + 2 /\ Main \in Users
                   /\ IsFiniteSet(Users) /\ Cardinality(Users) \in Nat
                   /\ IsFiniteSet(Users \X (1 .. MaxHolds))
<1>1. Cardinality(Works) \in Nat BY NapiAssumption, FS_CardinalityType, Zenon
<1>2. IsFiniteSet({Main}) BY FS_Singleton, Zenon
<1>3. IsFiniteSet(Users) BY <1>2, NapiAssumption, FS_Union, Zenon DEF Users
<1>4. Cardinality(Users) \in Nat BY <1>3, FS_CardinalityType, Zenon
<1>5. IsFiniteSet(1 .. MaxHolds) BY NapiAssumption, FS_Interval
<1>6. IsFiniteSet(Users \X (1 .. MaxHolds)) BY <1>3, <1>5, FS_Product, Zenon
<1> QED BY <1>1, <1>3, <1>4, <1>6, NapiAssumption, Zenon DEF Users

----------------------------------------------------------------------------
(* The due timers.                                                           *)

\* The due timers are finitely many, and numbers.
LEMMA DueFinite ==
    ASSUME TimersOK
    PROVE IsFiniteSet(Due) /\ Cardinality(Due) \in Nat /\ Due \subseteq Nat
<1>1. Len(registered) \in Nat BY DEF TimersOK
<1>2. Due \subseteq 1 .. Len(registered) BY Zenon DEF Due, TimersOK
<1>3. IsFiniteSet(1 .. Len(registered)) BY <1>1, FS_Interval
<1>4. IsFiniteSet(Due) BY <1>2, <1>3, FS_Subset, Zenon
<1>5. Cardinality(Due) \in Nat BY <1>4, FS_CardinalityType, Zenon
<1>6. 1 .. Len(registered) \subseteq Nat BY <1>1
<1> QED BY <1>2, <1>4, <1>5, <1>6, Zenon

\* A strictly increasing sequence of as many due timers as there are is all of
\* them.
LEMMA OrderIsOnto ==
    ASSUME TimersOK, NEW order \in [1 .. Cardinality(Due) -> Due], InOrder(order)
    PROVE {order[i] : i \in DOMAIN order} = Due
<1> DEFINE n == Cardinality(Due)
<1>1. IsFiniteSet(Due) /\ n \in Nat /\ Due \subseteq Nat BY DueFinite, Zenon
<1>2. IsFiniteSet(1 .. n) /\ Cardinality(1 .. n) = n BY <1>1, FS_Interval
<1>3. \A i, j \in 1 .. n : order[i] = order[j] => i = j
  <2>1. \A i, j \in 1 .. n : i < j => order[i] < order[j] BY Zenon DEF InOrder
  <2>2. \A i \in 1 .. n : order[i] \in Nat BY <1>1, Zenon
  <2> QED BY <1>1, <2>1, <2>2
<1>4. order \in Injection(1 .. n, Due) BY <1>3, Zenon DEF Injection, IsInjective
<1>5. order \in Surjection(1 .. n, Due) BY <1>1, <1>2, <1>4, FS_Injection, Zenon
<1>6. \A t \in Due : \E i \in 1 .. n : order[i] = t BY <1>5, Zenon DEF Surjection
<1> QED BY <1>6, Zenon

\* The due timers of a table of the right type can be enumerated.
LEMMA DueIsEnumerable ==
    ASSUME TimersOK
    PROVE DueEnumerable
BY DueFinite, OrderIsOnto, Zenon DEF DueEnumerable

----------------------------------------------------------------------------
(* Types, and who holds the threadsafe function.                             *)

\* The program starts in a state of the right type.
LEMMA InitTypeOK == Init => TypeOK
<1> SUFFICES ASSUME Init PROVE TypeOK BY Zenon
<1> USE DEF Init, JobInit, TimerInit, NapiInit
<1>1. JobsOK BY DEF JobsOK, Points, JobsOf, Script, Job
<1>2. TimersOK BY DEF TimersOK
<1>3. InboxOK BY DEF InboxOK
<1>4. WorksOK BY Zenon DEF WorksOK
<1>5. FunctionOK BY Constants DEF FunctionOK
<1>6. FlagsOK BY Zenon DEF FlagsOK
<1> QED BY <1>1, <1>2, <1>3, <1>4, <1>5, <1>6, Zenon DEF TypeOK

\* release takes ref_count down from a positive number: the releasing thread
\* holds the function.
LEMMA HeldCounts ==
    ASSUME FunctionOK, ref_count = Cardinality(held)
    PROVE IsFiniteSet(held) /\ Cardinality(held) \in Nat /\ (Cardinality(held) = 0 <=> held = {})
          /\ \A h : /\ h \notin held => Cardinality(held \cup {h}) = ref_count + 1
                    /\ h \in held => Cardinality(held \ {h}) = ref_count - 1
<1>1. IsFiniteSet(held) BY Constants, FS_Subset, Zenon DEF FunctionOK
<1>2. Cardinality(held) \in Nat /\ (Cardinality(held) = 0 <=> held = {})
  BY <1>1, FS_CardinalityType, FS_EmptySet, Zenon
<1>3. ASSUME NEW h, h \notin held PROVE Cardinality(held \cup {h}) = ref_count + 1
  BY <1>1, <1>3, FS_AddElement, Zenon
<1>4. ASSUME NEW h, h \in held PROVE Cardinality(held \ {h}) = ref_count - 1
  BY <1>1, <1>4, FS_RemoveElement, Zenon
<1> QED BY <1>1, <1>2, <1>3, <1>4, Zenon

\* Every step keeps the threadsafe function's state of the right type.
LEMMA NextFunctionOK ==
    ASSUME TypeOK, ref_count = Cardinality(held), [Next]_vars
    PROVE FunctionOK'
<1> FunctionOK BY Zenon DEF TypeOK
<1> USE DEF FunctionOK
<1>1. keepalive' \in 0 .. (Modulus - 1)
  BY CounterSteps, CounterWraps, Zenon DEF queue_async_work, JobEnds, after_completion,
     create_threadsafe_function, counter_moves
<1>2. CASE UNCHANGED <<ref_count, active, keepalive_active, held, at, calls, unreffed>>
  BY <1>1, <1>2, Zenon
<1>3. CASE create_threadsafe_function
  <2>1. 1 \in 1 .. MaxHolds BY <1>3, NapiAssumption DEF create_threadsafe_function
  <2>2. held' \subseteq Users \X (1 .. MaxHolds) BY <1>3, <2>1, Zenon DEF create_threadsafe_function
  <2> QED BY <1>1, <1>3, <2>2, Constants, Zenon DEF create_threadsafe_function
<1>4. CASE ref \/ unref BY <1>1, <1>4, Zenon DEF ref, unref, goto
<1>5. ASSUME NEW p \in Users, call(p) \/ Inside(p) PROVE FunctionOK'
  BY <1>1, <1>5 DEF call, Inside, call_posts, call_wakes, release_closes, release_drops,
     counter_moves, goto, tsfn
<1>6. ASSUME NEW p \in Users, acquire(p) PROVE FunctionOK'
  BY <1>1, <1>6 DEF acquire
<1>7. ASSUME NEW p \in Users, release(p) PROVE FunctionOK'
  <2>1. PICK k \in 1 .. MaxHolds : <<p, k>> \in held /\ held' = held \ {<<p, k>>}
    BY <1>7, Zenon DEF release
  <2>2. ref_count # 0 BY <2>1, HeldCounts, Zenon
  <2> QED BY <1>1, <1>7, <2>1, <2>2 DEF release, goto
<1> QED BY <1>2, <1>3, <1>4, <1>5, <1>6, <1>7, FunctionSteps, Zenon

\* Type correctness, with the count of the function's holders it needs.
LEMMA NextTypeOK ==
    ASSUME TypeOK, ref_count = Cardinality(held), [Next]_vars
    PROVE TypeOK'
<1>1. DueEnumerable BY DueIsEnumerable, Zenon DEF TypeOK
<1> QED BY <1>1, NextJobsOK, NextTimersOK, NextInboxOK, NextWorksOK, NextFunctionOK, NextFlagsOK, Zenon
        DEF TypeOK

\* Nobody holds the function at first.
LEMMA InitHoldInv == Init => HoldInv
<1> SUFFICES ASSUME Init PROVE HoldInv OBVIOUS
<1>1. ref_count = Cardinality(held) BY FS_EmptySet, Zenon DEF Init, NapiInit
<1>2. \A p \in Users : at[p] = "out" BY Zenon DEF Init, NapiInit
<1>3. held = {} /\ ~keepalive_active BY Zenon DEF Init, NapiInit
<1> QED BY <1>1, <1>2, <1>3 DEF HoldInv, AtInv, AtMostOne

\* Every step of ref, unref, acquire, release and call keeps HoldInv.
LEMMA NextHoldInv ==
    ASSUME TypeOK, HoldInv, [Next]_vars
    PROVE HoldInv'
<1> FunctionOK BY Zenon DEF TypeOK
<1> USE DEF HoldInv
<1>1. CASE UNCHANGED <<ref_count, active, keepalive_active, held, at, calls, unreffed>>
  BY <1>1, Zenon DEF AtInv, AtMostOne, Holds
<1>2. CASE create_threadsafe_function
  <2>1. held' = Users \X {1} /\ ref_count' = Cardinality(Users) /\ active' /\ UNCHANGED at
    BY <1>2, Zenon DEF create_threadsafe_function
  <2>2. IsFiniteSet({1}) /\ Cardinality({1}) = 1 BY FS_Singleton, Zenon
  <2>3. Cardinality(Users \X {1}) = Cardinality(Users) * 1 BY <2>2, Constants, FS_Product, Zenon
  <2>4. ref_count' = Cardinality(held') BY <2>1, <2>3, Constants
  <2>5. \A p \in Users : at'[p] = "out" BY <1>2, Zenon DEF create_threadsafe_function
  <2>6. <<Main, 1>> \in held' BY <2>1, Constants, Zenon
  <2> QED BY <2>1, <2>4, <2>5, <2>6, Zenon DEF AtInv, AtMostOne
<1>3. CASE unref
  <2>1. /\ \A q \in Users : at'[q] = IF q = Main THEN "sub" ELSE at[q]
        /\ at[Main] = "out" /\ keepalive_active /\ ~keepalive_active'
        /\ UNCHANGED <<held, ref_count, active>> /\ Main \in Users
    BY <1>3, GotoMoves, Constants, Zenon DEF unref, Free
  <2> QED BY <2>1 DEF AtInv, AtMostOne, Holds
<1>4. CASE ref
  <2>1. /\ \A q \in Users : at'[q] = IF q = Main THEN "add" ELSE at[q]
        /\ at[Main] = "out" /\ keepalive_active' /\ ~keepalive_active
        /\ UNCHANGED <<held, ref_count, active>> /\ Main \in Users /\ Holds(Main)
    BY <1>4, GotoMoves, Constants, Zenon DEF ref, Able, Free
  <2>2. held # {} BY <2>1, Zenon DEF Holds
  <2> QED BY <2>1, <2>2, Zenon DEF AtInv, AtMostOne, Holds
<1>5. ASSUME NEW p \in Users, acquire(p) PROVE HoldInv'
  <2>1. PICK k \in 1 .. MaxHolds : <<p, k>> \notin held /\ held' = held \cup {<<p, k>>}
    BY <1>5, Zenon DEF acquire
  <2>0. Cardinality(held') = ref_count + 1
    <3> DEFINE h == <<p, k>>
    <3>1. h \notin held /\ held' = held \cup {h} BY <2>1, Zenon
    <3> HIDE DEF h
    <3>2. IsFiniteSet(held) /\ Cardinality(held) = ref_count BY HeldCounts, Zenon
    <3>3. Cardinality(held \cup {h}) = Cardinality(held) + 1 BY <3>1, <3>2, FS_AddElement, Zenon
    <3> QED BY <3>1, <3>2, <3>3, Zenon
  <2>2. ref_count' = Cardinality(held') BY <1>5, <2>0, Zenon DEF acquire
  <2>3. UNCHANGED <<at, active, keepalive_active>> BY <1>5, Zenon DEF acquire
  <2>4. held # {} BY <1>5, Zenon DEF acquire, Able, Holds
  <2> QED BY <2>1, <2>2, <2>3, <2>4, Zenon DEF AtInv, AtMostOne, Holds
<1>6. ASSUME NEW p \in Users, release(p) PROVE HoldInv'
  <2>1. PICK k \in 1 .. MaxHolds : <<p, k>> \in held /\ held' = held \ {<<p, k>>}
    BY <1>6, Zenon DEF release
  <2>2. ref_count' = Cardinality(held') BY <1>6, <2>1, HeldCounts DEF release
  <2>3. ref_count = 1 => held' = {}
    <3>1. IsFiniteSet(held') BY <2>1, HeldCounts, FS_Subset, Zenon
    <3> QED BY <1>6, <2>2, <3>1, FS_EmptySet DEF release
  <2>4. /\ \A q \in Users : at'[q] = IF q = p THEN IF ref_count = 1 THEN "last" ELSE "out" ELSE at[q]
        /\ UNCHANGED <<active, keepalive_active>> /\ at[p] = "out"
    BY <1>6, GotoMoves, Zenon DEF release, Able, Free
  <2>5. \A q \in Users : q # p /\ Holds(q) => Holds(q)' BY <2>1, Zenon DEF Holds
  <2>6. \A q \in Users : AtInv(q)'
    BY <2>1, <2>3, <2>4, <2>5 DEF AtInv
  <2>7. AtMostOne({"last", "drop"})' BY <2>1, <2>4, Zenon DEF AtInv, AtMostOne
  <2>8. AtMostOne({"sub"})' BY <2>4, Zenon DEF AtMostOne
  <2>9. held' # {} \/ at'[p] = "last"
    <3>1. Cardinality(held') = 0 <=> held' = {} BY <2>1, HeldCounts, FS_Subset, FS_EmptySet, Zenon
    <3>2. ref_count' = ref_count - 1 /\ ref_count \in Nat BY <1>6, Zenon DEF release, FunctionOK
    <3> QED BY <2>2, <2>4, <3>1, <3>2
  <2> QED BY <2>1, <2>2, <2>4, <2>6, <2>7, <2>8, <2>9
<1>7. ASSUME NEW p \in Users, call(p) \/ call_posts(p) \/ call_wakes(p) \/ counter_moves(p)
      PROVE HoldInv'
  <2>1. PICK l \in {"call", "wake", "out"} :
            /\ \A q \in Users : at'[q] = IF q = p THEN l ELSE at[q]
            /\ l # "out" => Holds(p)
            /\ at[p] \notin {"last", "drop"}
    BY <1>7, GotoMoves DEF call, call_posts, call_wakes, counter_moves, Able, Free, AtInv
  <2>2. UNCHANGED <<held, ref_count, active, keepalive_active>>
    BY <1>7, Zenon DEF call, call_posts, call_wakes, counter_moves, tsfn
  <2>3. (\E q \in Users : at[q] \in {"last", "drop"}) => \E q \in Users : at'[q] \in {"last", "drop"}
    BY <2>1, Zenon
  <2> QED BY <2>1, <2>2, <2>3 DEF AtInv, AtMostOne, Holds
<1>8. ASSUME NEW p \in Users, release_closes(p) PROVE HoldInv'
  <2>1. /\ \A q \in Users : at'[q] = IF q = p THEN "drop" ELSE at[q]
        /\ at[p] = "last" /\ held = {} /\ UNCHANGED <<ref_count, keepalive_active, held>>
    BY <1>8, GotoMoves, Zenon DEF release_closes, AtInv
  <2> QED BY <2>1 DEF AtInv, AtMostOne, Holds
<1>9. ASSUME NEW p \in Users, release_drops(p) PROVE HoldInv'
  <2>1. /\ \A q \in Users : at'[q] = IF q = p THEN IF keepalive_active THEN "sub" ELSE "out" ELSE at[q]
        /\ at[p] = "drop" /\ held = {} /\ UNCHANGED <<ref_count, active, held>>
        /\ ~keepalive_active'
    BY <1>9, GotoMoves DEF release_drops, AtInv
  <2>2. \A q \in Users : AtInv(q)' BY <2>1, Zenon DEF AtInv, Holds
  <2>3. AtMostOne({"last", "drop"})' BY <2>1, Zenon DEF AtMostOne
  <2>4. AtMostOne({"sub"})' BY <2>1 DEF AtMostOne, AtInv
  <2> QED BY <2>1, <2>2, <2>3, <2>4, Zenon
<1> QED BY <1>1, <1>2, <1>3, <1>4, <1>5, <1>6, <1>7, <1>8, <1>9, FunctionSteps DEF Inside

----------------------------------------------------------------------------
(* The counter.                                                              *)

\* A position holds the completion of w at most once.
LEMMA CountListed ==
    ASSUME NEW q, NEW w, QueuedOnce(q)
    PROVE Cardinality({i \in DOMAIN q : q[i] = Job("work", w)}) = One(Lists(q, w))
<1> DEFINE P == {i \in DOMAIN q : q[i] = Job("work", w)}
<1>1. CASE ~Lists(q, w)
  <2>1. P = {} BY <1>1, Zenon DEF Lists
  <2> QED BY <1>1, <2>1, FS_EmptySet, Zenon DEF One
<1>2. CASE Lists(q, w)
  <2>1. PICK i \in DOMAIN q : q[i] = Job("work", w) BY <1>2, Zenon DEF Lists
  <2>2. P = {i} BY <2>1 DEF QueuedOnce, Job
  <2> QED BY <1>2, <2>2, FS_Singleton, Zenon DEF One
<1> QED BY <1>1, <1>2, Zenon

\* WorkInv says where the one completion of a queued work is.
LEMMA WorkInvWorkInFlight == WorksOK /\ WorkInv => WorkInFlight
<1> SUFFICES ASSUME WorksOK, WorkInv, NEW w \in Works PROVE InFlight(w) = One(works[w] = "queued")
  BY Zenon DEF WorkInFlight
<1>1. InFlight(w) = One(w \in executing) + One(Lists(inbox, w)) + One(Lists(batch, w))
  BY CountListed, Zenon DEF InFlight, WorkInv
<1>2. Lists(inbox, w) => works[w] = "queued" /\ w \notin executing /\ ~Lists(batch, w)
  BY DEF WorkInv, QueuedOnce, Lists, Job
<1>3. Lists(batch, w) => works[w] = "queued" /\ w \notin executing
  BY DEF WorkInv, QueuedOnce, Lists, Job
<1>4. w \in executing => works[w] = "queued" BY Zenon DEF WorkInv
<1>5. works[w] = "queued" => w \in executing \/ Lists(inbox, w) \/ Lists(batch, w) BY Zenon DEF WorkInv
<1> QED BY <1>1, <1>2, <1>3, <1>4, <1>5 DEF One

\* The counter starts at zero.
LEMMA InitCountInv == Init => CountInv
<1> SUFFICES ASSUME Init PROVE CountInv OBVIOUS
<1>1. QueuedWorks = {} BY Zenon DEF Init, NapiInit, QueuedWorks
<1>2. Cardinality(QueuedWorks) = 0 BY <1>1, FS_EmptySet, Zenon
<1>3. running.kind # "work" BY Zenon DEF Init, JobInit, Script, Job
<1>4. keepalive = 0 /\ ~keepalive_active /\ \A p \in Users : at[p] = "out" BY Zenon DEF Init, NapiInit
<1> QED BY <1>2, <1>3, <1>4 DEF CountInv, One, Share

\* The queued works are finitely many, at most all of them.
LEMMA QueuedFinite ==
    ASSUME WorksOK
    PROVE /\ IsFiniteSet(QueuedWorks) /\ Cardinality(QueuedWorks) \in Nat
          /\ Cardinality(QueuedWorks) <= Cardinality(Works)
          /\ Cardinality(QueuedWorks) = 0 <=> QueuedWorks = {}
<1>1. QueuedWorks \subseteq Works BY Zenon DEF QueuedWorks
<1> QED BY <1>1, NapiAssumption, FS_Subset, FS_CardinalityType, FS_EmptySet, Zenon

\* A new function takes its share of the counter.
LEMMA ShareCreated ==
    ASSUME TypeOK, HoldInv, create_threadsafe_function
    PROVE Share = 0 /\ Share' = 1
<1>1. ref_count = 0 /\ (\A p \in Users : at[p] = "out") /\ keepalive_active' /\ UNCHANGED at
  BY Zenon DEF create_threadsafe_function
<1>2. held = {} BY <1>1, HeldCounts, Zenon DEF HoldInv, TypeOK
<1>3. ~keepalive_active BY <1>1, <1>2, Zenon DEF HoldInv
<1>4. Share = 0 BY <1>1, <1>3, Zenon DEF Share, One
<1>5. Share' = 1 BY <1>1, Constants, Zenon DEF Share, One
<1> QED BY <1>4, <1>5, Zenon

\* The counter follows the works and the share, and never wraps around.
LEMMA NextCountInv ==
    ASSUME TypeOK, PlaceInv, WorkInv, HoldInv, CountInv, [Next]_vars
    PROVE CountInv'
<1> DEFINE A == Cardinality(QueuedWorks)
           B == One(running.kind = "work")
<1>0. /\ A \in Nat /\ A <= Cardinality(Works) /\ A' \in Nat /\ A' <= Cardinality(Works)
      /\ B \in {0, 1} /\ B' \in {0, 1} /\ Share \in {0, 1} /\ Share' \in {0, 1}
      /\ keepalive \in 0 .. (Modulus - 1) /\ Modulus > Cardinality(Works) + 2
      /\ Modulus \in Nat /\ Cardinality(Works) \in Nat
  <2>1. WorksOK /\ WorksOK' BY NextWorksOK, Zenon DEF TypeOK
  <2>2. A \in Nat /\ A <= Cardinality(Works) BY <2>1, QueuedFinite, Zenon
  <2>3. A' \in Nat /\ A' <= Cardinality(Works)
    <3>1. QueuedWorks' \subseteq Works BY Zenon DEF QueuedWorks
    <3> QED BY <3>1, NapiAssumption, FS_Subset, FS_CardinalityType, Zenon
  <2> QED BY <2>2, <2>3, Constants DEF One, Share, TypeOK, FunctionOK
<1>k. keepalive = A + B + Share BY Zenon DEF CountInv
<1> SUFFICES keepalive' = A' + B' + Share' BY Zenon DEF CountInv
<1>1. ASSUME NEW w \in Works, queue_async_work(w), UNCHANGED jobVars PROVE keepalive' = A' + B' + Share'
  <2>1. B' = B /\ Share' = Share BY <1>1, Zenon DEF queue_async_work, jobVars, Share, tsfn
  <2>2. w \notin QueuedWorks /\ QueuedWorks' = QueuedWorks \cup {w}
    BY <1>1, Zenon DEF queue_async_work, QueuedWorks, TypeOK, WorksOK
  <2>3. A' = A + 1 BY <2>2, QueuedFinite, FS_AddElement, Zenon DEF TypeOK
  <2>4. keepalive' = fetch_add(keepalive) BY <1>1, Zenon DEF queue_async_work
  <2> HIDE DEF A, B
  <2> QED BY <1>0, <1>k, <2>1, <2>3, <2>4, CounterExact
<1>2. CASE JobEnds
  <2>1. A' = A /\ Share' = Share BY <1>2, Zenon DEF JobEnds, QueuedWorks, Share, tsfn
  <2>2. B' = 0 BY <1>2, Zenon DEF JobEnds, job_ends, NoJob, Job, One
  <2>3. keepalive' = IF B = 1 THEN fetch_sub(keepalive) ELSE keepalive
    BY <1>2 DEF JobEnds, after_completion, One
  <2> HIDE DEF A, B
  <2> QED BY <1>0, <1>k, <2>1, <2>2, <2>3, CounterExact
<1>3. ASSUME create_threadsafe_function, UNCHANGED jobVars PROVE keepalive' = A' + B' + Share'
  <2>1. A' = A /\ B' = B BY <1>3, Zenon DEF create_threadsafe_function, QueuedWorks, jobVars
  <2>2. Share = 0 /\ Share' = 1 BY <1>3, ShareCreated, Zenon
  <2>3. keepalive' = fetch_add(keepalive) BY <1>3, Zenon DEF create_threadsafe_function
  <2> HIDE DEF A, B
  <2> QED BY <1>0, <1>k, <2>1, <2>2, <2>3, CounterExact
<1>4. ASSUME NEW p \in Users, counter_moves(p) PROVE keepalive' = A' + B' + Share'
  <2>1. A' = A /\ B' = B BY <1>4, Zenon DEF counter_moves, goto, QueuedWorks
  <2>2. \/ at[p] = "add" /\ Share = 0 /\ Share' = 1
        \/ at[p] = "sub" /\ Share = 1 /\ Share' = 0
    BY <1>4, ShareMoves
  <2>3. keepalive' = IF at[p] = "add" THEN fetch_add(keepalive) ELSE fetch_sub(keepalive)
    BY <1>4, Zenon DEF counter_moves
  <2> HIDE DEF A, B
  <2> QED BY <1>0, <1>k, <2>1, <2>2, <2>3, CounterExact
<1>5. CASE RunCompletion
  <2>1. Share' = Share /\ keepalive' = keepalive BY <1>5, Zenon DEF RunCompletion, Share, tsfn
  <2>2. CASE running'.kind = "work"
    <3>1. PICK w \in QueuedWorks : QueuedWorks' = QueuedWorks \ {w} BY <1>5, <2>2, CompletionTakes
    <3>2. A' = A - 1 BY <3>1, QueuedFinite, FS_RemoveElement DEF TypeOK
    <3>3. B = 0 /\ B' = 1 BY <1>5, <2>2, CompletionTakes DEF One
    <3> HIDE DEF A, B
    <3> QED BY <1>0, <1>k, <2>1, <3>2, <3>3
  <2>3. CASE running'.kind # "work"
    <3>1. A' = A /\ B' = B BY <1>5, <2>3, CompletionTakes DEF One
    <3> HIDE DEF A, B
    <3> QED BY <1>k, <2>1, <3>1
  <2> QED BY <2>2, <2>3
<1>6. CASE /\ ~JobEnds /\ ~RunCompletion /\ ~(create_threadsafe_function /\ UNCHANGED jobVars)
           /\ \A w \in Works : ~(queue_async_work(w) /\ UNCHANGED jobVars)
           /\ \A p \in Users : ~counter_moves(p)
  <2>1. A' = A BY <1>6, NextQueued
  <2>2. B' = B BY <1>6, NextRunning DEF One
  <2>3. Share' = Share BY <1>6, NextShare
  <2>4. keepalive' = keepalive BY <1>6, CounterSteps
  <2> HIDE DEF A, B
  <2> QED BY <1>k, <2>1, <2>2, <2>3, <2>4
<1> QED BY <1>1, <1>2, <1>3, <1>4, <1>5, <1>6

\* CountInv is CountersExact, given who may be where.
LEMMA CountInvCountersExact ==
    ASSUME TypeOK, HoldInv, CountInv
    PROVE CountersExact
<1> DEFINE Subs == {p \in Users : at[p] = "sub"}
           Adds == {p \in Users : at[p] = "add"}
           A == Cardinality(QueuedWorks)
           B == One(running.kind = "work")
<1> SUFFICES One(keepalive_active) + Cardinality(Subs) = Share + Cardinality(Adds)
                /\ Cardinality(Subs) \in Nat /\ Cardinality(Adds) \in Nat
  <2>1. A \in Nat /\ B \in Nat /\ keepalive = A + B + Share
    BY QueuedFinite, Zenon DEF CountInv, One, TypeOK
  <2>2. Share \in Nat /\ One(keepalive_active) \in Nat BY Zenon DEF Share, One
  <2> HIDE DEF A, B, Subs, Adds
  <2>3. keepalive = (A + B + One(keepalive_active) + Cardinality(Subs)) - Cardinality(Adds)
    BY <2>1, <2>2
  <2> QED BY <2>3, Zenon DEF CountersExact, HoldInv, QueuedWorks, A, B, Subs, Adds
<1>1. CASE \E p \in Users : at[p] = "sub"
  <2>1. PICK p \in Users : at[p] = "sub" BY <1>1, Zenon
  <2>2. Subs = {p} /\ ~keepalive_active BY <2>1, Zenon DEF HoldInv, AtMostOne, AtInv
  <2>3. Adds = {} BY <2>2, Zenon DEF HoldInv, AtInv
  <2>4. Cardinality(Subs) = 1 /\ Cardinality(Adds) = 0 BY <2>2, <2>3, FS_Singleton, FS_EmptySet
  <2>5. Share = 1 /\ One(keepalive_active) = 0 BY <1>1, <2>2, Zenon DEF Share, One
  <2> QED BY <2>4, <2>5
<1>2. CASE (\A p \in Users : at[p] # "sub") /\ at[Main] = "add"
  <2>1. keepalive_active /\ Subs = {} BY <1>2, Constants DEF HoldInv, AtInv
  <2>2. Adds = {Main} BY <1>2, Constants, Zenon DEF HoldInv, AtInv
  <2>3. Cardinality(Subs) = 0 /\ Cardinality(Adds) = 1 BY <2>1, <2>2, FS_Singleton, FS_EmptySet
  <2>4. Share = 0 /\ One(keepalive_active) = 1 BY <1>2, <2>1, Zenon DEF Share, One
  <2> QED BY <2>3, <2>4
<1>3. CASE (\A p \in Users : at[p] # "sub") /\ at[Main] # "add"
  <2>1. Subs = {} /\ Adds = {} BY <1>3, Zenon DEF HoldInv, AtInv
  <2>2. Cardinality(Subs) = 0 /\ Cardinality(Adds) = 0 BY <2>1, FS_EmptySet, Zenon
  <2>3. Share = One(keepalive_active) BY <1>3, Zenon DEF Share, One
  <2>4. One(keepalive_active) \in {0, 1} BY Zenon DEF One
  <2> QED BY <2>2, <2>3, <2>4
<1> QED BY <1>1, <1>2, <1>3

\* A zero counter at has_pending's first read.
LEMMA ZeroCounter ==
    ASSUME TypeOK, PlaceInv, WorkInv, HoldInv, CountInv, KeepInv, pc = "keepalive", keepalive = 0
    PROVE NothingKept
<1>1. Cardinality(QueuedWorks) = 0 /\ Share = 0
  <2>1. Cardinality(QueuedWorks) \in Nat BY QueuedFinite, Zenon DEF TypeOK
  <2>2. Share \in Nat /\ One(running.kind = "work") \in Nat BY Zenon DEF Share, One
  <2> QED BY <2>1, <2>2 DEF CountInv
<1>2. QueuedWorks = {} BY <1>1, QueuedFinite, Zenon DEF TypeOK
<1>3. executing = {} BY <1>2, Zenon DEF WorkInv, QueuedWorks, TypeOK, WorksOK
<1>4. at[Main] = "out" BY Zenon DEF PlaceInv
<1>5. ~keepalive_active /\ \A p \in Users : at[p] # "sub"
  BY <1>1, <1>4 DEF Share, One
<1>6. ASSUME ~unreffed PROVE held = {} /\ \A p \in Users : at[p] = "out"
  <2>1. held = {} /\ \A p \in Users : at[p] \notin {"last", "drop"} BY <1>5, <1>6, Zenon DEF KeepInv
  <2>2. \A p \in Users : at[p] \notin {"add", "call", "wake"}
    BY <1>5, <2>1, Zenon DEF HoldInv, AtInv, Holds
  <2> QED BY <1>5, <2>1, <2>2 DEF TypeOK, FunctionOK
<1> QED BY <1>2, <1>3, <1>5, <1>6 DEF NothingKept

----------------------------------------------------------------------------
(* The theorems.                                                             *)

\* Type correctness of the loop, its queues, its timers and the addon's state,
\* for every number of works, threads, timers and jobs.
THEOREM LoopTyped == Spec => []TypeOK
<1>1. TypeOK /\ HoldInv /\ [Next]_vars => TypeOK' /\ HoldInv'
  BY NextTypeOK, NextHoldInv, Zenon DEF HoldInv
<1> QED BY <1>1, InitTypeOK, InitHoldInv, PTL DEF Spec

\* Timeouts of one delay fire in the order they were set, however many there
\* are and whatever else the program queues, clears and refs.
THEOREM TimersFireInOrder == Spec => []TimersInOrder
<1>1. Init => TimerInv
  BY DEF Init, JobInit, TimerInit, TimerInv, TimersInOrder
<1>2. TypeOK /\ TimerInv /\ [Next]_vars => TimerInv' BY DueIsEnumerable, NextTimerInv, Zenon DEF TypeOK
<1>3. TimerInv => TimersInOrder BY Zenon DEF TimerInv
<1> QED BY <1>1, <1>2, <1>3, LoopTyped, PTL DEF Spec

\* The inductive invariant holds.
LEMMA InvariantHolds == Spec => []LoopInv
<1>1. Init => LoopInv
  <2>1. Init => NoMissedWake BY Zenon DEF Init, JobInit, NoMissedWake
  <2> QED BY <2>1, InitTypeOK, InitPlaceInv, InitWorkInv, InitHoldInv, InitCountInv, InitEnd
          DEF LoopInv
<1>2. LoopInv /\ [Next]_vars => LoopInv'
  <2> SUFFICES ASSUME LoopInv, [Next]_vars PROVE LoopInv' BY Zenon
  <2>1. TypeOK' BY NextTypeOK, Zenon DEF LoopInv, HoldInv
  <2>2. EndInv' BY NextEndInv, ZeroCounter, Zenon DEF LoopInv
  <2> QED BY <2>1, <2>2, NextPlaceInv, NextWorkInv, NextHoldInv, NextCountInv, NextKeepInv,
             NextNoMissedWake DEF LoopInv
<1> QED BY <1>1, <1>2, PTL DEF Spec

\* ref_count and napi_keepalive, kept by atomic operations without a lock, are
\* exact at every step of every thread.
THEOREM CountersAreExact == Spec => []CountersExact
<1>1. LoopInv => CountersExact BY CountInvCountersExact DEF LoopInv
<1> QED BY <1>1, InvariantHolds, PTL

\* A queued work has exactly one completion on its way, any other has none.
THEOREM OneCompletionPerWork == Spec => []WorkInFlight
<1>1. LoopInv => WorkInFlight BY WorkInvWorkInFlight DEF LoopInv, TypeOK
<1> QED BY <1>1, InvariantHolds, PTL

\* The main thread never parks on a completion nobody will wake it for.
THEOREM NoWakeIsMissed == Spec => []NoMissedWake
<1>1. LoopInv => NoMissedWake BY Zenon DEF LoopInv
<1> QED BY <1>1, InvariantHolds, PTL

\* The loop does not end on a call to a function that was never unref'd.
THEOREM NoCallIsLost == Spec => []ExitLosesNothing
<1>1. LoopInv => ExitLosesNothing BY Zenon DEF LoopInv, EndInv, NothingKept, Closing, Closed, ExitLosesNothing
<1> QED BY <1>1, InvariantHolds, PTL

\* The strengthened invariant holds.
LEMMA QuietHolds == Spec => [](LoopInv /\ QuietInv)
<1>1. LoopInv /\ QuietInv /\ [Next]_vars => QuietInv' BY NextQuietInv, Zenon DEF LoopInv
<1> QED BY <1>1, InitQuietInv, InvariantHolds, PTL DEF Spec

\* The event loop implements its contract: operations are begun while it is
\* open, each is over once, and it ends only when none is left.
THEOREM LoopKeepsContract == Spec => KeepsContract
<1>1. Init => Contract!Init
  <2> SUFFICES ASSUME Init PROVE Contract!Init BY Zenon
  <2>1. TypeOK /\ QuietInv BY InitTypeOK, InitQuietInv, Zenon
  <2>2. Typed BY <2>1, PendingTyped, Zenon
  <2>3. State = "open" BY Zenon DEF Init, JobInit, State
  <2> QED BY <2>2, <2>3, Zenon DEF Contract!Init, Typed, AllOps
<1>2. LoopInv /\ QuietInv => Typed BY PendingTyped, Zenon DEF LoopInv
<1>3. LoopInv /\ QuietInv /\ Typed' /\ [Next]_vars => [Contract!Next]_<<Pending, State>>
  BY NextAllowed, DueIsEnumerable, Zenon DEF Allowed, LoopInv, TypeOK
<1> QED BY <1>1, <1>2, <1>3, QuietHolds, PTL DEF Spec, KeepsContract, Contract!Spec

============================================================================
