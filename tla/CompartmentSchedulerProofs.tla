--------------------- MODULE CompartmentSchedulerProofs ---------------------
(***************************************************************************)
(* The scheduler's load counts are exact and its placements are balanced,  *)
(* for any number of workers and compartments.                             *)
(***************************************************************************)
EXTENDS CompartmentScheduler, FiniteSetTheorems, WellFoundedInduction, TLAPS

\* A non-empty set of numbers has a least element.
LEMMA LeastNumber ==
    ASSUME NEW T \in SUBSET Nat, T # {}
    PROVE  \E x \in T : \A y \in T : x <= y
<1>1. \E x \in T : \A y \in T : ~ (<<y, x>> \in OpToRel(<, Nat))
  BY NatLessThanWellFounded, WFMin, Zenon
<1>2. PICK x \in T : \A y \in T : ~ (<<y, x>> \in OpToRel(<, Nat))
  BY <1>1, Zenon
<1>3. ASSUME NEW y \in T
      PROVE  x <= y
  <2>1. <<y, x>> \in Nat \X Nat
    BY Zenon
  <2>2. ~ (y < x)
    BY <1>2, <2>1, Zenon DEF OpToRel
  <2> QED
    BY <2>2
<1> QED
  BY <1>3, Zenon

\* The search of Scheduler::assign finds a worker: among the probes there is a
\* first one of least load.
LEMMA FirstLeast ==
    ASSUME NEW f \in [Workers -> Nat], N \in Nat \ {0}
    PROVE  \E k \in Workers :
            /\ \A j \in Workers : f[k] <= f[j]
            /\ \A j \in 0 .. k - 1 : f[k] < f[j]
<1> DEFINE Values == {f[k] : k \in Workers}
<1>1. 0 \in Workers
  BY DEF Workers
<1>2. Values \in SUBSET Nat /\ Values # {}
  BY <1>1, Zenon
<1>3. PICK m \in Values : \A v \in Values : m <= v
  <2> HIDE DEF Values
  <2> QED
    BY <1>2, LeastNumber, Zenon
<1> DEFINE Least == {k \in Workers : f[k] = m}
<1>4. Least \in SUBSET Nat /\ Least # {}
  BY <1>3 DEF Workers
<1>5. PICK k \in Least : \A j \in Least : k <= j
  <2> HIDE DEF Least
  <2> QED
    BY <1>4, LeastNumber, Zenon
<1>6. k \in Workers /\ f[k] = m
  BY <1>5, Zenon
<1>7. \A j \in Workers : m <= f[j]
  BY <1>3, Zenon
<1>8. ASSUME NEW j \in 0 .. k - 1
      PROVE  f[k] < f[j]
  <2>1. j \in Workers /\ j < k
    BY <1>6 DEF Workers
  <2>2. f[j] # m
    BY <1>5, <1>6, <2>1 DEF Workers
  <2> QED
    BY <1>6, <1>7, <2>1, <2>2
<1> QED
  BY <1>6, <1>7, <1>8, Zenon
-----------------------------------------------------------------------------
\* What % does within two rounds of the workers.
LEMMA Wraps ==
    ASSUME NEW n \in Nat \ {0}, NEW a \in 0 .. 2 * n - 1
    PROVE  a % n = IF a < n THEN a ELSE a - n
<1>1. CASE a < n
  <2>1. a = n * 0 + a
    OBVIOUS
  <2> QED
    BY <1>1
<1>2. CASE a >= n
  <2>1. a - n \in 0 .. n - 1 /\ a = n * 1 + (a - n)
    BY <1>2
  <2> QED
    BY <1>2, <2>1
<1> QED
  BY <1>1, <1>2

\* The probes of one search reach every worker.
LEMMA ProbesReachAll ==
    ASSUME TypeOK
    PROVE  /\ \A k \in Workers : Probe(k) \in Workers
           /\ \A w \in Workers : \E k \in Workers : Probe(k) = w
<1>1. N \in Nat \ {0} /\ next \in 0 .. N - 1
  BY SchedulerAssumption, Zenon DEF TypeOK, Workers
<1>2. next % N = next
  BY <1>1, Wraps
<1>3. ASSUME NEW k \in Workers
      PROVE  Probe(k) = IF next + k < N THEN next + k ELSE (next + k) - N
  <2>1. next + k \in 0 .. 2 * N - 1
    BY <1>1 DEF Workers
  <2>2. Probe(k) = (next + k) % N
    BY <1>2, Zenon DEF Probe
  <2>3. (next + k) % N = IF next + k < N THEN next + k ELSE (next + k) - N
    <3> DEFINE a == next + k
    <3>1. a \in 0 .. 2 * N - 1
      BY <2>1, Zenon
    <3> HIDE DEF a
    <3>2. a % N = IF a < N THEN a ELSE a - N
      BY <1>1, <3>1, Wraps, Zenon
    <3> QED
      BY <3>2, Zenon DEF a
  <2> QED
    BY <2>2, <2>3, Zenon
<1>4. ASSUME NEW k \in Workers
      PROVE  Probe(k) \in Workers
  BY <1>1, <1>3 DEF Workers
<1>5. ASSUME NEW w \in Workers
      PROVE  \E k \in Workers : Probe(k) = w
  <2> DEFINE k == IF w >= next THEN w - next ELSE w - next + N
  <2>1. k \in Workers
    BY <1>1 DEF Workers
  <2>2. Probe(k) = IF next + k < N THEN next + k ELSE (next + k) - N
    BY <1>3, <2>1, Zenon
  <2>3. (IF next + k < N THEN next + k ELSE (next + k) - N) = w
    BY <1>1 DEF Workers
  <2> QED
    BY <2>1, <2>2, <2>3, Zenon
<1> QED
  BY <1>4, <1>5, Zenon

\* Scheduler::assign chooses a worker that no other is less loaded than.
LEMMA BestIsLeast ==
    ASSUME TypeOK
    PROVE  Best \in Workers /\ \A w \in Workers : load[Best] <= load[w]
<1> DEFINE f == [k \in Workers |-> load[Probe(k)]]
           First(k) == /\ \A j \in Workers : load[Probe(k)] <= load[Probe(j)]
                       /\ \A j \in 0 .. k - 1 : load[Probe(k)] < load[Probe(j)]
<1>1. f \in [Workers -> Nat]
  BY ProbesReachAll, Zenon DEF TypeOK
<1>2. \E k \in Workers : /\ \A j \in Workers : f[k] <= f[j]
                         /\ \A j \in 0 .. k - 1 : f[k] < f[j]
  <2> HIDE DEF f
  <2> QED
    BY <1>1, FirstLeast, SchedulerAssumption, Zenon
<1>3. \A k \in Workers : 0 .. k - 1 \subseteq Workers
  BY SchedulerAssumption DEF Workers
<1>4. \E k \in Workers : First(k)
  BY <1>2, <1>3, Zenon
<1>5. PICK k \in Workers : First(k) /\ Best = Probe(k)
  <2> DEFINE choice == CHOOSE k \in Workers : First(k)
  <2>1. choice \in Workers /\ First(choice)
    BY <1>4, Zenon
  <2>2. Best = Probe(choice)
    BY Zenon DEF Best
  <2> QED
    BY <2>1, <2>2, Zenon
<1>6. ASSUME NEW w \in Workers
      PROVE  load[Best] <= load[w]
  <2>1. PICK j \in Workers : Probe(j) = w
    BY ProbesReachAll, Zenon
  <2> QED
    BY <1>5, <2>1, Zenon
<1> QED
  BY <1>5, <1>6, ProbesReachAll, Zenon
-----------------------------------------------------------------------------
\* Type correctness is preserved by assign, migrate and remove.
LEMMA TypeStep ==
    ASSUME TypeOK, [Next]_schedulerVars
    PROVE  TypeOK'
<1>0. N \in Nat \ {0} /\ \A x \in Nat : saturating_sub(x) \in Nat
  BY SchedulerAssumption DEF saturating_sub
<1>1. ASSUME NEW c \in Compartments, assign(c)
      PROVE  TypeOK'
  <2>1. worker_for(c) \in Workers
    BY BestIsLeast, Zenon DEF worker_for, TypeOK
  <2>2. (Best + 1) % N \in Workers
    BY <1>0, BestIsLeast DEF Workers
  <2> QED
    BY <1>1, <2>1, <2>2, BestIsLeast DEF assign, TypeOK
<1>2. ASSUME NEW c \in Compartments, NEW to \in Workers, migrate(c, to)
      PROVE  TypeOK'
  BY <1>0, <1>2 DEF migrate, TypeOK
<1>3. ASSUME NEW c \in Compartments, remove(c)
      PROVE  TypeOK'
  BY <1>0, <1>3, Zenon DEF remove, TypeOK
<1>4. CASE UNCHANGED schedulerVars
  BY <1>4, Zenon DEF TypeOK, schedulerVars
<1> QED
  BY <1>1, <1>2, <1>3, <1>4, Zenon DEF Next

\* The compartments of worker w in an affinity table a.
OwnedIn(a, w) == {c \in Compartments : a[c] = w}

\* How many compartments a worker has after one of them is given worker v.
LEMMA CountAfter ==
    ASSUME NEW a \in [Compartments -> Workers \cup {NoWorker}],
           NEW c \in Compartments, NEW v \in Workers \cup {NoWorker}, NEW w \in Workers,
           NEW b, b[c] = v, \A d \in Compartments \ {c} : b[d] = a[d]
    PROVE  /\ Cardinality(OwnedIn(a, w)) \in Nat
           /\ a[c] = w => Cardinality(OwnedIn(a, w)) > 0
           /\ Cardinality(OwnedIn(b, w)) =
                IF w = v /\ a[c] # w THEN Cardinality(OwnedIn(a, w)) + 1
                ELSE IF w # v /\ a[c] = w THEN Cardinality(OwnedIn(a, w)) - 1
                ELSE Cardinality(OwnedIn(a, w))
<1> DEFINE O == OwnedIn(a, w)
<1>1. IsFiniteSet(O) /\ (c \in O <=> a[c] = w)
  <2>1. O \in SUBSET Compartments
    BY Zenon DEF OwnedIn
  <2>2. IsFiniteSet(O)
    BY <2>1, FS_Subset, SchedulerAssumption, Zenon
  <2> QED
    BY <2>2, Zenon DEF OwnedIn
<1>2. OwnedIn(b, w) = IF w = v THEN O \cup {c} ELSE O \ {c}
  BY Zenon DEF OwnedIn
<1> HIDE DEF O
<1>3. Cardinality(O) \in Nat
  BY <1>1, FS_CardinalityType, Zenon
<1>4. Cardinality(O \cup {c}) = IF c \in O THEN Cardinality(O) ELSE Cardinality(O) + 1
  BY <1>1, FS_AddElement, Zenon
<1>5. Cardinality(O \ {c}) = IF c \in O THEN Cardinality(O) - 1 ELSE Cardinality(O)
  BY <1>1, FS_RemoveElement, Zenon
<1>6. c \in O => Cardinality(O) > 0
  BY <1>1, <1>3, FS_EmptySet
<1>7. /\ Cardinality(O) \in Nat
      /\ a[c] = w => Cardinality(O) > 0
      /\ Cardinality(OwnedIn(b, w)) =
            IF w = v /\ a[c] # w THEN Cardinality(O) + 1
            ELSE IF w # v /\ a[c] = w THEN Cardinality(O) - 1
            ELSE Cardinality(O)
  BY <1>1, <1>2, <1>3, <1>4, <1>5, <1>6, Zenon
<1> QED
  BY <1>7, Zenon DEF O

\* The counts stay exact.
LEMMA LoadStep ==
    ASSUME TypeOK, LoadIsExact, [Next]_schedulerVars
    PROVE  LoadIsExact'
<1> DEFINE Count(w) == Cardinality(OwnedIn(affinity, w))
           CountNext(w) == Cardinality(OwnedIn(affinity', w))
<1>0. /\ \A w \in Workers : load[w] = Count(w)
      /\ LoadIsExact' <=> \A w \in Workers : load'[w] = CountNext(w)
      /\ affinity \in [Compartments -> Workers \cup {NoWorker}]
  BY Zenon DEF LoadIsExact, Owned, OwnedIn, TypeOK
<1>1. ASSUME NEW c \in Compartments, assign(c), NEW w \in Workers
      PROVE  load'[w] = CountNext(w)
  <2>1. worker_for(c) \in Workers /\ Best \in Workers
    BY BestIsLeast, Zenon DEF worker_for, TypeOK
  <2>2. affinity'[c] = worker_for(c) /\ \A d \in Compartments \ {c} : affinity'[d] = affinity[d]
    BY <1>0, <1>1, Zenon DEF assign
  <2>3. CASE affinity[c] # NoWorker
    <3>1. load' = load /\ worker_for(c) = affinity[c]
      BY <1>1, <2>3, Zenon DEF assign, worker_for
    <3>2. CountNext(w) = Count(w)
      BY <2>1, <2>2, <3>1, <1>0, CountAfter
    <3> QED
      BY <1>0, <3>1, <3>2, Zenon
  <2>4. CASE affinity[c] = NoWorker
    <3>1. load' = [load EXCEPT ![Best] = @ + 1] /\ worker_for(c) = Best
      BY <1>1, <2>4, Zenon DEF assign, worker_for
    <3>2. affinity[c] # w
      BY <2>4, SchedulerAssumption DEF Workers, NoWorker
    <3>3. CountNext(w) = IF w = Best THEN Count(w) + 1 ELSE Count(w)
      BY <2>1, <2>2, <3>1, <3>2, <1>0, CountAfter
    <3> QED
      BY <1>0, <2>1, <3>1, <3>3, Zenon DEF TypeOK
  <2> QED
    BY <2>3, <2>4, Zenon
<1>2. ASSUME NEW c \in Compartments, NEW to \in Workers, migrate(c, to), NEW w \in Workers
      PROVE  load'[w] = CountNext(w)
  <2>1. /\ affinity[c] \in Workers /\ affinity[c] # to
        /\ affinity'[c] = to /\ \A d \in Compartments \ {c} : affinity'[d] = affinity[d]
    BY <1>2, Zenon DEF migrate, TypeOK
  <2>2. /\ Count(w) \in Nat
        /\ CountNext(w) = IF w = to THEN Count(w) + 1
                                     ELSE IF w = affinity[c] THEN Count(w) - 1
                                     ELSE Count(w)
        /\ affinity[c] = w => Count(w) > 0
    BY <2>1, <1>0, CountAfter
  <2>3. load'[w] = IF w = to THEN load[w] + 1
                   ELSE IF w = affinity[c] THEN saturating_sub(load[w]) ELSE load[w]
    BY <1>2, <2>1, Zenon DEF migrate, TypeOK
  <2> QED
    BY <1>0, <2>1, <2>2, <2>3 DEF saturating_sub
<1>3. ASSUME NEW c \in Compartments, remove(c), NEW w \in Workers
      PROVE  load'[w] = CountNext(w)
  <2>1. /\ affinity[c] \in Workers
        /\ affinity'[c] = NoWorker /\ \A d \in Compartments \ {c} : affinity'[d] = affinity[d]
    BY <1>3, Zenon DEF remove, TypeOK
  <2>2. w # NoWorker
    BY SchedulerAssumption DEF Workers, NoWorker
  <2>3. /\ Count(w) \in Nat
        /\ CountNext(w) = IF w = affinity[c] THEN Count(w) - 1
                                     ELSE Count(w)
        /\ affinity[c] = w => Count(w) > 0
    BY <2>1, <2>2, <1>0, CountAfter
  <2>4. load'[w] = IF w = affinity[c] THEN saturating_sub(load[w]) ELSE load[w]
    BY <1>3, <2>1, Zenon DEF remove, TypeOK
  <2> QED
    BY <1>0, <2>3, <2>4 DEF saturating_sub
<1>4. CASE UNCHANGED schedulerVars
  BY <1>4, Zenon DEF schedulerVars, Owned, LoadIsExact
<1> QED
  BY <1>0, <1>1, <1>2, <1>3, <1>4, Zenon DEF Next

\* The scheduler's table keeps its type.
THEOREM SchedulerTypeCorrect == Spec => []TypeOK
<1>1. Init => TypeOK
  BY SchedulerAssumption DEF Init, TypeOK, Workers
<1> QED
  BY <1>1, TypeStep, PTL DEF Spec

\* Scheduler::load counts the compartments of every worker exactly, through any
\* sequence of assign, migrate and remove.
THEOREM LoadsAreExact == Spec => []LoadIsExact
<1>1. Init => LoadIsExact
  <2> SUFFICES ASSUME Init, NEW w \in Workers
               PROVE  load[w] = Cardinality(Owned(w))
    BY Zenon DEF LoadIsExact
  <2>1. w # NoWorker
    BY SchedulerAssumption DEF Workers, NoWorker
  <2>2. Owned(w) = {}
    BY <2>1, Zenon DEF Init, Owned
  <2> QED
    BY <2>2, FS_EmptySet, Zenon DEF Init
<1> QED
  BY <1>1, SchedulerTypeCorrect, LoadStep, PTL DEF Spec

\* Scheduler::assign places a compartment where no other worker owns fewer.
THEOREM PlacementIsBalanced == Spec => PlacedOnLeastLoaded
<1>1. ASSUME TypeOK, LoadIsExact, [Next]_schedulerVars, NEW c \in Compartments,
             affinity[c] = NoWorker, affinity'[c] # NoWorker, NEW w \in Workers
      PROVE  Cardinality(Owned(affinity'[c])) <= Cardinality(Owned(w))
  <2>1. affinity'[c] = Best
    <3>1. ASSUME NEW d \in Compartments, assign(d)
          PROVE  affinity'[c] = Best
      BY <1>1, <3>1, Zenon DEF assign, worker_for, TypeOK
    <3>2. ASSUME NEW d \in Compartments, NEW to \in Workers, migrate(d, to)
          PROVE  FALSE
      BY <1>1, <3>2, Zenon DEF migrate, TypeOK
    <3>3. ASSUME NEW d \in Compartments, remove(d)
          PROVE  FALSE
      BY <1>1, <3>3, Zenon DEF remove, TypeOK
    <3>4. CASE UNCHANGED schedulerVars
      BY <1>1, <3>4, Zenon DEF schedulerVars
    <3> QED
      BY <1>1, <3>1, <3>2, <3>3, <3>4, Zenon DEF Next
  <2>2. Best \in Workers /\ load[Best] <= load[w]
    BY <1>1, BestIsLeast, Zenon
  <2> QED
    BY <1>1, <2>1, <2>2, Zenon DEF LoadIsExact
<1>2. TypeOK /\ LoadIsExact /\ [Next]_schedulerVars =>
        [\A c \in Compartments :
            affinity[c] = NoWorker /\ affinity'[c] # NoWorker =>
                \A w \in Workers : Cardinality(Owned(affinity'[c])) <= Cardinality(Owned(w))
        ]_schedulerVars
  BY <1>1, Zenon
<1> QED
  BY <1>2, SchedulerTypeCorrect, LoadsAreExact, PTL DEF Spec, PlacedOnLeastLoaded
=============================================================================
