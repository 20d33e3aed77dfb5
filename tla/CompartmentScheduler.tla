------------------------ MODULE CompartmentScheduler ------------------------
(***************************************************************************)
(* The Scheduler of rusty-js-gc/src/lib.rs: which worker thread owns which *)
(* compartment.  A new compartment goes to the first of the least loaded   *)
(* workers, counted from the one after the last choice, and stays there    *)
(* until it is migrated or removed.                                        *)
(***************************************************************************)
EXTENDS Integers, FiniteSets

CONSTANTS
    N,              \* number of worker threads
    Compartments

ASSUME SchedulerAssumption ==
    N \in Nat \ {0} /\ IsFiniteSet(Compartments)

VARIABLES
    affinity,   \* the worker of each compartment, NoWorker if it has none
    load,       \* the number of compartments the scheduler counts per worker
    next        \* where the next search starts

schedulerVars == <<affinity, load, next>>
-----------------------------------------------------------------------------
Workers == 0 .. N - 1
NoWorker == -1

Init ==
    /\ affinity = [c \in Compartments |-> NoWorker]
    /\ load = [w \in Workers |-> 0]
    /\ next = 0

\* The k-th worker the search looks at.
Probe(k) == ((next % N) + k) % N

\* Mistake: the search takes a later worker of equal load, never looking at
\* whether it is less loaded.
Best_last == Probe(N - 1)

\* The search of Scheduler::assign: the first probe of least load.
Best ==
    Probe(CHOOSE k \in Workers :
            /\ \A j \in Workers : load[Probe(k)] <= load[Probe(j)]
            /\ \A j \in 0 .. k - 1 : load[Probe(k)] < load[Probe(j)])

\* Mistake: a compartment that has a worker is placed again.
worker_for_unsticky(c) == Best

\* What Scheduler::assign returns.
worker_for(c) == IF affinity[c] # NoWorker THEN affinity[c] ELSE Best

\* Mistake: a compartment that has a worker is counted once more.
assign_recount(c) ==
    /\ affinity' = [affinity EXCEPT ![c] = worker_for(c)]
    /\ load' = [load EXCEPT ![worker_for(c)] = @ + 1]
    /\ next' = IF affinity[c] # NoWorker THEN next ELSE (Best + 1) % N

assign(c) ==
    /\ affinity' = [affinity EXCEPT ![c] = worker_for(c)]
    /\ IF affinity[c] # NoWorker
       THEN UNCHANGED <<load, next>>
       ELSE /\ load' = [load EXCEPT ![Best] = @ + 1]
            /\ next' = (Best + 1) % N

saturating_sub(x) == IF x = 0 THEN 0 ELSE x - 1

migrate(c, to) ==
    LET from == affinity[c] IN
    /\ from \notin {NoWorker, to}
    /\ affinity' = [affinity EXCEPT ![c] = to]
    /\ load' = [load EXCEPT ![from] = saturating_sub(@), ![to] = @ + 1]
    /\ UNCHANGED next

remove(c) ==
    /\ affinity[c] # NoWorker
    /\ affinity' = [affinity EXCEPT ![c] = NoWorker]
    /\ load' = [load EXCEPT ![affinity[c]] = saturating_sub(@)]
    /\ UNCHANGED next

Next ==
    \E c \in Compartments :
        \/ assign(c)
        \/ \E to \in Workers : migrate(c, to)
        \/ remove(c)

Spec == Init /\ [][Next]_schedulerVars
-----------------------------------------------------------------------------
TypeOK ==
    /\ affinity \in [Compartments -> Workers \cup {NoWorker}]
    /\ load \in [Workers -> Nat]
    /\ next \in Workers

Owned(w) == {c \in Compartments : affinity[c] = w}

\* The loads the scheduler balances by are the true ones: no sequence of
\* assignments, migrations and removals makes the counts of Scheduler::load
\* drift from the affinity table, and saturating_sub never hides a miscount.
LoadIsExact == \A w \in Workers : load[w] = Cardinality(Owned(w))

\* A compartment is placed on a worker no other worker is less loaded than.
PlacedOnLeastLoaded ==
    [][\A c \in Compartments :
        affinity[c] = NoWorker /\ affinity'[c] # NoWorker =>
            \A w \in Workers : Cardinality(Owned(affinity'[c])) <= Cardinality(Owned(w))
      ]_schedulerVars
=============================================================================
