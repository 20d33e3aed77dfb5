----------------------------- MODULE MCWorkerHost -----------------------------
(***************************************************************************)
(* TLC instances of WorkerHost.                                            *)
(***************************************************************************)
EXTENDS WorkerHost, TLC

\* How many messages are sent to each compartment.
TwoEach == [c \in Compartments |-> 2]
OneEach == [c \in Compartments |-> 1]
OneInAll == LET one == CHOOSE c \in Compartments : TRUE
            IN [c \in Compartments |-> IF c = one THEN 1 ELSE 0]

HostSymmetry ==
    Permutations(Compartments) \cup Permutations(Calls) \cup Permutations(Funs)
=============================================================================
