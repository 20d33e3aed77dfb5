----------------------- MODULE MCCompartmentScheduler -----------------------
(***************************************************************************)
(* TLC instances of CompartmentScheduler.                                  *)
(***************************************************************************)
EXTENDS CompartmentScheduler, TLC

CompartmentSymmetry == Permutations(Compartments)
=============================================================================
