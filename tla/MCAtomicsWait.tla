---------------------------- MODULE MCAtomicsWait ----------------------------
(***************************************************************************)
(* Instances of AtomicsWait for TLC.                                       *)
(***************************************************************************)
EXTENDS AtomicsWait, TLC

\* Agents that may block are interchangeable.
AgentSymmetry == Permutations(Agents \ MainAgents)
=============================================================================
