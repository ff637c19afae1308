-------------------------- MODULE MCAgentRootLease --------------------------
(* Instances of AgentRootLease for TLC.                                     *)
EXTENDS AgentRootLease, TLC

Symmetry == Permutations(Commands)
=============================================================================
