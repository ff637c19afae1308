-------------------------- MODULE MCAgentTurnStart --------------------------
(* Instance of AgentTurnStart for TLC: the bounds are in the cfg files. *)
EXTENDS AgentTurnStart
=============================================================================
