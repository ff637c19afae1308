-------------------------- MODULE MCAgentTurnOutput --------------------------
(* One task of AgentTurnOutput that prints a few chunks.                     *)
EXTENDS AgentTurnOutput

Three == [t \in Tasks |-> 3]
Two == [t \in Tasks |-> 2]
=============================================================================
