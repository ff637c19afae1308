---------------------------- MODULE MCAgentTurnLog ----------------------------
(* Instances of AgentTurnLog for TLC.                                       *)
EXTENDS AgentTurnLog
===============================================================================
