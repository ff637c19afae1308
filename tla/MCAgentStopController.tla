------------------------ MODULE MCAgentStopController ------------------------
(* Two threads: one has a turn after the first, the other does not.          *)
EXTENDS AgentStopController, TLC

CONSTANTS h1, h2

TwoAndOne == (h1 :> 2) @@ (h2 :> 1)
=============================================================================
