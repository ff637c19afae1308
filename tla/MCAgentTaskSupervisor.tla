----------------------- MODULE MCAgentTaskSupervisor -----------------------
(* Instances of AgentTaskSupervisor for TLC.                                *)
EXTENDS AgentTaskSupervisor

\* Every task belongs to the same project root.
OneRoot == [t \in Tasks |-> CHOOSE r \in Roots : TRUE]
============================================================================
