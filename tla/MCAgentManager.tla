--------------------------- MODULE MCAgentManager ---------------------------
(* Values for the model-checking runs of AgentManager.                     *)
EXTENDS AgentManager, TLC

CONSTANTS s1, s2, c1, c2, l1, l2
=============================================================================
