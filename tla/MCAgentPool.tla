----------------------------- MODULE MCAgentPool -----------------------------
(* A pool of three instances, two of them kept warm, and two call chains    *)
(* that lease up to two members each.                                       *)
EXTENDS AgentPool
=============================================================================
