----------------------------- MODULE MCAgentRun -----------------------------
(* AgentRun for TLC. *)
EXTENDS AgentRunProperties

=============================================================================
