-------------------------- MODULE MCAgentRegistry --------------------------
(* AgentRegistry for TLC. *)
EXTENDS AgentRegistry
=============================================================================
