----------------------------- MODULE MCAgentHub -----------------------------
(* Small instances of AgentHub for TLC. *)
EXTENDS AgentHub
=============================================================================
