----------------------------- MODULE MCAgentChat -----------------------------
(* Small instances of AgentChat for TLC. *)
EXTENDS AgentChat
==============================================================================
