--------------------------- MODULE MCApprovalQueue ---------------------------
(* Small instances of ApprovalQueue for TLC. *)
EXTENDS ApprovalQueue
==============================================================================
