------------------------------ MODULE MCSession ------------------------------
(* A small instance of Session for TLC: calls are alike, and so are roles. *)
EXTENDS Session, TLC

Symmetry == Permutations(Calls) \cup Permutations(Roles)
==============================================================================
