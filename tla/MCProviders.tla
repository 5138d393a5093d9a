----------------------------- MODULE MCProviders -----------------------------
(* A small instance of Providers for TLC: the calls are alike. *)
EXTENDS Providers, TLC

Symmetry == Permutations(Calls)
==============================================================================
