--------------------------- MODULE MCTerraformRuns ---------------------------
(* Small instances of TerraformRuns for TLC. *)
EXTENDS TerraformRuns
==============================================================================
