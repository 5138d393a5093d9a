------------------------------ MODULE MCEc2Ops ------------------------------
(* Small instances of Ec2Ops for TLC. *)
EXTENDS Ec2Ops
=============================================================================
