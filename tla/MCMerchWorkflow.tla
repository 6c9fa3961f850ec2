-------------------------- MODULE MCMerchWorkflow --------------------------
(* Instances of MerchWorkflow for TLC. *)
EXTENDS MerchWorkflow
=============================================================================
