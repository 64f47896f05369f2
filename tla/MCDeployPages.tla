--------------------------- MODULE MCDeployPages ---------------------------
(* Instances of DeployPages for TLC; the values are in the .cfg files. *)
EXTENDS DeployPages

Ascending == [d \in Deploy |-> d]
=============================================================================
