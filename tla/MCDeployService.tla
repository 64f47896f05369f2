-------------------------- MODULE MCDeployService --------------------------
(* Instances of DeployService for TLC; the values are in the .cfg files. *)
EXTENDS DeployServiceInv

\* The artifact counter hands out 1, 2, ...; a later upload may overtake an
\* earlier one on its way to CreateDeploy.
Ascending == [d \in Deploy |-> d]
Descending == [d \in Deploy |-> 10 - d]
=============================================================================
