--------------------------- MODULE MCDeploymentOps ---------------------------
(* Instances of DeploymentOps for TLC.                                     *)
EXTENDS DeploymentOps, TLC

CONSTANTS p1, r1

OneProject == [d \in Deployments |-> p1]
=============================================================================
