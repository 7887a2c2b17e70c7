--------------------------- MODULE MCDeployPipeline -------------------------
(* Instances of DeployPipeline for TLC.                                    *)
EXTENDS DeployPipeline, TLC

CONSTANTS p1, p2, r1, r2

OneProject == [d \in Deployments |-> p1]
TwoProjects == [d \in Deployments |-> IF d = 2 THEN p2 ELSE p1]

RequestSymmetry == Permutations(Requests)
=============================================================================
