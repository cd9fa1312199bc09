------------------------------ MODULE MCSecrets ------------------------------
(* Instances of Secrets: two or three requests, one value to choose.        *)
EXTENDS Secrets, TLC

RequestSymmetry == Permutations(DeployRequest)
=============================================================================
