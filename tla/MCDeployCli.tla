----------------------------- MODULE MCDeployCli -----------------------------
(***************************************************************************)
(* Instances of DeployCli for TLC.                                         *)
(***************************************************************************)
EXTENDS DeployCliProperties, TLC

\* Processes differ in nothing.
Symmetry == Permutations(Processes)
=============================================================================
