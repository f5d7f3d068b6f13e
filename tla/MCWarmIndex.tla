---------------------------- MODULE MCWarmIndex ----------------------------
(* Instances of WarmIndex for TLC. *)
EXTENDS WarmIndex, TLC

(* Workers and repo objects are interchangeable. *)
Symmetry == Permutations(Workers) \cup Permutations(Repos)
=============================================================================
