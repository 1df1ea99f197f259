------------------------------ MODULE MCApiClient ------------------------------
(* ApiClient on small instances: see the .cfg files for the bounds.            *)
EXTENDS ApiClient, TLC

Symmetry == Permutations(Tasks)
================================================================================
