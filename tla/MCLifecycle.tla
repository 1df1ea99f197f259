------------------------------- MODULE MCLifecycle ------------------------------
(* Lifecycle on small instances: see the .cfg files for the bounds.            *)
EXTENDS Lifecycle, TLC

Symmetry == Permutations(Requests)
================================================================================
