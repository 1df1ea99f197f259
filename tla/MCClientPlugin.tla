----------------------------- MODULE MCClientPlugin ----------------------------
(* ClientPlugin on small instances: see the .cfg files for the bounds.         *)
EXTENDS ClientPlugin, TLC

Symmetry == Permutations(Users) \union Permutations(Workers)
================================================================================
