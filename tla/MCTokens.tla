-------------------------------- MODULE MCTokens -------------------------------
(* Tokens on small instances: see the .cfg files for the bounds.               *)
EXTENDS Tokens, TLC

Symmetry == Permutations(Users) \union Permutations(Chats)
================================================================================
