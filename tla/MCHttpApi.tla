------------------------------- MODULE MCHttpApi -------------------------------
(* The tokens under the HTTP API: see MCHttpApi.cfg for the bounds.            *)
EXTENDS HttpApi, TLC

Symmetry == Permutations(Users) \union Permutations(Chats) \union Permutations(Clients)
================================================================================
