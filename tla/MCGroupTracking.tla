---------------------------- MODULE MCGroupTracking ----------------------------
(* GroupTracking on small instances: see the .cfg files for the bounds.        *)
EXTENDS GroupTracking, TLC

Symmetry == Permutations(Chats)
================================================================================
