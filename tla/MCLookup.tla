--------------------------------- MODULE MCLookup ------------------------------
(* Lookup on a small instance: see MCLookup.cfg for the bounds.  No symmetry:  *)
(* the liveness properties speak of single callers.                            *)
EXTENDS Lookup
================================================================================
