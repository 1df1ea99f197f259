-------------------------------- MODULE Registry -------------------------------
(* What the three-tier lookup promises about positive answers.  An ID is       *)
(* persisted only if the upstream API confirmed it, a caller is told "found"   *)
(* only about a persisted ID, and none of the three is ever taken back: not by *)
(* an eviction, a failed lookup, a dropped caller or a restart.                *)
CONSTANT Ids

VARIABLES confirmed,  \* the IDs the upstream API has confirmed
          known,      \* the IDs in the known_users table
          told        \* the IDs some caller was told are found

vars == <<confirmed, known, told>>

Init == confirmed = {} /\ known = {} /\ told = {}

Confirm == \E id \in Ids :
               confirmed' = confirmed \union {id} /\ UNCHANGED <<known, told>>

Persist == \E id \in confirmed :
               known' = known \union {id} /\ UNCHANGED <<confirmed, told>>

Tell == \E id \in known :
            told' = told \union {id} /\ UNCHANGED <<confirmed, known>>

Next == Confirm \/ Persist \/ Tell

Spec == Init /\ [][Next]_vars
================================================================================
