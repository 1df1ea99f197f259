-------------------------------- MODULE Session --------------------------------
(* What the application may rely on about the okcdn.ru session key, whatever   *)
(* number of lookups share it: there is one key; it is replaced only after the *)
(* server refused that very key, and then by the next one.  A key the server   *)
(* still accepts is never thrown away.                                         *)
EXTENDS Naturals

VARIABLES session_key,  \* the key in use; 0 while there is none
          rejected      \* the keys the server has answered 401/403 to

vars == <<session_key, rejected>>

Init == session_key = 0 /\ rejected = {}

(* The server refuses a request that carried a key it once issued. *)
Reject == \E k \in 1..session_key :
              rejected' = rejected \union {k} /\ UNCHANGED session_key

(* The first key, or the successor of a refused one. *)
Renew == /\ session_key = 0 \/ session_key \in rejected
         /\ session_key' = session_key + 1
         /\ UNCHANGED rejected

Next == Reject \/ Renew

Spec == Init /\ [][Next]_vars
================================================================================
