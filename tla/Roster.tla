--------------------------------- MODULE Roster --------------------------------
(* What the chat_members table promises to the scan that reads it.  Whoever is *)
(* listed is a member, but for the pairs that lag; a pair lags from before its *)
(* row or its membership changes until the row is right again; and a row that  *)
(* does not lag is never touched, but when its whole chat is struck off.       *)
CONSTANTS Chats, Users

Pairs == Chats \X Users

VARIABLES present,  \* the <<chat, user>> pairs that are members
          listed,   \* the pairs with an active row
          lag       \* the pairs whose row may not say who is a member

vars == <<present, listed, lag>>

Init == present \in SUBSET Pairs /\ listed = {} /\ lag = {}

(* Members come and go, and an update about a pair is taken up.                *)
Notice == /\ lag \subseteq lag'
          /\ present \ present' \subseteq lag' /\ present' \ present \subseteq lag'
          /\ UNCHANGED listed

(* One row is written; it goes on lagging unless it is right.                  *)
Write == \E p \in lag :
             /\ listed' \in {listed \union {p}, listed \ {p}}
             /\ lag' \in {lag, lag \ {p}}
             /\ p \in listed' => p \in present \union lag'
             /\ UNCHANGED present

(* A chat that the bot is out of is struck off.                                *)
Strike == \E c \in Chats :
              /\ listed' = listed \ ({c} \X Users)
              /\ lag' = lag \union (listed \ listed')
              /\ UNCHANGED present

Next == Notice \/ Write \/ Strike

Spec == Init /\ [][Next]_vars
================================================================================
