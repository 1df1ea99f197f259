-------------------------------- MODULE HttpApi --------------------------------
(* The HTTP API (src/src/api_server.rs:50-147) beside the handlers that issue  *)
(* and reset the tokens it checks: the steps of Tokens, interleaved with those *)
(* of GET /api/check/{id}, which reads api_tokens (src/src/db.rs:255).         *)
(*                                                                             *)
(* A request carries a token that has been drawn, the static API_BEARER_TOKEN, *)
(* or nothing of use: no Authorization header, another scheme, a made-up token.*)
(* What check_user finds is Lookup's business: here it finds, denies or fails. *)
EXTENDS Tokens

CONSTANT Clients   \* HTTP clients, each with one request at a time

VARIABLES
    at,      \* [Clients -> At]: where the client's last request is
    bearer,  \* [Clients -> Bearers]: the token it carries
    live     \* history: [Clients -> BOOLEAN]: the token was a user's on arrival

http == <<at, bearer, live>>
serviceVars == <<vars, http>>

None == 0
Static == MaxTokens + 1
Bearers == None..Static

Pending == {"validate", "check"}                  \* the awaits of handle_check
Statuses == {"200", "400", "401", "500",
             "401 unchecked"}                     \* the SELECT failed
At == {"none"} \union Pending \union Statuses

(* SELECT 1 FROM api_tokens WHERE api_token = t. *)
Valid(t) == t # None /\ \E u \in Users : row[u] = t

ServiceInit == /\ Init
               /\ at = [c \in Clients |-> "none"]
               /\ bearer = [c \in Clients |-> None]
               /\ live = [c \in Clients |-> FALSE]

--------------------------------------------------------------------------------
Move(c, to) == at' = [at EXCEPT ![c] = to] /\ UNCHANGED <<bearer, live, vars>>

(* The path of an accepted request is parsed: a positive number is looked up.  *)
ParsePath == {"check", "400"}

(* A request comes in.  Without a bearer token it is refused, with the static  *)
(* one it is accepted, and both without looking at the table.                  *)
Request(c, t) ==
    /\ at[c] \notin Pending
    /\ \E first \in At :
          /\ \/ t = None /\ first \in {"401", "validate"}
             \/ t = Static /\ first \in ParsePath
             \/ t \in 1..drawn /\ first = "validate"
          /\ at' = [at EXCEPT ![c] = first]
    /\ bearer' = [bearer EXCEPT ![c] = t]
    /\ live' = [live EXCEPT ![c] = Valid(t)]
    /\ UNCHANGED vars

(* Mutant: tokens once found are remembered, and a reset does not clear them.  *)
ValidateRemembered(c) ==
    /\ at[c] = "validate"
    /\ \E to \in {"401 unchecked"}
                    \union (IF \E u \in Users : <<u, bearer[c]>> \in stored
                              THEN ParsePath ELSE {"401"}) :
          Move(c, to)

(* validate_user_token: the SELECT finds the token, does not, or fails.        *)
Validate(c) ==
    /\ at[c] = "validate"
    /\ \E to \in {"401 unchecked"}
                    \union (IF Valid(bearer[c]) THEN ParsePath ELSE {"401"}) :
          Move(c, to)

(* check_user returns. *)
Checked(c) == at[c] = "check" /\ \E to \in {"200", "500"} : Move(c, to)

(* The client goes away, and axum drops the handler.                           *)
Disconnect(c) == at[c] \in Pending /\ Move(c, "none")

HttpStep == \E c \in Clients :
                \/ \E t \in Bearers : Request(c, t)
                \/ Validate(c) \/ Checked(c) \/ Disconnect(c)

(* The process is one: a crash ends the requests too.                          *)
ServiceCrash == /\ Crash
                /\ at' = [c \in Clients |-> "none"]
                /\ bearer' = [c \in Clients |-> None]
                /\ live' = [c \in Clients |-> FALSE]

ServiceNext == \/ Handle /\ UNCHANGED http
               \/ HttpStep
               \/ ServiceCrash

ServiceSpec == ServiceInit /\ [][ServiceNext]_serviceVars

--------------------------------------------------------------------------------
HttpTypeOK == /\ at \in [Clients -> At]
              /\ bearer \in [Clients -> Bearers]
              /\ live \in [Clients -> BOOLEAN]

(* The table decides, although it changes while requests wait for it: who is   *)
(* let in with a user's token held a valid one when the request was made, so   *)
(* that a reset shuts out every later request; and who is told 401 after the   *)
(* token was looked up holds one that is revoked or no token, for ever: no     *)
(* plugin that gives up on a 401 gives up on a token that works.               *)
Refused(c) == at[c] = "401" /\ bearer[c] # Static
Admitted(c) == at[c] \in {"check", "200", "400", "500"} /\ bearer[c] # Static

TokenDecides == \A c \in Clients : /\ Admitted(c) => live[c]
                                   /\ Refused(c) => ~Valid(bearer[c])

(* What makes it inductive: no row has a token that is yet to be drawn, so a   *)
(* token that a request carries and that is no user's stays so.                *)
RowsAreDrawn == \A u \in Users : row[u] <= drawn
BearersAreDrawn == \A c \in Clients : bearer[c] # Static => bearer[c] <= drawn
DeadStaysDead == \A c \in Clients : ~live[c] => ~Valid(bearer[c])

ServiceInv == /\ IInv
              /\ HttpTypeOK
              /\ RowsAreDrawn
              /\ BearersAreDrawn
              /\ DeadStaysDead
              /\ TokenDecides
================================================================================
