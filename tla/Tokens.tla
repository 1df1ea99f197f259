--------------------------------- MODULE Tokens --------------------------------
(* The per-user API tokens: api_tokens (src/src/db.rs:213-252) under the       *)
(* handlers that hand tokens out (src/src/bot_handler.rs:109, 284, 358).       *)
(*                                                                             *)
(* The dispatcher runs the updates of one chat one after the other and those   *)
(* of different chats concurrently, so there is at most one handler per chat;  *)
(* one user can set off handlers in several chats.  Every await of a handler   *)
(* is a step of its own.  A token (a UUID) is drawn afresh by every call of    *)
(* get_or_create_token and rotate_token; those that are stored or returned are *)
(* numbered in the order of their use, and 0 is no token.                      *)
EXTENDS Naturals

CONSTANTS Users, Chats,
          NoUser,     \* a chat with no handler running
          MaxTokens   \* bound on the UUIDs used

ASSUME NoUserAssumption == NoUser \notin Users
ASSUME MaxTokensAssumption == MaxTokens \in Nat

VARIABLES
    row,        \* [Users -> 0..MaxTokens]: api_tokens, 0 where there is no row
    drawn,      \* how many UUIDs have been used
    pc,         \* [Chats -> Stages]: where the chat's handler is
    user,       \* [Chats -> Users \union {NoUser}]: whose update it handles
    token,      \* [Chats -> 0..MaxTokens]: the token it is going to send
    sent,       \* history: [Users -> 0..MaxTokens]: the last token sent to a user
    stored      \* history: the <<user, token>> pairs api_tokens has ever held

vars == <<row, drawn, pc, user, token, sent, stored>>

Stages == {"idle",
           "insert", "select",  \* get_or_create_token
           "assets", "deliver", \* the rest of send_plugins_and_token
           "update",            \* rotate_token
           "answer", "announce"}\* the rest of "reset_token"

Init == /\ row = [u \in Users |-> 0]
        /\ drawn = 0
        /\ pc = [c \in Chats |-> "idle"]
        /\ user = [c \in Chats |-> NoUser]
        /\ token = [c \in Chats |-> 0]
        /\ sent = [u \in Users |-> 0]
        /\ stored = {}

--------------------------------------------------------------------------------
(* The handler of chat c takes u's update.                                     *)
Take(c, u, stage) ==
    /\ pc[c] = "idle"
    /\ user' = [user EXCEPT ![c] = u]
    /\ pc' = [pc EXCEPT ![c] = stage]
    /\ UNCHANGED <<row, drawn, token, sent, stored>>

Goto(c, stage) == pc' = [pc EXCEPT ![c] = stage] /\ UNCHANGED user

Done(c) == /\ pc' = [pc EXCEPT ![c] = "idle"]
           /\ user' = [user EXCEPT ![c] = NoUser]
           /\ token' = [token EXCEPT ![c] = 0]

(* The next UUID, within the bound. *)
Draw == drawn < MaxTokens /\ drawn' = drawn + 1

(* u's row gets the UUID just drawn. *)
Store(u) == /\ row' = [row EXCEPT ![u] = drawn']
            /\ stored' = stored \union {<<u, drawn'>>}

(* A statement or request fails: the handler reports it and ends. *)
GiveUp(c) == Done(c) /\ UNCHANGED <<row, drawn, sent, stored>>

(* /plugins, or the get_plugins button.                                        *)
RequestToken(c, u) == Take(c, u, "insert")

(* The reset_token button, under any message that carries it: any user of the  *)
(* chat can press it, with or without a row of their own.                      *)
RequestReset(c, u) == Take(c, u, "update")

(* Mutant: INSERT OR REPLACE.                                                  *)
InsertOrReplace(c) ==
    /\ pc[c] = "insert"
    /\ Draw /\ Store(user[c])
    /\ Goto(c, "select")
    /\ UNCHANGED <<token, sent>>

(* INSERT OR IGNORE: the first token of a user stays.                          *)
Insert(c) ==
    /\ pc[c] = "insert"
    /\ \/ row[user[c]] = 0 /\ Draw /\ Store(user[c])
       \/ row[user[c]] # 0 /\ UNCHANGED <<row, drawn, stored>>
    /\ Goto(c, "select")
    /\ UNCHANGED <<token, sent>>

(* Mutants: new_token is returned without the SELECT; the last token sent to   *)
(* the user is reused.                                                         *)
SelectNothing(c) ==
    /\ pc[c] = "select"
    /\ Draw /\ token' = [token EXCEPT ![c] = drawn']
    /\ Goto(c, "assets")
    /\ UNCHANGED <<row, sent, stored>>
SelectLastSent(c) ==
    /\ pc[c] = "select"
    /\ token' = [token EXCEPT ![c] = IF sent[user[c]] # 0 THEN sent[user[c]]
                                                          ELSE row[user[c]]]
    /\ Goto(c, "assets")
    /\ UNCHANGED <<row, drawn, sent, stored>>

(* SELECT: whatever the row holds by now.                                      *)
Select(c) ==
    /\ pc[c] = "select"
    /\ token' = [token EXCEPT ![c] = row[user[c]]]
    /\ Goto(c, "assets")
    /\ UNCHANGED <<row, drawn, sent, stored>>

(* There are plugin assets, and they are sent.                                 *)
SendAssets(c) ==
    /\ pc[c] = "assets"
    /\ Goto(c, "deliver")
    /\ UNCHANGED <<row, drawn, token, sent, stored>>

(* The instructions with the token, and the new token after a reset.           *)
SendToken(c) ==
    /\ pc[c] \in {"deliver", "announce"}
    /\ sent' = [sent EXCEPT ![user[c]] = token[c]]
    /\ Done(c)
    /\ UNCHANGED <<row, drawn, stored>>

(* UPDATE: replaces the token of a row, and changes nothing where there is     *)
(* none; new_token is returned either way.                                     *)
Rotate(c) ==
    /\ pc[c] = "update"
    /\ Draw
    /\ \/ row[user[c]] # 0 /\ Store(user[c])
       \/ row[user[c]] = 0 /\ UNCHANGED <<row, stored>>
    /\ token' = [token EXCEPT ![c] = drawn']
    /\ Goto(c, "answer")
    /\ UNCHANGED sent

(* The callback is answered; the new token is sent where the button was.       *)
AnswerCallback(c) ==
    /\ pc[c] = "answer"
    /\ Goto(c, "announce")
    /\ UNCHANGED <<row, drawn, token, sent, stored>>

(* A database or Telegram error, no assets, a callback without its message: a  *)
(* handler ends wherever it is, keeping what it has written.                   *)
Fail(c) == pc[c] # "idle" /\ GiveUp(c)

(* The process is killed and started again: api_tokens stays.                  *)
Crash == /\ pc' = [c \in Chats |-> "idle"]
         /\ user' = [c \in Chats |-> NoUser]
         /\ token' = [c \in Chats |-> 0]
         /\ UNCHANGED <<row, drawn, sent, stored>>

Handle == \E c \in Chats :
              \/ \E u \in Users : RequestToken(c, u) \/ RequestReset(c, u)
              \/ Insert(c) \/ Select(c) \/ SendAssets(c) \/ SendToken(c)
              \/ Rotate(c) \/ AnswerCallback(c)
              \/ Fail(c)

Next == Handle \/ Crash

Spec == Init /\ [][Next]_vars

Run(c) == \/ Insert(c) \/ Select(c) \/ SendAssets(c) \/ SendToken(c)
          \/ Rotate(c) \/ AnswerCallback(c) \/ Fail(c)

(* Handlers go on to their end or fail; users keep asking for their token      *)
(* somewhere, and SQLite and Telegram do not fail one user for ever.           *)
Fairness ==
    /\ \A c \in Chats : WF_vars(Run(c))
    /\ \A u \in Users : /\ SF_vars(\E c \in Chats : RequestToken(c, u))
                        /\ SF_vars(\E c \in Chats : user[c] = u /\ Insert(c))
                        /\ SF_vars(\E c \in Chats : user[c] = u /\ Select(c))
                        /\ SF_vars(\E c \in Chats : user[c] = u /\ SendAssets(c))
                        /\ SF_vars(\E c \in Chats : user[c] = u /\ pc[c] = "deliver"
                                                    /\ SendToken(c))

FairSpec == Spec /\ Fairness

--------------------------------------------------------------------------------
TypeOK == /\ row \in [Users -> 0..MaxTokens]
          /\ drawn \in 0..MaxTokens
          /\ pc \in [Chats -> Stages]
          /\ user \in [Chats -> Users \union {NoUser}]
          /\ token \in [Chats -> 0..MaxTokens]
          /\ sent \in [Users -> 0..MaxTokens]
          /\ stored \subseteq Users \X (1..MaxTokens)

(* What get_or_create_token returns was its user's own token: of two first     *)
(* requests that race in different chats, the one whose INSERT is ignored      *)
(* hands out the winner's token and not the UUID it drew (db.rs:215).          *)
DeliveredTokenWasStored ==
    \A c \in Chats : pc[c] \in {"assets", "deliver"}
                        => <<user[c], token[c]>> \in stored

(* What makes it inductive: a handler at work has a user, the SELECT finds the *)
(* row that the INSERT made sure of, and a row is only ever replaced.          *)
HandlerHasUser == \A c \in Chats : pc[c] # "idle" => user[c] \in Users
SelectFindsARow == \A c \in Chats : pc[c] = "select" => row[user[c]] # 0
RowsAreStored == \A u \in Users : row[u] # 0 => <<u, row[u]>> \in stored

IInv == /\ TypeOK
        /\ HandlerHasUser
        /\ SelectFindsARow
        /\ RowsAreStored
        /\ DeliveredTokenWasStored

(* A token that stopped being valid was superseded by a reset of its own user: *)
(* no request for a token, no failure and no restart, of this user or another, *)
(* invalidates a token somebody has put into a plugin.                         *)
OnlyOwnResetRevokes ==
    [][\A u \in Users : row[u] # 0 /\ row'[u] # row[u]
           => \E c \in Chats : pc[c] = "update" /\ user[c] = u]_vars

(* A user with a token is in the end sent the one that is valid, although      *)
(* deliveries in other chats may bring revoked ones after it and a reset whose *)
(* message fails has revoked the last one without showing the next.            *)
ValidTokenIsSent == \A u \in Users : row[u] # 0 ~> row[u] = sent[u]

(* "Rotate (replace) a user's API token with a fresh UUID v4. Returns the      *)
(* newly generated token" (db.rs:238): the token a reset announces has         *)
(* replaced the user's own.                                                    *)
ResetTokenWasStored ==
    \A c \in Chats : pc[c] \in {"answer", "announce"}
                        => <<user[c], token[c]>> \in stored
================================================================================
