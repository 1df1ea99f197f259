----------------------------------- MODULE Bot ---------------------------------
(* The bot: the dispatcher hands updates to handlers (Dispatch); those that    *)
(* manage or deliver the plugin files do the steps of Assets, the others look  *)
(* an ID up and log it (src/src/bot_handler.rs:437-640, src/src/db.rs:116-150) *)
(* or say a word.  What check_user answers is Lookup's business: a handler     *)
(* goes on alike after a yes, a no and an error.                               *)
(*                                                                             *)
(* What handles one update at a time is called a chat: a private chat, a       *)
(* group, or whoever takes an inline query.                                    *)
EXTENDS Dispatch, Assets

VARIABLES
    stage,     \* [Chats -> Stages]: where the chat's handler is
    heard      \* history: [Chats -> Meanings]: what its update is

answering == <<stage, heard>>
botVars == <<assetVars, answering>>

Stages == {"idle", "assets", "log user", "check", "log request", "say", "remark"}

BotInit == /\ AssetsInit
           /\ stage = [c \in Chats |-> "idle"]
           /\ heard = [c \in Chats |-> "other"]

--------------------------------------------------------------------------------
(* The dispatcher takes the next update of the chat.                           *)
Begin(c, first) == stage' = [stage EXCEPT ![c] = first]

Take(c, u) ==
    /\ stage[c] = "idle"
    /\ heard' = [heard EXCEPT ![c] = Meaning(u)]
    /\ LET r == Reaction(u) IN
       \/ r = "look up" /\ Begin(c, "log user") /\ UNCHANGED assetVars
       \/ r = "remark" /\ Begin(c, "remark") /\ UNCHANGED assetVars
       \/ r = "deliver" /\ Begin(c, "assets") /\ StartDelivery(c)
       \/ r = "upload" /\ Begin(c, "assets") /\ StartUpload(c)
       \/ r = "delete" /\ Begin(c, "assets") /\ StartDelete(c)
       \/ r = "nothing" /\ Begin(c, "idle") /\ UNCHANGED assetVars

(* Mutant: the handler is spawned, and the next update is taken meanwhile.     *)
ManageAssetsDetached(c) ==
    /\ stage[c] = "assets"
    /\ AssetStep(c)
    /\ stage' = [stage EXCEPT ![c] = "idle"]
    /\ UNCHANGED heard

(* A step of a handler of Assets; as it returns, the chat's next update can be *)
(* taken.                                                                      *)
ManageAssets(c) ==
    /\ stage[c] = "assets"
    /\ AssetStep(c)
    /\ stage' = [stage EXCEPT ![c] = IF job'[c] = Idle THEN "idle" ELSE @]
    /\ UNCHANGED heard

Proceed(c, from, to) ==
    /\ stage[c] = from
    /\ stage' = [stage EXCEPT ![c] = to]
    /\ UNCHANGED <<assetVars, heard>>

(* log_bot_user is over, and a failure of it changes nothing.                  *)
LogUser(c) == Proceed(c, "log user", "check")

(* check_user has returned, with an answer or an error.                        *)
Check(c) == Proceed(c, "check", "log request")

(* log_request is over, whose failure changes nothing either.                  *)
LogRequest(c) == Proceed(c, "log request", "say")

(* The answer, or the one message of a handler that looks nothing up, is sent  *)
(* or refused by Telegram, and the handler returns.                            *)
Say(c) ==
    /\ stage[c] \in {"say", "remark"}
    /\ stage' = [stage EXCEPT ![c] = "idle"]
    /\ heard' = [heard EXCEPT ![c] = "other"]
    /\ UNCHANGED assetVars

(* Handlers and what they have not sent are lost; the tables stay.             *)
BotRestart ==
    /\ Restart
    /\ stage' = [c \in Chats |-> "idle"]
    /\ heard' = [c \in Chats |-> "other"]

BotNext == \/ \E c \in Chats :
                 \/ \E u \in Updates : Take(c, u)
                 \/ ManageAssets(c)
                 \/ LogUser(c) \/ Check(c) \/ LogRequest(c) \/ Say(c)
           \/ BotRestart

BotSpec == BotInit /\ [][BotNext]_botVars

--------------------------------------------------------------------------------
BotTypeOK == /\ AssetsTypeOK
             /\ stage \in [Chats -> Stages]
             /\ \A c \in Chats : stage[c] = "assets" <=> job[c] # Idle
             /\ heard \in [Chats -> Meanings]

(* Every question that the documents tell users how to ask is looked up, in    *)
(* each of the modes, and nothing else is: the order of the branches and the   *)
(* checks of the handlers agree for every update.                              *)
QuestionsAreLookedUp ==
    \A c \in Chats : stage[c] \in {"log user", "check", "log request", "say"}
                        <=> heard[c] = "question"

(* A group is left in peace: the bot says nothing there but in answer to a     *)
(* command, a mention with a number, or a button.                              *)
GroupsAreLeftInPeace == \A c \in Chats : heard[c] = "chatter" => stage[c] = "idle"
================================================================================
