-------------------------------- MODULE Dispatch -------------------------------
(* Which handler an update reaches (the tree of src/src/main.rs:104-192) and   *)
(* what the handler's first checks make of it (src/src/bot_handler.rs), as     *)
(* operators without state.                                                    *)
(*                                                                             *)
(* A text is what the filters tell apart: how it begins, and what is left of   *)
(* it, trimmed, that should be a number.  "id" stands for what parse::<i64>    *)
(* accepts and is positive; "none" is the empty rest.  A mention is one in any *)
(* letter case whose case does not change its length.                          *)
EXTENDS Naturals, Sequences

Messages ==
    {m \in [chat : {"private", "group"},   \* ChatKind::Private, ChatKind::Public
            from : {"user", "admin", "nobody"},
            body : {"/start", "/plugins", "/upload_assets", "/delete_asset",
                    "/other",              \* no command of the bot's
                    "@bot", "@other", "text",
                    "joined", "left", "media"},
            rest : {"id", "junk", "none"}] :
        /\ m.rest # "none" => m.body \in {"@bot", "text", "/delete_asset"}
        /\ m.body = "text" => m.rest # "none"
        /\ m.body \in {"joined", "left"} => m.chat = "group"
        /\ m.from = "nobody" => m.chat = "group"}

Buttons == [chat : {"private", "group"}, from : {"user", "admin"},
            button : {"get_plugins", "reset_token", "unknown"}]

InlineQueries == [chat : {"inline"}, from : {"user", "admin"},
                  query : {"id", "junk", "none"}]

Updates == Messages \union Buttons \union InlineQueries

IsMessage(u) == "body" \in DOMAIN u
IsButton(u) == "button" \in DOMAIN u
IsInline(u) == "query" \in DOMAIN u
IsPrivateChat(u) == u.chat = "private"

(* Mutant: the catch-all of the groups stands before the mentions.             *)
OrderTrackFirst ==
    <<"command", "admin", "joined", "left", "track", "mention", "private">>

(* The branches of the message part of the tree, in the order they are tried.  *)
Order == <<"command", "admin", "joined", "left", "mention", "track", "private">>

Accepts == [
    command |-> {u \in Messages : u.body \in {"/start", "/plugins"}},
    admin   |-> {u \in Messages : /\ u.body \in {"/upload_assets", "/delete_asset"}
                                  /\ u.from = "admin"},
    joined  |-> {u \in Messages : u.body = "joined"},
    left    |-> {u \in Messages : u.body = "left"},
    mention |-> {u \in Messages : u.chat = "group" /\ u.body \in {"@bot", "@other"}},
    track   |-> {u \in Messages : u.chat = "group"},
    private |-> {u \in Messages : u.chat = "private"} ]

Branch == [u \in Messages |->
    LET first(i) == /\ u \in Accepts[Order[i]]
                    /\ \A j \in 1..(i - 1) : u \notin Accepts[Order[j]]
    IN  Order[CHOOSE i \in DOMAIN Order : first(i)]]

(* The handler, after the routers of the two command enums.                    *)
Endpoint(u) ==
    CASE IsButton(u) -> u.button
      [] IsInline(u) -> "inline"
      [] OTHER -> IF Branch[u] \in {"command", "admin"} THEN u.body ELSE Branch[u]

(* Mutant: the mention handler explains itself as the private one does.        *)
ReactionToMentions(u) ==
    LET e == Endpoint(u) IN
    CASE e \in {"private", "mention"} ->
            IF u.body \in {"text", "@bot"} /\ u.rest = "id" THEN "look up" ELSE "remark"
      [] OTHER -> "nothing"

(* What the handler does once its first checks are through: look the ID up,    *)
(* deliver, upload or delete plugin files, send a single message, or nothing.  *)
(* The upload and deletion handlers check for the admin again.                 *)
Reaction(u) ==
    LET e == Endpoint(u) IN
    CASE e = "private" /\ u.body = "text" /\ u.rest = "id" -> "look up"
      [] e = "private" /\ u.body \in {"text", "@bot", "@other"}
             /\ ~(u.body = "text" /\ u.rest = "id")        -> "remark"
      [] e = "mention" /\ u.body = "@bot" /\ u.rest = "id"  -> "look up"
      [] e = "inline" -> IF u.query = "id" THEN "look up" ELSE "remark"
      [] e = "/start" -> "remark"
      [] e = "/plugins" /\ ~IsPrivateChat(u) -> "remark"
      [] e = "/plugins" /\ IsPrivateChat(u) /\ u.from # "nobody" -> "deliver"
      [] e = "get_plugins" -> "deliver"
      [] e = "reset_token" -> "remark"
      [] e = "/upload_assets" /\ u.from = "admin" -> "upload"
      [] e = "/delete_asset" /\ u.from = "admin" ->
             IF u.rest = "none" THEN "remark" ELSE "delete"
      [] OTHER -> "nothing"

--------------------------------------------------------------------------------
(* What the documents say, for comparison.                                     *)

(* "Send a numeric Telegram ID to the bot", the inline query, and the mention  *)
(* in a group (README.md, Usage).                                              *)
Question(u) ==
    \/ IsMessage(u) /\ u.rest = "id" /\ \/ u.chat = "private" /\ u.body = "text"
                                        \/ u.chat = "group" /\ u.body = "@bot"
    \/ IsInline(u) /\ u.query = "id"

(* Who speaks to the bot in a group: by a command, a mention with a number     *)
(* ("Invalid or empty IDs are silently ignored to prevent spam", README.md,    *)
(* Group Mention), or one of its buttons; the admin also by admin commands.    *)
Addresses(u) ==
    \/ IsButton(u)
    \/ IsMessage(u) /\ \/ u.body \in {"/start", "/plugins"}
                       \/ u.body \in {"/upload_assets", "/delete_asset"} /\ u.from = "admin"
                       \/ u.body = "@bot" /\ u.rest = "id"

(* What an update is, by the documents. *)
Meanings == {"question", "chatter", "other"}
Meaning(u) == CASE Question(u) -> "question"
                [] u.chat = "group" /\ ~Addresses(u) -> "chatter"
                [] OTHER -> "other"
================================================================================
