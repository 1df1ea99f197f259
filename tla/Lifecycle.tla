-------------------------------- MODULE Lifecycle ------------------------------
(* The life of the process: main (src/src/main.rs:22-237), its configuration   *)
(* with the analytics pepper that is loaded or generated (src/src/config.rs),  *)
(* the schema (src/src/db.rs:10-87), the HTTP server's graceful shutdown       *)
(* (src/src/api_server.rs:166-210) and the scheduler's                         *)
(* (src/src/scheduler.rs:22-55).                                               *)
(*                                                                             *)
(* main starts its parts one after the other and then races the HTTP server,   *)
(* the bot's dispatcher and Ctrl+C in one select!: the first of the three to   *)
(* finish decides.  The tasks that serve requests, updates and the daily scan  *)
(* were spawned on the runtime, go on while main shuts the scheduler down, and *)
(* are dropped where they are when main returns.                               *)
EXTENDS Integers, Sequences

CONSTANTS Requests,  \* HTTP requests that can be served at the same time
          Users,     \* who asks the bot
          MaxKeys    \* bound on the peppers generated

ASSUME KeysAssumption == MaxKeys \in Nat

VARIABLES
    phase,       \* where main is
    file,        \* the .analytics_key file exists
    text,        \* its contents: 0 for the empty string, or a generated pepper
    drawn,       \* how many peppers have been generated
    salt,        \* AppState.analytics_salt
    place,       \* the directory of the database, by DATABASE_URL: mounted
                 \* from a volume, or the container's own (fixed)
    tables,      \* the tables of the database
    created,     \* how many CREATE TABLE statements init_db has run
    pseudonyms,  \* the pseudonyms in bot_users and requests_log
    listening,   \* the HTTP server is bound to its port
    draining,    \* the HTTP server accepts no more, and finishes what it has
    sigterm, ctrl_c,  \* the signals the process has been sent
    busy,        \* the HTTP requests being served
    handling,    \* an update handler is running
    scanning,    \* the daily scan is running
    by,          \* history: what ended the select!, or the process
    cut          \* history: what the end of the process cut off

key == <<file, text, drawn, salt>>
db == <<place, tables, created, pseudonyms>>
work == <<busy, handling, scanning>>
signals == <<sigterm, ctrl_c>>
vars == <<phase, key, db, listening, draining, signals, work, by, cut>>

Places == {"volume", "container"}
Schema == <<"known_users", "bot_users", "requests_log", "chat_members",
            "api_tokens", "plugin_assets">>
SchemaUpTo(n) == {Schema[i] : i \in 1..n}

Booting == {"config", "writing", "environment", "database", "auth", "scheduler"}
Phases == Booting \union {"serving", "stopping", "down"}
Configured == {"environment", "database", "auth", "scheduler", "serving", "stopping"}
Causes == {"nothing", "server", "dispatcher", "interrupt", "error", "kill"}

Init == /\ phase = "down"
        /\ file = FALSE
        /\ text = 0
        /\ drawn = 0
        /\ salt = 0
        /\ place \in Places
        /\ \E n \in 0..Len(Schema) : tables = SchemaUpTo(n)   \* an older release's
        /\ created = 0
        /\ pseudonyms = {}
        /\ listening = FALSE
        /\ draining = FALSE
        /\ sigterm = FALSE
        /\ ctrl_c = FALSE
        /\ busy = {}
        /\ handling = FALSE
        /\ scanning = FALSE
        /\ by = "nothing"
        /\ cut = {}

--------------------------------------------------------------------------------
(* What is left of the process when it ends: the key file and the tables.      *)
Down(cause) ==
    /\ phase' = "down"
    /\ by' = cause
    /\ cut' = {w \in {"request", "update", "scan"} :
                  \/ w = "request" /\ busy # {}
                  \/ w = "update" /\ handling
                  \/ w = "scan" /\ scanning}
    /\ salt' = 0
    /\ listening' = FALSE /\ draining' = FALSE
    /\ sigterm' = FALSE /\ ctrl_c' = FALSE
    /\ busy' = {} /\ handling' = FALSE /\ scanning' = FALSE
    /\ created' = 0
    /\ UNCHANGED <<file, text, drawn, place, tables, pseudonyms>>

(* The directory of the key file (analytics_key_path): the database's, which   *)
(* is the working directory for a name without one.  This is so for a          *)
(* DATABASE_URL of the documented form, sqlite:<path>, with or without a       *)
(* query; "sqlite:" is all that the code strips, and of sqlite://<name> it    *)
(* would make a path from the root, where the database is not.                 *)
KeyPlaceHere == "container"   \* mutant: the working directory
KeyPlace == place

(* The container is replaced by a new one: only what is in the volume stays.   *)
Redeploy ==
    /\ phase = "down"
    /\ IF KeyPlace = "container" THEN file' = FALSE /\ text' = 0
                                 ELSE UNCHANGED <<file, text>>
    /\ IF place = "container" THEN tables' = {} /\ pseudonyms' = {}
                              ELSE UNCHANGED <<tables, pseudonyms>>
    /\ UNCHANGED <<phase, drawn, salt, place, created, listening, draining,
                   signals, work, by, cut>>

(* The container is started, for the first time or again. *)
Boot ==
    /\ phase = "down"
    /\ phase' = "config"
    /\ by' = "nothing" /\ cut' = {}
    /\ UNCHANGED <<key, db, listening, draining, signals, work>>

(* Mutant: a line end is stripped that is not there.                           *)
LoadSaltStripped ==
    /\ phase = "config" /\ file
    /\ salt' = text - 1
    /\ phase' = "environment"
    /\ UNCHANGED <<file, text, drawn, db, listening, draining, signals,
                   work, by, cut>>

(* Mutant: a key file that cannot be read counts as one that is not there.     *)
LoadSaltOrDraw ==
    /\ phase = "config" /\ file
    /\ \/ salt' = text /\ UNCHANGED <<text, drawn>>
       \/ /\ drawn < MaxKeys
          /\ drawn' = drawn + 1 /\ text' = drawn' /\ salt' = drawn'
    /\ phase' = "environment"
    /\ UNCHANGED <<file, db, listening, draining, signals, work, by, cut>>

(* load_or_generate_salt: a key file that exists is read, whatever is in it.   *)
LoadSalt ==
    /\ phase = "config" /\ file
    /\ salt' = text
    /\ phase' = "environment"
    /\ UNCHANGED <<file, text, drawn, db, listening, draining, signals,
                   work, by, cut>>

(* Otherwise a pepper is generated; fs::write first creates an empty file ...  *)
CreateKeyFile ==
    /\ phase = "config" /\ ~file
    /\ drawn < MaxKeys
    /\ drawn' = drawn + 1
    /\ file' = TRUE /\ text' = 0
    /\ phase' = "writing"
    /\ UNCHANGED <<salt, db, listening, draining, signals, work, by, cut>>

(* ... and then puts the pepper into it.                                       *)
WriteKey ==
    /\ phase = "writing"
    /\ text' = drawn /\ salt' = drawn
    /\ phase' = "environment"
    /\ UNCHANGED <<file, drawn, db, listening, draining, signals, work,
                   by, cut>>

(* from_env goes on with the variables that it has yet to read.                *)
ReadEnvironment ==
    /\ phase = "environment"
    /\ phase' = "database"
    /\ UNCHANGED <<key, db, listening, draining, signals, work, by, cut>>

(* Mutant: a database that has tables has them all.                            *)
InitDbOnce ==
    /\ phase = "database"
    /\ created' = IF created = 0 /\ tables # {} THEN Len(Schema) ELSE created + 1
    /\ created' \in 1..Len(Schema)
    /\ tables' = IF created' = created + 1 THEN tables \union {Schema[created']} ELSE tables
    /\ UNCHANGED <<phase, key, place, pseudonyms, listening, draining, signals,
                   work, by, cut>>

(* init_db: CREATE TABLE IF NOT EXISTS, one table after the other.             *)
InitDb ==
    /\ phase = "database"
    /\ created < Len(Schema)
    /\ created' = created + 1
    /\ tables' = tables \union {Schema[created']}
    /\ UNCHANGED <<phase, key, place, pseudonyms, listening, draining, signals,
                   work, by, cut>>

(* The schema is done; the first authentication; the scheduler.                *)
StartUp ==
    /\ \/ phase = "database" /\ created = Len(Schema) /\ phase' = "auth"
       \/ phase = "auth" /\ phase' = "scheduler"
       \/ phase = "scheduler" /\ phase' = "serving"
    /\ UNCHANGED <<key, db, listening, draining, signals, work, by, cut>>

(* Any of these steps can fail, and main returns the error.                    *)
StartUpFails == phase \in Booting /\ Down("error")

--------------------------------------------------------------------------------
(* run_api_server binds its port, or ends with the error.                      *)
Bind ==
    /\ phase = "serving" /\ ~listening
    /\ \/ listening' = TRUE /\ UNCHANGED <<phase, by>>
       \/ phase' = "stopping" /\ by' = "error" /\ UNCHANGED listening
    /\ UNCHANGED <<key, db, draining, signals, work, cut>>

(* A request comes in.                                                         *)
Accept(r) ==
    /\ phase = "serving" /\ listening /\ ~draining
    /\ r \notin busy
    /\ busy' = busy \union {r}
    /\ UNCHANGED <<phase, key, db, listening, draining, signals,
                   handling, scanning, by, cut>>

(* It is answered.                                                             *)
Answer(r) ==
    /\ r \in busy
    /\ busy' = busy \ {r}
    /\ UNCHANGED <<phase, key, db, listening, draining, signals,
                   handling, scanning, by, cut>>

(* The dispatcher hands out an update that asks for a lookup; its handler logs *)
(* the sender under a pseudonym.                                               *)
TakeUpdate ==
    /\ phase = "serving" /\ ~handling
    /\ handling' = TRUE
    /\ UNCHANGED <<phase, key, db, listening, draining, signals, busy,
                   scanning, by, cut>>

(* hash_user_id: a keyed hash, whose collisions are neglected.                 *)
Pseudonym(u) == <<u, salt>>

FinishUpdate ==
    /\ handling
    /\ handling' = FALSE
    /\ \E u \in Users : pseudonyms' = pseudonyms \union {Pseudonym(u)}
    /\ UNCHANGED <<phase, key, place, tables, created, listening, draining,
                   signals, busy, scanning, by, cut>>

(* The daily scan starts, and ends.                                            *)
Scan ==
    /\ \/ phase = "serving" /\ ~scanning /\ scanning' = TRUE
       \/ scanning /\ scanning' = FALSE
    /\ UNCHANGED <<phase, key, db, listening, draining, signals, busy,
                   handling, by, cut>>

--------------------------------------------------------------------------------
(* The process is sent a signal it has a handler for.                          *)
Signal ==
    /\ phase = "serving" /\ listening
    /\ \/ sigterm' = TRUE /\ UNCHANGED ctrl_c
       \/ ctrl_c' = TRUE /\ UNCHANGED sigterm
    /\ UNCHANGED <<phase, key, db, listening, draining, work, by, cut>>

(* Mutant: SIGTERM is not listened for.                                        *)
BeginDrainOnCtrlC ==
    /\ phase = "serving" /\ listening /\ ~draining
    /\ ctrl_c
    /\ draining' = TRUE
    /\ UNCHANGED <<phase, key, db, listening, signals, work, by, cut>>

(* shutdown_signal: either signal makes the server drain.                      *)
BeginDrain ==
    /\ phase = "serving" /\ listening /\ ~draining
    /\ sigterm \/ ctrl_c
    /\ draining' = TRUE
    /\ UNCHANGED <<phase, key, db, listening, signals, work, by, cut>>

(* The select! is over.                                                        *)
Finish(cause) ==
    /\ phase = "serving"
    /\ phase' = "stopping"
    /\ by' = cause
    /\ UNCHANGED <<key, db, listening, draining, signals, work, cut>>

(* Mutant: the server does not wait for its requests.                          *)
ServerExitsAtOnce == draining /\ Finish("server")

ServerExits == draining /\ busy = {} /\ Finish("server")
Interrupted == ctrl_c /\ Finish("interrupt")
DispatcherExits == Finish("dispatcher")

(* The scheduler is shut down, main returns, and the runtime with it.          *)
Exit == phase = "stopping" /\ Down(by)

(* SIGKILL, a panic, a signal without a handler yet.                           *)
Kill == phase # "down" /\ Down("kill")

Next == \/ Redeploy \/ Boot
        \/ LoadSalt \/ CreateKeyFile \/ WriteKey \/ ReadEnvironment \/ InitDb
        \/ StartUp \/ StartUpFails
        \/ Bind \/ TakeUpdate \/ FinishUpdate \/ Scan
        \/ \E r \in Requests : Accept(r) \/ Answer(r)
        \/ Signal \/ BeginDrain
        \/ ServerExits \/ Interrupted \/ DispatcherExits
        \/ Exit \/ Kill

Spec == Init /\ [][Next]_vars

(* A request is answered in the end, and the runtime polls main.               *)
Fairness == /\ \A r \in Requests : WF_vars(Answer(r))
            /\ WF_vars(BeginDrain)
            /\ WF_vars(ServerExits)
            /\ WF_vars(Interrupted)
            /\ WF_vars(Exit)

FairSpec == Spec /\ Fairness

--------------------------------------------------------------------------------
FlagsOK == {file, listening, draining, sigterm, ctrl_c, handling, scanning} \subseteq BOOLEAN

ValuesOK == /\ phase \in Phases
            /\ text \in 0..MaxKeys
            /\ drawn \in 0..MaxKeys
            /\ salt \in 0..MaxKeys
            /\ place \in Places
            /\ tables \subseteq SchemaUpTo(Len(Schema))
            /\ created \in 0..Len(Schema)
            /\ pseudonyms \subseteq Users \X (0..MaxKeys)
            /\ busy \subseteq Requests
            /\ by \in Causes
            /\ cut \subseteq {"request", "update", "scan"}

TypeOK == FlagsOK /\ ValuesOK

(* One person has one pseudonym for ever ("must persist across restarts to     *)
(* maintain consistent pseudonymized identifiers", README.md:434): the rows    *)
(* that analytics has ever written come from one pepper, through failed and    *)
(* killed starts, wherever they were interrupted, and new containers.          *)
StablePseudonyms == \A p, q \in pseudonyms : p[1] = q[1] => p = q

(* As long as there is a row the pepper stays, in the file and in the process: *)
(* no start, however it ends, and no new container draws or loads another one  *)
(* beside stored pseudonyms, not even an empty one, before anybody is logged   *)
(* under it.                                                                   *)
KeepsPepper == file' /\ text' = text /\ (phase' \in Configured => salt' = text)
PepperIsKept ==
    [][pseudonyms # {} /\ pseudonyms' # {} => KeepsPepper]_vars

(* No part that uses the database runs before it has every table, whichever    *)
(* release made it and wherever earlier starts ended.                          *)
SchemaIsComplete == phase \in {"auth", "scheduler", "serving", "stopping"}
                        => tables = SchemaUpTo(Len(Schema))

(* A process that ends because its HTTP server has drained leaves no request   *)
(* unanswered: none slips in between the signal, the end of the select! and    *)
(* main's return.                                                              *)
DrainedServerLosesNothing ==
    by = "server" => busy = {} /\ "request" \notin cut

(* A process that was sent SIGTERM or Ctrl+C ends, although requests may be    *)
(* under way and updates keep coming.                                          *)
SignalEndsTheProcess == sigterm \/ ctrl_c ~> phase = "down"
================================================================================
