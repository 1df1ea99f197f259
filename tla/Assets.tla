--------------------------------- MODULE Assets --------------------------------
(* The plugin files and their Telegram file ids: plugin_assets                 *)
(* (src/src/db.rs:268-303) under /upload_assets, /delete_asset and the         *)
(* deliveries (src/src/bot_handler.rs:132-282, 374-403).                       *)
(*                                                                             *)
(* The plugins/ directory is part of the image: its files change when a new    *)
(* release is deployed, which ends the process, and every upload of a file     *)
(* gives it a file id, here the file and the release it was uploaded from.     *)
(* A chat handles one update at a time; different chats do so concurrently.    *)
EXTENDS Naturals, Sequences

CONSTANTS Chats,
          Files,       \* the *.plugin files of plugins/: the segments of their
                       \* names, as the underscores divide them
          Names,       \* the names plugin_assets knows them by
          Normal,      \* the lower-case letters and the digits of a segment
          MaxRelease   \* bound on the releases deployed

(* derive_asset_name: the last segment, normalized.                            *)
Derive(f) == Normal[f[Len(f)]]

ASSUME DeriveAssumption == \A f \in Files : Derive(f) \in Names
ASSUME ReleaseAssumption == MaxRelease \in Nat \ {0}

(* The two files of the repository have names of their own; files that shared  *)
(* one would overwrite each other.                                             *)
ASSUME DistinctNames == \A f, g \in Files : Derive(f) = Derive(g) => f = g

VARIABLES
    release,   \* the release that is deployed
    table,     \* plugin_assets: a set of [name, file, release], one per name
    job,       \* [Chats -> Jobs]: what the chat's handler is about
    list,      \* [Chats -> SUBSET Rows]: the files a delivery has still to send
    seen,      \* history: [Chats -> SUBSET Rows]: rows in the table at some
               \* moment since the chat's delivery began
    current    \* history: files uploaded from this release, and not deleted

assetVars == <<release, table, job, list, seen, current>>

Rows == [name : Names, file : Files, release : 1..MaxRelease]

Idle == [step |-> "idle"]
Jobs == {Idle}
        \union [step : {"upload"}, todo : SUBSET Files]
        \union [step : {"upsert"}, todo : SUBSET Files, doc : Files]
        \union [step : {"delete"}, name : Names]
        \union [step : {"confirm", "fetch", "deliver"}]

At(c, step) == job[c].step = step
Goto(c, j) == job' = [job EXCEPT ![c] = j]

AssetsInit == /\ release = 1
              /\ table = {}
              /\ job = [c \in Chats |-> Idle]
              /\ list = [c \in Chats |-> {}]
              /\ seen = [c \in Chats |-> {}]
              /\ current = {}

(* The table changes: every delivery under way could have seen it so. *)
Write(rows) == /\ table' = rows
               /\ seen' = [c \in Chats |-> IF job[c].step \in {"fetch", "deliver"}
                                           THEN seen[c] \union rows ELSE seen[c]]

Without(name) == {r \in table : r.name # name}
Row(f) == [name |-> Derive(f), file |-> f, release |-> release]

--------------------------------------------------------------------------------
(* /upload_assets: the files of the directory, in any order.  An entry that    *)
(* cannot be read is passed over without a word (entries.flatten()).           *)
StartUpload(c) ==
    /\ At(c, "idle")
    /\ \E todo \in SUBSET Files : Goto(c, [step |-> "upload", todo |-> todo])
    /\ UNCHANGED <<release, table, list, seen, current>>

(* send_document succeeds; when it fails the file is reported and skipped.     *)
UploadFile(c) ==
    /\ At(c, "upload")
    /\ \E f \in job[c].todo :
          \/ Goto(c, [step |-> "upsert", todo |-> job[c].todo \ {f}, doc |-> f])
          \/ Goto(c, [step |-> "upload", todo |-> job[c].todo \ {f}])
    /\ UNCHANGED <<release, table, list, seen, current>>

(* Mutant: the first file id of a name stays (INSERT OR IGNORE).               *)
UpsertIgnored(c) ==
    /\ At(c, "upsert")
    /\ LET f == job[c].doc
       IN  /\ \/ /\ Write(IF Without(Derive(f)) = table THEN table \union {Row(f)} ELSE table)
                 /\ current' = current \union {f}
              \/ UNCHANGED <<table, seen, current>>
           /\ Goto(c, [step |-> "upload", todo |-> job[c].todo])
    /\ UNCHANGED <<release, list>>

(* upsert_plugin_asset; when it fails the file is reported.                    *)
Upsert(c) ==
    /\ At(c, "upsert")
    /\ LET f == job[c].doc
       IN  /\ \/ /\ Write(Without(Derive(f)) \union {Row(f)})
                 /\ current' = current \union {f}
              \/ UNCHANGED <<table, seen, current>>
           /\ Goto(c, [step |-> "upload", todo |-> job[c].todo])
    /\ UNCHANGED <<release, list>>

(* /delete_asset. *)
StartDelete(c) ==
    /\ At(c, "idle")
    /\ \E n \in Names : Goto(c, [step |-> "delete", name |-> n])
    /\ UNCHANGED <<release, table, list, seen, current>>

(* delete_plugin_asset, whether there is such a row or not; it may fail.  The  *)
(* admin is told either way, which ends the handler (End).                     *)
DeleteRow(c) ==
    /\ At(c, "delete")
    /\ \/ /\ Write(Without(job[c].name))
          /\ current' = {f \in current : Derive(f) # job[c].name}
       \/ UNCHANGED <<table, seen, current>>
    /\ Goto(c, [step |-> "confirm"])
    /\ UNCHANGED <<release, list>>

--------------------------------------------------------------------------------
(* send_plugins_and_token, once it has the token. *)
StartDelivery(c) ==
    /\ At(c, "idle")
    /\ Goto(c, [step |-> "fetch"])
    /\ seen' = [seen EXCEPT ![c] = table]
    /\ UNCHANGED <<release, table, list, current>>

(* Mutant: the files of the directory are sent, uploaded or not.               *)
FetchDirectory(c) ==
    /\ At(c, "fetch")
    /\ list' = [list EXCEPT ![c] = {Row(f) : f \in Files}]
    /\ Goto(c, [step |-> "deliver"])
    /\ UNCHANGED <<release, table, seen, current>>

(* get_plugin_assets. *)
Fetch(c) ==
    /\ At(c, "fetch")
    /\ list' = [list EXCEPT ![c] = table]
    /\ Goto(c, [step |-> "deliver"])
    /\ UNCHANGED <<release, table, seen, current>>

(* One file is sent, or fails to be and is passed over.                        *)
SendFile(c) ==
    /\ At(c, "deliver")
    /\ \E r \in list[c] : list' = [list EXCEPT ![c] = @ \ {r}]
    /\ UNCHANGED <<release, table, job, seen, current>>

(* The handler ends: done, or on the error of a message, a statement or the    *)
(* directory, wherever that is.                                                *)
End(c) ==
    /\ ~At(c, "idle")
    /\ Goto(c, Idle)
    /\ list' = [list EXCEPT ![c] = {}]
    /\ seen' = [seen EXCEPT ![c] = {}]
    /\ UNCHANGED <<release, table, current>>

(* The process ends and starts again, with this release or the next: the table *)
(* stays, and has the files of the old release until they are uploaded again.  *)
Restart ==
    /\ \/ UNCHANGED <<release, current>>
       \/ release < MaxRelease /\ release' = release + 1 /\ current' = {}
    /\ job' = [c \in Chats |-> Idle]
    /\ list' = [c \in Chats |-> {}]
    /\ seen' = [c \in Chats |-> {}]
    /\ UNCHANGED table

AssetStep(c) == \/ UploadFile(c) \/ Upsert(c) \/ DeleteRow(c)
                \/ Fetch(c) \/ SendFile(c) \/ End(c)

AssetsNext == \/ \E c \in Chats : \/ StartUpload(c) \/ StartDelete(c)
                                  \/ StartDelivery(c) \/ AssetStep(c)
              \/ Restart

AssetsSpec == AssetsInit /\ [][AssetsNext]_assetVars

--------------------------------------------------------------------------------
AssetsTypeOK == /\ release \in 1..MaxRelease
                /\ table \subseteq Rows
                /\ job \in [Chats -> Jobs]
                /\ list \in [Chats -> SUBSET Rows]
                /\ seen \in [Chats -> SUBSET Rows]
                /\ current \subseteq Files

(* Deliveries are sent from a snapshot, file by file, while uploads and        *)
(* deletions go on in other chats: whatever is sent was in the table after     *)
(* the user asked, so that what was deleted before is no longer handed out.    *)
DeliveryIsRecent == \A c \in Chats : list[c] \subseteq seen[c]

(* A file that was uploaded from the deployed release and not deleted since is *)
(* what users get under its name: no other upload, in whatever chat or from    *)
(* whichever release, has put another one in its place.                        *)
UploadsAreKept == \A f \in current : Row(f) \in table
================================================================================
