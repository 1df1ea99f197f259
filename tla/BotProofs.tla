-------------------------------- MODULE BotProofs ------------------------------
(* Proofs about Assets, about Bot, which implements it, and about what Bot     *)
(* answers at all: for any chats, files and number of releases.                *)
EXTENDS Bot, TLAPS

(* What makes DeliveryIsRecent inductive: only a delivery has files to send,   *)
(* and while it is about to fetch them or sends them it has seen the table.    *)
OnlyDeliveriesSend == \A c \in Chats : list[c] # {} => At(c, "deliver")
DeliveriesLook == \A c \in Chats : At(c, "fetch") \/ At(c, "deliver") => table \subseteq seen[c]

AInv == /\ AssetsTypeOK
        /\ OnlyDeliveriesSend
        /\ DeliveriesLook
        /\ DeliveryIsRecent
        /\ UploadsAreKept

(* The kinds of jobs.                                                          *)
LEMMA JobKinds ==
  /\ Idle \in Jobs
  /\ \A S \in SUBSET Files : [step |-> "upload", todo |-> S] \in Jobs
  /\ \A S \in SUBSET Files, f \in Files : [step |-> "upsert", todo |-> S, doc |-> f] \in Jobs
  /\ \A n \in Names : [step |-> "delete", name |-> n] \in Jobs
  /\ [step |-> "confirm"] \in Jobs
  /\ [step |-> "fetch"] \in Jobs /\ [step |-> "deliver"] \in Jobs
  BY DEF Jobs, Idle

(* What a job of an uploading or deleting handler is about.                    *)
LEMMA JobFields ==
  ASSUME NEW j \in Jobs
  PROVE  /\ j.step \in {"upload", "upsert"} => j.todo \subseteq Files
         /\ j.step = "upsert" => j.doc \in Files
         /\ j.step = "delete" => j.name \in Names
  BY DEF Jobs, Idle

(* The row of a file of the directory.                                         *)
LEMMA RowsOfFiles ==
  ASSUME release \in 1..MaxRelease, NEW f \in Files
  PROVE  Row(f) \in Rows
  BY DeriveAssumption DEF Row, Rows

(* No file is uploaded, and nobody has asked for one.                          *)
LEMMA AssetsInitInv == AssetsInit => AInv
  <1> SUFFICES ASSUME AssetsInit PROVE AInv
    OBVIOUS
  <1> USE DEF AssetsInit
  <1>1. AssetsTypeOK
    BY JobKinds, ReleaseAssumption DEF AssetsTypeOK
  <1>2. OnlyDeliveriesSend /\ DeliveriesLook /\ DeliveryIsRecent /\ UploadsAreKept
    BY DEF OnlyDeliveriesSend, DeliveriesLook, DeliveryIsRecent, UploadsAreKept, At, Idle
  <1> QED
    BY <1>1, <1>2 DEF AInv

(* A handler of an admin's moves on, and leaves the table and what deliveries  *)
(* have seen of it.                                                            *)
LEMMA MoveOn ==
  ASSUME AInv, NEW c \in Chats, NEW j \in Jobs, Goto(c, j),
         ~At(c, "fetch"), ~At(c, "deliver"), j.step \notin {"fetch", "deliver"},
         UNCHANGED <<release, table, list, seen, current>>
  PROVE  AInv'
  <1> USE DEF AInv, AssetsTypeOK, Goto, At
  <1>1. AssetsTypeOK'
    OBVIOUS
  <1>2. OnlyDeliveriesSend'
    BY DEF OnlyDeliveriesSend
  <1>3. DeliveriesLook'
    BY DEF DeliveriesLook
  <1>4. DeliveryIsRecent' /\ UploadsAreKept'
    BY DEF DeliveryIsRecent, UploadsAreKept, Row
  <1> QED
    BY <1>1, <1>2, <1>3, <1>4

(* The table is written, and every delivery under way sees it so.              *)
LEMMA WriteStep ==
  ASSUME AInv, NEW c \in Chats, NEW j \in Jobs, Goto(c, j),
         ~At(c, "fetch"), ~At(c, "deliver"), j.step \notin {"fetch", "deliver"},
         NEW rows \in SUBSET Rows, Write(rows),
         current' \subseteq Files, UploadsAreKept', UNCHANGED <<release, list>>
  PROVE  AInv'
  <1> USE DEF AInv, AssetsTypeOK, Goto, At, Write
  <1>1. AssetsTypeOK'
    OBVIOUS
  <1>2. OnlyDeliveriesSend'
    BY DEF OnlyDeliveriesSend
  <1>3. DeliveriesLook'
    BY DEF DeliveriesLook
  <1>4. DeliveryIsRecent'
    BY DEF DeliveryIsRecent
  <1> QED
    BY <1>1, <1>2, <1>3, <1>4

(* A file goes into the table: no other that was uploaded has its name.        *)
LEMMA UpsertStep ==
  ASSUME AInv, NEW c \in Chats, Upsert(c)
  PROVE  AInv'
  <1> DEFINE f == job[c].doc
             j == [step |-> "upload", todo |-> job[c].todo]
  <1>1. /\ At(c, "upsert")
        /\ \/ /\ Write(Without(Derive(f)) \union {Row(f)})
              /\ current' = current \union {f}
           \/ UNCHANGED <<table, seen, current>>
        /\ Goto(c, j)
        /\ UNCHANGED <<release, list>>
    BY DEF Upsert
  <1>2. f \in Files /\ job[c].todo \subseteq Files
    BY <1>1, JobFields DEF AInv, AssetsTypeOK, At
  <1>3. j \in Jobs /\ j.step = "upload"
    BY <1>2, JobKinds
  <1>4. ~At(c, "fetch") /\ ~At(c, "deliver")
    BY <1>1 DEF At
  <1>5. CASE UNCHANGED <<table, seen, current>>
    BY <1>1, <1>3, <1>4, <1>5, MoveOn
  <1>6. CASE Write(Without(Derive(f)) \union {Row(f)}) /\ current' = current \union {f}
    <2> DEFINE rows == Without(Derive(f)) \union {Row(f)}
    <2>1. rows \in SUBSET Rows
      BY <1>2, RowsOfFiles DEF AInv, AssetsTypeOK, Without
    <2>2. current' \subseteq Files
      BY <1>2, <1>6 DEF AInv, AssetsTypeOK
    <2>3. ASSUME NEW g \in current
          PROVE  Row(g) \in rows
      <3>1. g \in Files /\ Row(g) \in table
        BY DEF AInv, AssetsTypeOK, UploadsAreKept
      <3>2. CASE g = f
        BY <3>2
      <3>3. CASE g # f
        BY <1>2, <3>1, <3>3, DistinctNames DEF Without, Row
      <3> QED
        BY <3>2, <3>3
    <2>4. UploadsAreKept'
      BY <1>1, <1>6, <2>3 DEF UploadsAreKept, Write, Row
    <2> HIDE DEF rows, j
    <2> QED
      BY <1>1, <1>3, <1>4, <1>6, <2>1, <2>2, <2>4, WriteStep DEF rows
  <1> QED
    BY <1>1, <1>5, <1>6

(* A row is taken away, and no file is current by its name any more.           *)
LEMMA DeleteStep ==
  ASSUME AInv, NEW c \in Chats, DeleteRow(c)
  PROVE  AInv'
  <1> DEFINE j == [step |-> "confirm"]
  <1>1. /\ At(c, "delete")
        /\ \/ /\ Write(Without(job[c].name))
              /\ current' = {f \in current : Derive(f) # job[c].name}
           \/ UNCHANGED <<table, seen, current>>
        /\ Goto(c, j)
        /\ UNCHANGED <<release, list>>
    BY DEF DeleteRow
  <1>2. j \in Jobs /\ j.step = "confirm"
    BY JobKinds
  <1>3. ~At(c, "fetch") /\ ~At(c, "deliver")
    BY <1>1 DEF At
  <1> HIDE DEF j
  <1>4. CASE UNCHANGED <<table, seen, current>>
    BY <1>1, <1>2, <1>3, <1>4, MoveOn
  <1>5. CASE /\ Write(Without(job[c].name))
             /\ current' = {f \in current : Derive(f) # job[c].name}
    <2>1. Without(job[c].name) \in SUBSET Rows /\ current' \subseteq Files
      BY <1>5 DEF AInv, AssetsTypeOK, Without
    <2>2. UploadsAreKept'
      BY <1>1, <1>5 DEF AInv, UploadsAreKept, Write, Without, Row
    <2> QED
      BY <1>1, <1>2, <1>3, <1>5, <2>1, <2>2, WriteStep
  <1> QED
    BY <1>1, <1>4, <1>5

(* A delivery begins, looks, and sends, or a handler ends: only the lists of   *)
(* the one chat change.                                                        *)
LEMMA DeliveryStep ==
  ASSUME AInv, NEW c \in Chats, StartDelivery(c) \/ Fetch(c) \/ SendFile(c) \/ End(c)
  PROVE  AInv'
  <1>1. CASE StartDelivery(c)
    <2> USE <1>1 DEF StartDelivery, AInv, AssetsTypeOK, Goto, At
    <2>1. AssetsTypeOK'
      BY JobKinds
    <2>2. OnlyDeliveriesSend' /\ DeliveriesLook' /\ DeliveryIsRecent'
      BY DEF OnlyDeliveriesSend, DeliveriesLook, DeliveryIsRecent
    <2>3. UploadsAreKept'
      BY DEF UploadsAreKept, Row
    <2> QED
      BY <2>1, <2>2, <2>3
  <1>2. CASE Fetch(c)
    <2> USE <1>2 DEF Fetch, AInv, AssetsTypeOK, Goto, At
    <2>1. AssetsTypeOK'
      BY JobKinds
    <2>2. OnlyDeliveriesSend' /\ DeliveriesLook' /\ DeliveryIsRecent'
      BY DEF OnlyDeliveriesSend, DeliveriesLook, DeliveryIsRecent
    <2>3. UploadsAreKept'
      BY DEF UploadsAreKept, Row
    <2> QED
      BY <2>1, <2>2, <2>3
  <1>3. CASE SendFile(c)
    <2> USE <1>3 DEF SendFile, AInv, AssetsTypeOK, At
    <2>1. AssetsTypeOK'
      OBVIOUS
    <2>2. OnlyDeliveriesSend' /\ DeliveriesLook' /\ DeliveryIsRecent'
      BY DEF OnlyDeliveriesSend, DeliveriesLook, DeliveryIsRecent
    <2>3. UploadsAreKept'
      BY DEF UploadsAreKept, Row
    <2> QED
      BY <2>1, <2>2, <2>3
  <1>4. CASE End(c)
    <2> USE <1>4 DEF End, AInv, AssetsTypeOK, Goto, At
    <2>1. AssetsTypeOK'
      BY JobKinds
    <2>2. OnlyDeliveriesSend' /\ DeliveriesLook' /\ DeliveryIsRecent'
      BY DEF OnlyDeliveriesSend, DeliveriesLook, DeliveryIsRecent, Idle
    <2>3. UploadsAreKept'
      BY DEF UploadsAreKept, Row
    <2> QED
      BY <2>1, <2>2, <2>3
  <1> QED
    BY <1>1, <1>2, <1>3, <1>4

(* A new process has no deliveries; a new release, no uploads.                 *)
LEMMA RestartStep ==
  ASSUME AInv, Restart
  PROVE  AInv'
  <1> USE DEF Restart, AInv, AssetsTypeOK
  <1>1. AssetsTypeOK'
    <2>1. release' \in 1..MaxRelease /\ current' \subseteq Files
      BY ReleaseAssumption
    <2>2. job' \in [Chats -> Jobs]
      BY JobKinds
    <2> QED
      BY <2>1, <2>2
  <1>2. OnlyDeliveriesSend' /\ DeliveriesLook' /\ DeliveryIsRecent'
    BY DEF OnlyDeliveriesSend, DeliveriesLook, DeliveryIsRecent, At, Idle
  <1>3. UploadsAreKept'
    BY DEF UploadsAreKept, Row
  <1> QED
    BY <1>1, <1>2, <1>3

(* The inductive step, action by action.                                       *)
LEMMA AssetsNextInv == AInv /\ [AssetsNext]_assetVars => AInv'
  <1> SUFFICES ASSUME AInv, [AssetsNext]_assetVars PROVE AInv'
    OBVIOUS
  <1>1. ASSUME NEW c \in Chats, StartUpload(c) PROVE AInv'
    <2>1. PICK todo \in SUBSET Files : Goto(c, [step |-> "upload", todo |-> todo])
      BY <1>1 DEF StartUpload
    <2> DEFINE j == [step |-> "upload", todo |-> todo]
    <2>2. j \in Jobs /\ j.step = "upload" /\ Goto(c, j)
      BY <2>1, JobKinds
    <2> HIDE DEF j
    <2> QED
      BY <1>1, <2>2, MoveOn DEF StartUpload, At
  <1>2. ASSUME NEW c \in Chats, UploadFile(c) PROVE AInv'
    <2>1. job[c].todo \subseteq Files
      BY <1>2, JobFields DEF UploadFile, At, AInv, AssetsTypeOK
    <2>2. PICK f \in job[c].todo :
             \/ Goto(c, [step |-> "upsert", todo |-> job[c].todo \ {f}, doc |-> f])
             \/ Goto(c, [step |-> "upload", todo |-> job[c].todo \ {f}])
      BY <1>2 DEF UploadFile
    <2>3. PICK j \in Jobs : j.step \in {"upsert", "upload"} /\ Goto(c, j)
      BY <2>1, <2>2, JobKinds
    <2> QED
      BY <1>2, <2>3, MoveOn DEF UploadFile, At
  <1>3. ASSUME NEW c \in Chats, StartDelete(c) PROVE AInv'
    <2>1. PICK n \in Names : Goto(c, [step |-> "delete", name |-> n])
      BY <1>3 DEF StartDelete
    <2> DEFINE j == [step |-> "delete", name |-> n]
    <2>2. j \in Jobs /\ j.step = "delete" /\ Goto(c, j)
      BY <2>1, JobKinds
    <2> HIDE DEF j
    <2> QED
      BY <1>3, <2>2, MoveOn DEF StartDelete, At
  <1>4. CASE UNCHANGED assetVars
    BY <1>4 DEF assetVars, AInv, AssetsTypeOK, OnlyDeliveriesSend, DeliveriesLook,
                DeliveryIsRecent, UploadsAreKept, At, Row
  <1> QED
    BY <1>1, <1>2, <1>3, <1>4, UpsertStep, DeleteStep, DeliveryStep, RestartStep
       DEF AssetsNext, AssetStep

(* Every reachable state of the plugin files satisfies the invariant.          *)
THEOREM AssetsInductive == AssetsSpec => []AInv
  BY AssetsInitInv, AssetsNextInv, PTL DEF AssetsSpec

(* A step of the bot is one of Assets, or leaves the plugin files alone.       *)
LEMMA BotStepsAssets == [BotNext]_botVars => [AssetsNext]_assetVars
  <1> SUFFICES ASSUME [BotNext]_botVars PROVE [AssetsNext]_assetVars
    OBVIOUS
  <1>1. ASSUME NEW c \in Chats, NEW u \in Updates, Take(c, u)
        PROVE  [AssetsNext]_assetVars
    BY <1>1 DEF Take, AssetsNext
  <1>2. ASSUME NEW c \in Chats, ManageAssets(c)
        PROVE  [AssetsNext]_assetVars
    BY <1>2 DEF ManageAssets, AssetsNext
  <1>3. ASSUME NEW c \in Chats, LogUser(c) \/ Check(c) \/ LogRequest(c) \/ Say(c)
        PROVE  UNCHANGED assetVars
    BY <1>3 DEF LogUser, Check, LogRequest, Proceed, Say
  <1>4. CASE UNCHANGED botVars
    BY <1>4 DEF botVars
  <1>5. CASE BotRestart
    BY <1>5 DEF BotRestart, AssetsNext
  <1> QED
    BY <1>1, <1>2, <1>3, <1>4, <1>5 DEF BotNext

(* The bot implements Assets: whatever handlers the dispatcher runs beside     *)
(* them, the plugin files only change as their own handlers say.               *)
THEOREM BotImplementsAssets == BotSpec => AssetsSpec
  <1>1. BotInit => AssetsInit
    BY DEF BotInit
  <1> QED
    BY <1>1, BotStepsAssets, PTL DEF BotSpec, AssetsSpec

(* In the bot, whatever a delivery sends was in the table after the user asked.*)
THEOREM DeliveriesAreRecent == BotSpec => []DeliveryIsRecent
  <1>1. AInv => DeliveryIsRecent
    BY DEF AInv
  <1> QED
    BY <1>1, AssetsInductive, BotImplementsAssets, PTL

(* In the bot, a file uploaded from the deployed release is what users get     *)
(* under its name until it is deleted.                                         *)
THEOREM UploadsStay == BotSpec => []UploadsAreKept
  <1>1. AInv => UploadsAreKept
    BY DEF AInv
  <1> QED
    BY <1>1, AssetsInductive, BotImplementsAssets, PTL

--------------------------------------------------------------------------------
(* The types of the bot rest on those of the plugin files.                     *)
BInv == AInv /\ BotTypeOK

(* Every chat is idle.                                                         *)
LEMMA BotInitInv == BotInit => BInv
  <1> SUFFICES ASSUME BotInit PROVE BInv
    OBVIOUS
  <1> USE DEF BotInit
  <1>1. AInv
    BY AssetsInitInv
  <1>2. BotTypeOK
    BY <1>1 DEF BotTypeOK, AInv, AssetsInit, Stages, Meanings
  <1> QED
    BY <1>1, <1>2 DEF BInv

(* The inductive step, action by action.                                       *)
LEMMA BotNextInv == BInv /\ [BotNext]_botVars => BInv'
  <1> SUFFICES ASSUME BInv, [BotNext]_botVars PROVE BInv'
    OBVIOUS
  <1>0. AInv'
    BY AssetsNextInv, BotStepsAssets DEF BInv
  <1> SUFFICES BotTypeOK'
    BY <1>0 DEF BInv
  <1>a. AssetsTypeOK'
    BY <1>0 DEF AInv
  <1> USE <1>a DEF BInv, BotTypeOK
  <1>1. ASSUME NEW c \in Chats, NEW u \in Updates, Take(c, u)
        PROVE  BotTypeOK'
    <2>1. Meaning(u) \in Meanings
      BY DEF Meaning, Meanings
    <2>2. PICK first \in {"idle", "log user", "remark", "assets"} :
             /\ Begin(c, first)
             /\ first = "assets" => job'[c] # Idle /\ \A d \in Chats \ {c} : job'[d] = job[d]
             /\ first # "assets" => UNCHANGED job
      <3>1. ASSUME NEW j, Goto(c, j), j.step # "idle"
            PROVE  job'[c] # Idle /\ \A d \in Chats \ {c} : job'[d] = job[d]
        <4>1. job'[c] = j /\ \A d \in Chats \ {c} : job'[d] = job[d]
          BY <3>1 DEF AssetsTypeOK, Goto
        <4>2. Idle.step = "idle"
          BY DEF Idle
        <4> QED
          BY <3>1, <4>1, <4>2
      <3>2. ASSUME StartDelivery(c) \/ StartUpload(c) \/ StartDelete(c)
            PROVE  job'[c] # Idle /\ \A d \in Chats \ {c} : job'[d] = job[d]
        <4>1. ASSUME NEW S \in SUBSET Files, Goto(c, [step |-> "upload", todo |-> S])
              PROVE  \E j : Goto(c, j) /\ j.step # "idle"
          <5>1. [step |-> "upload", todo |-> S].step # "idle"
            OBVIOUS
          <5> QED
            BY <4>1, <5>1
        <4>2. ASSUME NEW n \in Names, Goto(c, [step |-> "delete", name |-> n])
              PROVE  \E j : Goto(c, j) /\ j.step # "idle"
          <5>1. [step |-> "delete", name |-> n].step # "idle"
            OBVIOUS
          <5> QED
            BY <4>2, <5>1
        <4>3. ASSUME Goto(c, [step |-> "fetch"])
              PROVE  \E j : Goto(c, j) /\ j.step # "idle"
          <5>1. [step |-> "fetch"].step # "idle"
            OBVIOUS
          <5> QED
            BY <4>3, <5>1
        <4>4. PICK j : Goto(c, j) /\ j.step # "idle"
          BY <3>2, <4>1, <4>2, <4>3 DEF StartDelivery, StartUpload, StartDelete
        <4> QED
          BY <3>1, <4>4
      <3> QED
        BY <1>1, <3>2 DEF Take, assetVars
    <2>3. /\ stage[c] = "idle"
          /\ heard' = [heard EXCEPT ![c] = Meaning(u)]
          /\ stage' = [stage EXCEPT ![c] = first]
      BY <1>1, <2>2 DEF Take, Begin
    <2>4. \A d \in Chats : stage'[d] = "assets" <=> job'[d] # Idle
      BY <2>2, <2>3
    <2> QED
      BY <2>1, <2>3, <2>4 DEF Stages
  <1>2. ASSUME NEW c \in Chats, ManageAssets(c)
        PROVE  BotTypeOK'
    <2>1. \A d \in Chats \ {c} : job'[d] = job[d]
      BY <1>2 DEF ManageAssets, AssetStep, UploadFile, Upsert, DeleteRow, Fetch, SendFile,
                  End, Goto, AssetsTypeOK
    <2> QED
      BY <1>2, <2>1 DEF ManageAssets, Stages
  <1>3. ASSUME NEW c \in Chats, LogUser(c) \/ Check(c) \/ LogRequest(c)
        PROVE  BotTypeOK'
    BY <1>3 DEF LogUser, Check, LogRequest, Proceed, assetVars, Stages
  <1>4. ASSUME NEW c \in Chats, Say(c)
        PROVE  BotTypeOK'
    BY <1>4 DEF Say, assetVars, Stages, Meanings
  <1>5. CASE BotRestart
    BY <1>5 DEF BotRestart, Restart, Stages, Meanings
  <1>6. CASE UNCHANGED botVars
    BY <1>6 DEF botVars, answering, assetVars
  <1> QED
    BY <1>1, <1>2, <1>3, <1>4, <1>5, <1>6 DEF BotNext

(* Every reachable state of the bot satisfies the invariant.                   *)
THEOREM BotInductive == BotSpec => []BInv
  BY BotInitInv, BotNextInv, PTL DEF BotSpec

(* Type correctness; and a chat's handler and its stage agree.                 *)
THEOREM BotTypeCorrect == BotSpec => []BotTypeOK
  <1>1. BInv => BotTypeOK
    BY DEF BInv
  <1> QED
    BY <1>1, BotInductive, PTL

--------------------------------------------------------------------------------
(* The fields of a message.                                                    *)
LEMMA MessageFields ==
  ASSUME NEW u \in Messages
  PROVE  /\ u.chat \in {"private", "group"}
         /\ u.from \in {"user", "admin", "nobody"}
         /\ u.body \in {"/start", "/plugins", "/upload_assets", "/delete_asset", "/other",
                        "@bot", "@other", "text", "joined", "left", "media"}
         /\ u.rest \in {"id", "junk", "none"}
         /\ u.rest # "none" => u.body \in {"@bot", "text", "/delete_asset"}
         /\ u.body \in {"joined", "left"} => u.chat = "group"
         /\ IsMessage(u) /\ ~IsButton(u) /\ ~IsInline(u)
  BY DEF Messages, IsMessage, IsButton, IsInline

(* A message goes to the first branch that accepts it.                         *)
LEMMA FirstBranch ==
  ASSUME NEW u \in Messages, NEW i \in 1..7, u \in Accepts[Order[i]],
         \A j \in 1..(i - 1) : u \notin Accepts[Order[j]]
  PROVE  Branch[u] = Order[i]
  <1> DEFINE first(k) == /\ u \in Accepts[Order[k]]
                         /\ \A j \in 1..(k - 1) : u \notin Accepts[Order[j]]
  <1>1. DOMAIN Order = 1..7
    BY DEF Order
  <1>2. Branch[u] = Order[CHOOSE k \in DOMAIN Order : first(k)]
    BY DEF Branch
  <1>3. \A k \in 1..7 : first(k) => k = i
    OBVIOUS
  <1>4. (CHOOSE k \in DOMAIN Order : first(k)) = i
    BY <1>1, <1>3
  <1> QED
    BY <1>2, <1>4

(* The branches by what a message is.                                          *)
LEMMA Branches ==
  ASSUME NEW u \in Messages
  PROVE  Branch[u] =
           IF u.body \in {"/start", "/plugins"} THEN "command"
           ELSE IF u.body \in {"/upload_assets", "/delete_asset"} /\ u.from = "admin" THEN "admin"
           ELSE IF u.body \in {"joined", "left"} THEN u.body
           ELSE IF u.chat = "private" THEN "private"
           ELSE IF u.body \in {"@bot", "@other"} THEN "mention" ELSE "track"
  <1>1. /\ Order[1] = "command" /\ Order[2] = "admin" /\ Order[3] = "joined"
        /\ Order[4] = "left" /\ Order[5] = "mention" /\ Order[6] = "track"
        /\ Order[7] = "private"
    BY DEF Order
  <1>2. /\ u \in Accepts["command"] <=> u.body \in {"/start", "/plugins"}
        /\ u \in Accepts["admin"] <=> /\ u.body \in {"/upload_assets", "/delete_asset"}
                                    /\ u.from = "admin"
        /\ u \in Accepts["joined"] <=> u.body = "joined"
        /\ u \in Accepts["left"] <=> u.body = "left"
        /\ u \in Accepts["mention"] <=> u.chat = "group" /\ u.body \in {"@bot", "@other"}
        /\ u \in Accepts["track"] <=> u.chat = "group"
        /\ u \in Accepts["private"] <=> u.chat = "private"
    BY DEF Accepts
  <1>3. ASSUME NEW i \in 1..7, u \in Accepts[Order[i]],
               \A j \in 1..7 : u \in Accepts[Order[j]] => i <= j
        PROVE  Branch[u] = Order[i]
    BY <1>3, FirstBranch
  <1>4. \A j \in 1..7 : j \in {1, 2, 3, 4, 5, 6, 7}
    OBVIOUS
  <1>5. CASE u.body \in {"/start", "/plugins"}
    BY <1>1, <1>2, <1>3, <1>4, <1>5
  <1>6. CASE u.body \in {"/upload_assets", "/delete_asset"} /\ u.from = "admin"
    BY <1>1, <1>2, <1>3, <1>4, <1>6
  <1>7. CASE u.body \in {"joined", "left"}
    BY <1>1, <1>2, <1>3, <1>4, <1>7
  <1>8. CASE /\ u.body \notin {"/start", "/plugins", "joined", "left"}
             /\ ~(u.body \in {"/upload_assets", "/delete_asset"} /\ u.from = "admin")
    <2>1. u.chat \in {"private", "group"}
      BY MessageFields
    <2> QED
      BY <1>1, <1>2, <1>3, <1>4, <1>8, <2>1
  <1> QED
    BY <1>5, <1>6, <1>7, <1>8

(* What a handler does with a message, by what the message is.                 *)
LEMMA ReactionToMessage ==
  ASSUME NEW u \in Messages
  PROVE  /\ Reaction(u) = "look up" <=> Question(u)
         /\ Meaning(u) = "chatter" => Reaction(u) = "nothing"
  <1>1. CASE Branch[u] \in {"command", "admin"}
    BY <1>1, MessageFields, Branches DEF Reaction, Endpoint, Question, Meaning, Addresses
  <1>2. CASE Branch[u] \notin {"command", "admin"}
    BY <1>2, MessageFields, Branches DEF Reaction, Endpoint, Question, Meaning, Addresses
  <1> QED
    BY <1>1, <1>2

(* What a handler does with any update: it looks up what the documents call a  *)
(* question, and does nothing about chatter.                                   *)
LEMMA ReactionFitsMeaning ==
  ASSUME NEW u \in Updates
  PROVE  /\ Reaction(u) = "look up" <=> Meaning(u) = "question"
         /\ Meaning(u) = "chatter" => Reaction(u) = "nothing"
  <1>1. CASE u \in Messages
    BY <1>1, ReactionToMessage, MessageFields DEF Meaning, Question, Addresses
  <1>2. CASE u \in Buttons
    <2>1. u.button \in {"get_plugins", "reset_token", "unknown"}
      BY <1>2 DEF Buttons
    <2>2. IsButton(u) /\ ~IsMessage(u) /\ ~IsInline(u)
      BY <1>2 DEF Buttons, IsButton, IsMessage, IsInline
    <2> QED
      BY <2>1, <2>2 DEF Reaction, Endpoint, Question, Meaning, Addresses
  <1>3. CASE u \in InlineQueries
    <2>1. u.chat = "inline"
      BY <1>3 DEF InlineQueries
    <2>2. IsInline(u) /\ ~IsMessage(u) /\ ~IsButton(u)
      BY <1>3 DEF InlineQueries, IsButton, IsMessage, IsInline
    <2> QED
      BY <2>1, <2>2 DEF Reaction, Endpoint, Question, Meaning, Addresses
  <1> QED
    BY <1>1, <1>2, <1>3 DEF Updates

(* No chat has an update yet.                                                  *)
LEMMA RoutingInitInv == BotInit => QuestionsAreLookedUp /\ GroupsAreLeftInPeace
  BY DEF BotInit, QuestionsAreLookedUp, GroupsAreLeftInPeace

(* A chat whose update is taken as its meaning asks.                           *)
LEMMA TakeRouting ==
  ASSUME BotTypeOK, QuestionsAreLookedUp, GroupsAreLeftInPeace,
         NEW c \in Chats, NEW u \in Updates, Take(c, u)
  PROVE  QuestionsAreLookedUp' /\ GroupsAreLeftInPeace'
  <1>1. PICK first \in {"log user", "remark", "assets", "idle"} :
           /\ Begin(c, first)
           /\ Reaction(u) = "look up" <=> first = "log user"
           /\ Reaction(u) = "nothing" => first = "idle"
    BY DEF Take
  <1>2. /\ stage' = [stage EXCEPT ![c] = first]
        /\ heard' = [heard EXCEPT ![c] = Meaning(u)]
    BY <1>1 DEF Take, Begin
  <1>3. first = "log user" <=> Meaning(u) = "question"
    BY <1>1, ReactionFitsMeaning
  <1>4. Meaning(u) = "chatter" => first = "idle"
    BY <1>1, ReactionFitsMeaning
  <1>5. QuestionsAreLookedUp'
    BY <1>1, <1>2, <1>3 DEF QuestionsAreLookedUp, BotTypeOK
  <1>6. GroupsAreLeftInPeace'
    BY <1>2, <1>4 DEF GroupsAreLeftInPeace, BotTypeOK
  <1> QED
    BY <1>5, <1>6

(* Every step keeps what was heard and what is done about it together.         *)
LEMMA RoutingStep ==
  ASSUME BotTypeOK, QuestionsAreLookedUp, GroupsAreLeftInPeace, [BotNext]_botVars
  PROVE  QuestionsAreLookedUp' /\ GroupsAreLeftInPeace'
  <1> USE DEF QuestionsAreLookedUp, GroupsAreLeftInPeace, BotTypeOK
  <1>1. ASSUME NEW c \in Chats, NEW u \in Updates, Take(c, u)
        PROVE  QuestionsAreLookedUp' /\ GroupsAreLeftInPeace'
    BY <1>1, TakeRouting
  <1>2. ASSUME NEW c \in Chats, ManageAssets(c)
        PROVE  QuestionsAreLookedUp' /\ GroupsAreLeftInPeace'
    BY <1>2 DEF ManageAssets
  <1>3. ASSUME NEW c \in Chats, LogUser(c) \/ Check(c) \/ LogRequest(c)
        PROVE  QuestionsAreLookedUp' /\ GroupsAreLeftInPeace'
    BY <1>3 DEF LogUser, Check, LogRequest, Proceed
  <1>4. ASSUME NEW c \in Chats, Say(c)
        PROVE  QuestionsAreLookedUp' /\ GroupsAreLeftInPeace'
    BY <1>4 DEF Say
  <1>5. CASE BotRestart
    BY <1>5 DEF BotRestart
  <1>6. CASE UNCHANGED botVars
    BY <1>6 DEF botVars, answering
  <1> QED
    BY <1>1, <1>2, <1>3, <1>4, <1>5, <1>6 DEF BotNext

(* What a chat's handler does agrees with what was said to it.                 *)
LEMMA RoutingHolds == BotSpec => [](QuestionsAreLookedUp /\ GroupsAreLeftInPeace)
  <1>1. BotTypeOK /\ (QuestionsAreLookedUp /\ GroupsAreLeftInPeace) /\ [BotNext]_botVars
            => (QuestionsAreLookedUp /\ GroupsAreLeftInPeace)'
    BY RoutingStep
  <1> QED
    BY <1>1, RoutingInitInv, BotTypeCorrect, PTL DEF BotSpec

(* What the documents call a question is looked up, and nothing else is.       *)
THEOREM QuestionsAreAnswered == BotSpec => []QuestionsAreLookedUp
  BY RoutingHolds, PTL

(* The bot says nothing in a group that did not speak to it.                   *)
THEOREM GroupsAreQuiet == BotSpec => []GroupsAreLeftInPeace
  BY RoutingHolds, PTL
================================================================================
