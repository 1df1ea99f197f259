# TelegaChecker in TLA+

A model of `telega-checker-rs`: the Rust service (`src/src/*.rs`: a Telegram bot
and an HTTP API over one three-tier lookup) and its client plugins for exteraGram
and AyuGram (`src/plugins/`). Each module is written from the source files it names;
the modules are model-checked with TLC on small instances, and every safety property
that a run checks is proved with TLAPS for every instance.

## 1. The system

| Component | State | Operations | Hard part |
|---|---|---|---|
| okcdn.ru client (`api_client.rs`) | `session_key` behind an `RwLock` | `authenticate`, `check_id` (429 backoff), `try_lookup_with_auth`, `refresh_session`, `try_lookup` | any number of tasks share one key; the key is read twice per attempt; a write guard is held across a request; futures are dropped |
| Three-tier lookup (`bot_handler.rs` `check_user`, `db.rs`) | moka cache, `known_users` | `check_user` | coalescing of callers, dropped leaders, errors at each layer, entries that are stale when cached, restarts |
| API tokens (`db.rs`, `bot_handler.rs`) | `api_tokens` | `/plugins`, `get_plugins`, `reset_token` | INSERT and SELECT are two statements; a token is sent long after it was read; a step of several fails |
| Group tracking (`bot_handler.rs`, `db.rs`) | `tracking_cache`, `chat_members` | message, join, leave | the cache is changed before the table, the table write may fail |
| Daily scan (`scheduler.rs`) | snapshots of `chat_members` | `run_scan`, `scan_chat` | runs beside the handlers on snapshots; deactivates a chat on an old answer |
| Process (`main.rs`, `config.rs`, `api_server.rs`) | start-up phase, pepper file, server, signals | start, serve, stop | a start may end anywhere; three branches race at shutdown |
| HTTP API (`api_server.rs`) | none of its own | `GET /api/check/{id}` | a token is looked up while it may be reset; drops its handler when the client goes away |
| Client plugins (`plugins/`) | lookup cache, alerts shown, lookups in flight | hooks on chats, profiles and rows, worker threads | screens change while a lookup runs; lookups of a chat and of a profile exclude each other |
| Plugin assets (`bot_handler.rs`, `db.rs`) | `plugin_assets`, the files of the image | upload, delete, deliver | a delivery sends a snapshot; uploads run at once; releases change the files |
| Dispatcher, parsing (`main.rs`, `bot_handler.rs`) | none | routing, first checks | branches overlap, handlers check again |
| Schema, configuration (`db.rs`, `config.rs`) | the tables, the key file | `init_db`, `from_env` | a start may end between two statements; what a new container keeps |
| Analytics (`crypto.rs`, `db.rs`) | `bot_users`, `requests_log` | append | pseudonyms must stay the same over restarts |

Interaction: the bot's handlers, the HTTP handler and the scan all call
`check_user`, which calls `ApiClient::check_id` from inside moka's closure; the
plugins call the HTTP API with a token that the bot handed out, and the plugins
themselves are files that the bot delivers; the group handlers write the rows that the scan reads; `main` starts and stops all of them.

## 2. Modules

| Module | Models | Correspondence |
|---|---|---|
| `ApiClient` | `api_client.rs` | a task is a running `check_id`; `pc` names the await it is suspended at, one action per await (`Snapshot`, `ReadKey`, `LookupAnswered`, `SkipRefresh`/`BeginRefresh`, `Refreshed`/`RefreshFailed`, `Wake`), `Cancel` drops it. `writer` is the write guard; a read guard lives only within a step. Keys are numbers in the order of issue |
| `Session` | what the rest may rely on about the key | implemented by `ApiClient` (`SessionSpec`) |
| `ApiClientProofs` | theorems about `ApiClient` | section 5 |
| `Lookup` | `check_user` | a caller is a running `check_user`; `leader[id]` runs moka's closure, whose awaits are `db`, `api`, `save`; the others wait and are handed the outcome. `Drop`, `LateInsert`, `Evict`, `Tick`, `Crash`, `UpstreamChanges` are the environment |
| `Registry` | what the lookup promises about positive answers | implemented by `Lookup` (`RegistrySpec`) |
| `Tokens` | `get_or_create_token`, `rotate_token`, `send_plugins_and_token`, `handle_callback_query` | one handler per chat, each statement and request a step; `Fail` ends a handler where it is |
| `HttpApi` | `validate_bearer`, `handle_check`, `validate_user_token` | EXTENDS `Tokens`: its steps interleave with those of the clients' requests; `at[c]` is the await a request is at, or the status it was answered with |
| `Dispatch` | the tree of `main.rs` and the first checks of every handler | operators without state: `Branch` is the first branch that accepts a message, `Reaction` what its handler sets out to do; `Question` and `Addresses` are the documents' view, for comparison |
| `Assets` | `/upload_assets`, `/delete_asset`, the file part of `send_plugins_and_token`, `derive_asset_name` | `job[c]` is what the handler of a chat is about; a file id is the file and the release it was uploaded from |
| `Bot` | the handlers behind the dispatcher | composes `Dispatch` and `Assets`: an update is taken by its `Reaction` and runs the steps of `Assets` or of the three lookup handlers; `stage[c]` is the await that the handler is at |
| `GroupTracking` | group handlers, dedup cache, `chat_members`, `scheduler.rs` | a handler is the set of users it has still to write; the scan is a sequence of steps over snapshots |
| `Roster` | what `chat_members` promises to the scan | implemented by `GroupTracking` (`RosterSpec`): active rows are `listed`, pairs that are `behind` or that a handler is busy with `lag` |
| `Lifecycle` | `main`, `from_env`, `load_or_generate_salt`, `analytics_key_path`, `init_db`, `hash_user_id`, `run_api_server`, `shutdown_signal` | `phase` is where `main` is; the key file has existence and contents, because `fs::write` creates before it writes; `created` counts the statements of `init_db`; `place` says whether the database is in a volume |
| `ClientPlugin` | both client plugins, by `edition` | hooks and posted callbacks are UI-thread steps, `stage[w]` is where a worker thread is, `from[w]` the screen it answers to, which a lookup of a chat keeps when the chat is closed; `warn` are the warnings posted for open chats, `stale` those for closed ones |
| `LookupProofs`, `TokensProofs`, `HttpApiProofs`, `BotProofs`, `GroupTrackingProofs`, `LifecycleProofs`, `ClientPluginProofs` | theorems about these modules | section 5 |
| `MC...` | the instances TLC checks | symmetry sets; the `.cfg` files give the constants values |

History variables (`rejected`, `lookups`, `auths`; `confirmed`, `told`, `warned`;
`sent`, `stored`; `live`; `seen`, `current`; `heard`; `behind`; `by`, `cut`;
`alerts`) are read by no guard of the
programs' actions.

Definitions whose comment begins with "Mutant" are not part of any specification:
each is the neighbouring action with a plausible mistake, kept to show that the
property named for it in `PROJECT.json` would notice the mistake.

### Abstractions

- Data is abstracted to what the properties tell apart: IDs, users and chats are
  model values, an HTTP answer is the branch it leads to, a UUID is the next number.
- Every answer of the API, SQLite and Telegram is nondeterministic, errors included.
- Time is a `Tick`: cache entries age by it; sleeps and timeouts end at any time.
- `Lookup` treats `check_id` as one call that finds, denies or fails;
  `ApiClient` is the inside of that call.
- teloxide handles the updates of one chat in their order and those of different
  chats concurrently; `Tokens`, `Assets`, `Bot` and `GroupTracking` take this from it.
- A text is how it begins and what `parse::<i64>` makes of the rest; so `"+123"`, which
  Rust parses, is a number here as it is in the code.
- `Bot` has `check_user` as one call: a handler goes on alike after a yes, a no and an
  error, and what the answers are is the business of `Lookup`, whose callers are the bot's
  handlers, the HTTP handler and the scan.
- `KeyPlace` takes the key file to lie beside the database. This is so for a
  `DATABASE_URL` of the documented form, `sqlite:<path>` (`config.rs:95`, `.env.example`,
  `docker-compose.yml`). The code strips only `sqlite:`, so that of `sqlite://<name>`,
  which sqlx takes too, it would make a path from the root.
- A closed chat has no parent activity: this is how the client's fragments behave, and an
  assumption of `HandleOnClosed`. A chat shows one person as long as it lives, so that
  `_is_same_user`, which asks the very chat that the callback has kept, never objects and
  has no state in the model; what keeps a late warning off somebody else's screen is that
  it goes to its own chat, and that a closed one shows nothing.

## 3. Runs

| Run | Instance |
|---|---|
| `api_client` | 2 tasks, `MAX_RETRIES` 1, 3 keys |
| `lookup` | 3 callers, 1 ID, TTL 2 |
| `tokens` | 2 users, 2 chats, 2 UUIDs |
| `group_tracking` | 2 chats, 1 user each, mark TTL 2 |
| `group_tracking_live` | 1 chat, 1 user, mark TTL 2 |
| `http_api` | 2 users, 2 chats, 3 UUIDs, 1 client |
| `lifecycle` | 2 requests, 2 users, 2 peppers |
| `plugin` | 2 people, 2 worker threads, both editions |
| `plugin_live` | 1 person, 1 worker, both editions |
| `bot` | 2 chats, the 2 plugin files, 2 releases, every kind of update |

**`api_client`.** `IInv`: the inductive invariant; among others, no exit of
`refresh_session`, and no dropped future, keeps the lock. `AuthOnlyForRejectedKey`: a good key is never
thrown away, although lookups fail together. `BoundedEffort`: the two nested
retries cost at most two lookups and one authentication per attempt.
`GivesUpAfterAllRetries`: no 429 escapes the loop early. `SessionSpec`: the key's
history is that of `Session`. `EveryCheckReturns`. Two tasks are enough for every
race on the key (one renews while the other is between any two of its reads), one
retry for the loop to go round, and three keys for a renewal between the two reads
followed by another; the proofs cover all other values.

**`lookup`.** `SingleFlight` and `EveryCallReturns`: coalescing survives errors and
dropped leaders. `PositiveIsPersisted`, `RegistrySpec`, `NoRetraction`: a positive
answer has its row before anybody hears it, and is never taken back by evictions,
restarts or an upstream that changes its mind. `LeaderWorksOnAMiss`: nobody is
served an entry that a running closure will contradict. `NoPermanentFalseNegative`:
a stale "no" dies out, because reading an entry does not renew it. Three callers
make a leader, a waiter that takes over and one that goes on waiting; IDs do not
interact, so one is enough; a TTL of two ticks separates an entry from a renewed one.
The safety properties are also proved, for any callers, IDs and TTL.

**`tokens`.** `DeliveredTokenWasStored`: the loser of two racing first requests
hands out the winner's token. `OnlyOwnResetRevokes`: nothing else invalidates a
token. `ValidTokenIsSent`: through overtaken deliveries and resets whose message
fails. Two chats make every race of two handlers, two users tell own from other;
the two UUIDs are a first token and its reset, or one token for each user; the
proofs cover any number.

**`group_tracking`, `group_tracking_live`.** `DedupHidesOnlyTracked`,
`LeaverIsInactive`: mark, row and membership agree at rest, except for the pairs in
`behind` (a write failed or was lost, the scan deactivated the chat, the bot was
out). `RosterSpec`: no row is touched but by the handler of its own pair, which lags until
the row is right, or by a deactivation. `NoChatIsSkipped`. `MemberIsTrackedInTheEnd`: also those pairs recover, since
marks expire. `AbandonedChatIsLeftAlone`. Handlers of different users of one chat
never overlap, so one user per chat and two chats show every interleaving of
handlers and scan but for the loop over several joined users, which a mark TTL and a
failing write meet one by one. The proofs cover any users and chats.

**`http_api`.** `TokenDecides`: who is let in with a user's token held a valid one when
asking, so that a reset shuts out every later request; and who is told 401 after a look
at the table holds no token that works, for ever, however resets, deliveries, failing
SELECTs and crashes fall between the steps of the request. Requests do not touch each
other, so one client is enough; three UUIDs let both users have a token while one is
reset. The proof covers any numbers.

**`lifecycle`.** `StablePseudonyms`: wherever starts were interrupted, and whatever new
containers keep, a person has one pseudonym among the rows that are stored (if the
database is in the container, the rows go with the pepper). `PepperIsKept`: while there
are rows the pepper is not replaced, in the file or in a process, even before somebody
who has a row is logged again. `SchemaIsComplete`: no part
that uses the database runs before it has every table, over the tables of any older
release and starts that end between two statements. `DrainedServerLosesNothing`,
`SignalEndsTheProcess`. The second pepper is the one that a lost key file leads to; two
users tell one's pseudonyms from the other's; the proofs cover any number of either.

**`plugin`, `plugin_live`.** `OneLookupPerUser`, `WarnedAtMostOnce` (over restarts),
`KnownIsBadged` (exteraGram: however screens change while a lookup runs),
`ShownIsAnswered` (no badge and no row says of a person what the API said of another),
`WarningFitsItsChat` (nor does a warning, whatever chat is open when a callback runs; and
a callback whose chat is closed does not use up the one warning),
`WarnedInTheEnd`. Two people and two workers make a lookup for somebody who is no longer
on the screen, and answers that are lost from the cache by expiry, by eviction or by
`_cache_set` rebinding the dictionary beside another worker. The proofs cover any people
and workers.

**`bot`.** `QuestionsAreLookedUp` and `GroupsAreLeftInPeace`: over every kind of update,
the branch order and the checks that handlers repeat come to what the documents say.
`DeliveryIsRecent`: a delivery sends nothing that was deleted before the user asked,
though it works on a snapshot. `UploadsAreKept`: what was uploaded from the deployed
release stays what users get, beside other uploads, deletions and what older releases
left. Two chats make a delivery or upload beside a deletion or another upload, and two
questions at once; two releases a table that is older than its files.

Bounds named in the modules: `MaxKeys` (keys, peppers), `MaxTokens` (UUIDs), `TTL`,
`MarkTTL`, `MaxRelease`, and `alerts`, which counts to 2. No other counter grows: the history
counters of `ApiClient` are bounded by what is proved.

### Where documents and code differ

Two runs expect a violation; each states what a document or comment says and shows a
behaviour of the code against it.

- `api_client_fresh`: the retry does not always use a fresh key (`api_client.rs:194`).
- `tokens_reset`: a reset without a row announces a token that is not stored (`db.rs:238`).

Other differences met while modelling, in the models but not in a run:

- `bot_handler.rs:23` speaks of a shorter TTL for negative entries; there is one TTL
  for both (`main.rs:61`).
- `README.md:137` has every message recorded; commands and texts that begin with `@`
  go to earlier branches (`main.rs:109-161`) and are not.
- `README.md:627` has a chat's records deactivated when the bot is removed; this
  happens only after a scan with hits was refused (`scheduler.rs:134`), so that a
  chat without hits keeps them. `AbandonedChatIsLeftAlone` is what does hold.
- `README.md:726` has a generated pepper saved at the first start; a start that ends
  inside `fs::write` leaves an empty file, which is the pepper from then on
  (`config.rs:75`). `StablePseudonyms` holds all the same.

- `README.md:105` has a stop by SIGTERM or Ctrl+C shut all subsystems down gracefully.
  On Ctrl+C the third branch of `select!` wins at once and drops the server that was to
  drain (`main.rs:224`); running update handlers and a running scan are cut off on either
  signal (`Lifecycle!cut`). `DrainedServerLosesNothing` is what does hold.
- `plugins/README.md:110` has an alert on the first detection. When a lookup started from
  the profile is in flight as the chat opens, `_start_lookup` returns, and the one that
  runs posts a badge but no alert; the alert comes when the chat is resumed
  (`exteraGram.plugin:382`). `WarnedInTheEnd` is what does hold.
- `plugins/README.md:83` has the UI updated as the backend responds. An AyuGram row whose
  lookup was refused because the chat's is in flight is not refreshed by that one's
  answer, and shows "Checking..." until it is bound again (`AyuGram.plugin:543`).
- `README.md:567` has 401 for requests without a valid token; one with a valid token gets
  it too when the SELECT fails (`api_server.rs:84`, `"401 unchecked"` in `HttpApi`).
- `/plugins` is for private chats (`bot_handler.rs:106`), but the button under `/start`
  delivers the plugins and the token into the chat of its message, which `/start` in a
  group makes a group (`bot_handler.rs:302`; `Reaction` of `"get_plugins"`).
- `bot_handler.rs:756` derives "extragam" from the exteraGram file's name; the code
  derives "exteragram".
- `bot_handler.rs:476` calls the logging fire-and-forget; it is awaited before the lookup.
- An inline answer is cached by Telegram for five minutes (`bot_handler.rs:573`), so that
  a "no" may be shown for as long after a "yes" elsewhere: `NoRetraction` is about what
  `check_user` returns.

## 4. Fairness

Safety never depends on fairness: the `FairSpec` of a module only adds to its `Spec`
(`ClientPlugin`, whose `FairSpec` also excludes visits longer than six hours, has its
safety checked under `Spec`).

- `ApiClient`: requests are answered or fail, timers fire (WF). tokio's `RwLock` is
  first come, first served, hence SF for the three lock acquisitions. The HTTP
  client has no timeout of its own (`api_client.rs:231`): that a request ends is an
  assumption about the network.
- `Lookup`: the runtime polls every task that can go on (WF), a waiter does not lose
  the race to lead or to hit every time (SF; the run queue is first in, first out),
  time passes. Nothing is assumed about the success of SQLite or the API.
- `Tokens`: handlers run on to their end or fail (WF); a user keeps asking, and no
  statement or message fails that user for ever (SF). `MaxTokens` also makes the resets
  of a run finitely many, which the fairness does not say: a user who, from another chat,
  resets the token again before each message of a reset or a delivery is sent none that is
  valid when it arrives.
- `GroupTracking`: handlers, scan and time go on (WF); the scan is started every day;
  a member keeps writing, and a write, a scan and a deactivation do not fail for ever (SF).
  SF of `ReportRefused` takes Telegram to tell a bot that is out of a chat so by one of the
  five errors that `scheduler.rs:136` names, if not each time. A chat that is always
  answered with another one takes the arm of `scheduler.rs:152`, and is reported to every
  day as long as its scan has hits.
- `Lifecycle`: requests are answered, and `main` is polled (WF). Neither start-up nor
  any signal is assumed. That a request ends rests on the network as in `ApiClient`: one
  that waits for okcdn.ru for ever would keep the server draining after a SIGTERM.
- `ClientPlugin`: threads run, screens are closed in the end; lookups do not fail for
  ever; people come back to a chat, also within the six hours in which the answer is
  cached (SF). That a posted callback ever runs is not assumed.
- `HttpApi`, `Assets` and `Bot` are checked for safety only.

## 5. Proofs

`ApiClientProofs` proves, for every set of tasks and every `MAX_RETRIES` and `MaxKeys`
in `Nat`, from the three assumptions named in `ApiClient`:

| Theorem | Statement |
|---|---|
| `Inductive` | `Spec => []IInv` |
| `TypeCorrect` | `Spec => []TypeOK` |
| `LockDiscipline` | `Spec => []GuardHeldToAuthenticate` |
| `NoRedundantAuth` | `Spec => []AuthOnlyForRejectedKey` |
| `EffortIsBounded` | `Spec => []BoundedEffort` |
| `RetriesAreSpent` | `Spec => GivesUpAfterAllRetries` |
| `ImplementsSession` | `Spec => SessionSpec` |

The inductive invariant is needed because none of the properties is inductive
alone. That no key is thrown away rests on `KeysAreOrdered`: a task that comes to
the lock had its snapshot taken before it read the key it sent, and keys only get
newer, so *snapshot <= key sent <= key in use*; when `refresh_session` finds the
snapshot's key still in use, all three are equal, and the key sent is already among
the refused ones (`pc = "acquire" => key \in rejected`). The bound on the effort
rests on `EffortAtStage`, which says for every stage how many requests the task has
sent in terms of `attempt` and of whether it is in its second lookup. `ServingHasKey`
excludes the branch without a key. There is one lemma per action; an action that
ends a `check_id` uses `ReturnStep`.

`LookupProofs` proves, for every set of callers and IDs and every positive `TTL`:

| Theorem | Statement |
|---|---|
| `Inductive` | `Spec => []IInv` |
| `CoalescingHolds` | `Spec => []SingleFlight` |
| `ClosuresRunOnMisses` | `Spec => []LeaderWorksOnAMiss` |
| `PositivesArePersisted` | `Spec => []PositiveIsPersisted` |
| `NothingIsRetracted` | `Spec => []NoRetraction` |
| `ImplementsRegistry` | `Spec => RegistrySpec` |
| `RegistryIsSound` | `RegistrySpec => [](told \subseteq known /\ known \subseteq confirmed)` |
| `LookupKeepsItsContract` | `Spec => [][\A c \in Callers : ReturnsWell(c)]_vars` |

That nothing is retracted is not inductive alone: an ID might be answered "found"
while a closure for it is already on its way to "not found". `SettledIsFinal`
excludes this: once "found" is told, cached or handed to a waiter, no closure for
the ID is past its look at the table, and the table has the row. It holds because
a "found" can only come from the one closure that runs (`SingleFlight`), on an ID that
is a miss (`LeaderWorksOnAMiss`). The actions fall into four shapes, each with its
lemma: a caller leaves (`FinishStep`), the closure goes on (`AdvanceStep`), the closure
ends and its outcome is shared (`PublishStep`), entries disappear (`ExpiryStep`).
`ReturnsWell` puts this in terms of what a caller sees - it hears "found" about a
person in the table, and "not found" only if nobody had heard "found" when it called -
whichever of the bot, the HTTP API and the scan it is.

`TokensProofs` proves, for every set of users and chats and every `MaxTokens` in `Nat`:

| Theorem | Statement |
|---|---|
| `Inductive` | `Spec => []IInv` |
| `TokensAreStored` | `Spec => []DeliveredTokenWasStored` |
| `ResetsAreOwn` | `Spec => OnlyOwnResetRevokes` |

The two statements of `get_or_create_token` are not a transaction; its SELECT finds a
row all the same (`SelectFindsARow`), because the INSERT before it made sure of one and
no statement takes a row away, and every row was stored (`RowsAreStored`).

`HttpApiProofs` proves, for any clients besides:

| Theorem | Statement |
|---|---|
| `ServiceInductive` | `ServiceSpec => []ServiceInv` |
| `TableDecides` | `ServiceSpec => []TokenDecides` |
| `ServiceImplementsTokens` | `ServiceSpec => Spec` (of `Tokens`) |

A token that a request carries and that is no user's must stay no user's
(`DeadStaysDead`), although tokens are drawn meanwhile: every row changes only to the
UUID drawn in the same step (`RowStep`), and neither rows nor requests have one that is
yet to be drawn (`RowsAreDrawn`, `BearersAreDrawn`).

`BotProofs` proves, for any chats, files and number of releases, from the assumptions
named in `Assets` (of which `DistinctNames` says that no two files derive one name):

| Theorem | Statement |
|---|---|
| `AssetsInductive` | `AssetsSpec => []AInv` |
| `BotImplementsAssets` | `BotSpec => AssetsSpec` |
| `DeliveriesAreRecent` | `BotSpec => []DeliveryIsRecent` |
| `UploadsStay` | `BotSpec => []UploadsAreKept` |
| `BotInductive`, `BotTypeCorrect` | `BotSpec => []BInv`, `BotSpec => []BotTypeOK` |

A delivery is recent because from its beginning on it has seen every table there was
(`DeliveriesLook`), the one it fetches among them. Uploads are kept because an upsert
replaces only rows of its own name.

The two properties of routing come down to what a handler sets out to do with an
update (`ReactionFitsMeaning`). `FirstBranch` says that `Branch` is the first of the
branches in their order that accepts a message; `Branches` gives it for every message,
and `TakeRouting` carries it over to the handler's first step.

| Theorem | Statement |
|---|---|
| `QuestionsAreAnswered` | `BotSpec => []QuestionsAreLookedUp` |
| `GroupsAreQuiet` | `BotSpec => []GroupsAreLeftInPeace` |

`GroupTrackingProofs` proves, for any chats and users and every positive `MarkTTL`:

| Theorem | Statement |
|---|---|
| `Inductive`, `TypeCorrect` | `Spec => []IInv`, `Spec => []TypeOK` |
| `DedupIsSafe` | `Spec => []DedupHidesOnlyTracked` |
| `LeaversAreInactive` | `Spec => []LeaverIsInactive` |
| `EveryChatIsVisited` | `Spec => NoChatIsSkipped` |
| `ImplementsRoster` | `Spec => RosterSpec` |
| `RosterIsSound` | `Membership!Spec => [](Listed \subseteq present \union Lagging)` |

Neither of the two invariants is inductive: when a handler ends, its pair is no longer busy, and has
to agree from then on. A soft-delete leaves no mark because none is set while it is under
way (`LeaverIsUnmarked`), which rests on the order of a chat's updates
(`OneWriteAtATime`); a write leaves an active row only for a member, because nobody can
leave a chat whose handler is running, but unseen (`TrackedIsMember`). A step of the
handlers, the scan or the process is one of three steps of `Roster`: `Notice` when no row is
written (`NoticeStep`), `Write` when a handler's statement succeeds (`TrackWrites`), `Strike`
for a deactivation (`StrikeStep`). `Roster` is a module of its own, so that what the scan
may rely on is stated, and proved (`RosterIsSound`), without the cache and the handlers.

`LifecycleProofs` proves, for any requests and users and every `MaxKeys` in `Nat`:

| Theorem | Statement |
|---|---|
| `Inductive`, `TypeCorrect` | `Spec => []IInv`, `Spec => []TypeOK` |
| `PseudonymsAreStable` | `Spec => []StablePseudonyms` |
| `SchemaIsReady` | `Spec => []SchemaIsComplete` |
| `DrainingLosesNothing` | `Spec => []DrainedServerLosesNothing` |
| `PepperOutlivesStarts` | `Spec => PepperIsKept` |

A person has one pseudonym because all rows come from the pepper that the key file holds
(`OnePepper`). That survives a generated pepper because there are
no rows while one is being written (`KeyBeforeRows`): a key file that is missing was lost
with the container, and the database with it. The same two parts and `SaltIsLoaded` give
`PepperIsKept`: while rows are kept no start, failure or exit changes the pepper in the
file, and a process that is configured hashes with it. `CreatedExist` and `CreatedByPhase` say how
far `init_db` has come. `CutAtTheEnd` was found by the proof: without it a server
that drains might be one that had cut off a request before, which TLC, on reachable states,
cannot meet.

`ClientPluginProofs` proves, for any people and workers and both editions:

| Theorem | Statement |
|---|---|
| `Inductive`, `TypeCorrect` | `Spec => []IInv`, `Spec => []TypeOK` |
| `LookupsAreSingle` | `Spec => []OneLookupPerUser` |
| `WarningsAreSingle` | `Spec => []WarnedAtMostOnce` |
| `KnownAreBadged` | `Spec => []KnownIsBadged` |
| `ShownAreAnswers` | `Spec => []ShownIsAnswered` |
| `WarningsFitTheirChat` | `Spec => WarningFitsItsChat` |

The hooks share one lemma about what they do to the lookups (`LookupStep`, with `Asks`).
That no answer misses its screen rests on `AnswersMeetTheirScreen`: a worker that answers
to an open screen asks about the person on it, since the workers of a chat that is
closed go on to answer to that one, and their warnings become `stale`. `KnownIsBadged` excepts people with a posted warning;
`DrawnUnlessRefreshed` shows that it need not (the warning comes with a refresh), and is
inductive only without that exception. `AlertsAreShown` ties the number of warnings to
`_alert_shown`, which is written before the alert and outlives the client.

The types of `Lookup`, `Tokens`, `GroupTracking` and `ClientPlugin` are checked by the
proofs alone. Model-checked only, because liveness is outside the prover's reach: `EveryCheckReturns`,
`EveryCallReturns`, `NoPermanentFalseNegative`, `ValidTokenIsSent`,
`MemberIsTrackedInTheEnd`, `AbandonedChatIsLeftAlone`, `SignalEndsTheProcess` and
`WarnedInTheEnd`.

## 6. Not modelled

Request building and JSON parsing, message texts and formatting, logging, the HMAC,
columns and the values of environment variables, the calendar of the scheduler, Docker
and nginx: pure functions, I/O or configuration. The contents of `requests_log`, which
nothing reads. Texts whose lower-case form has another length, of which
`bot_handler.rs:604` cuts off the wrong number of bytes. Of the plugins: Java reflection
and the shifting of rows, unloading under running lookups, more people than
`MAX_ALERT_ENTRIES`, and badge resolution, which a valid default id makes unreachable
(`exteraGram.plugin:212`, `497`).

## 7. Plan

Done: the modules above; proofs of every safety property that a run checks.

Next:

1. An abstract specification for the plugins (one lookup, one warning, badges that follow
   the answers) beside `Session`, `Registry` and `Roster`.
2. One for the tokens (a valid token per user, replaced by its user's reset) that `Tokens`
   and `HttpApi` implement.
