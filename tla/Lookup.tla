--------------------------------- MODULE Lookup --------------------------------
(* check_user (src/src/bot_handler.rs:43): moka cache, then SQLite, then the   *)
(* upstream API, for any number of concurrent callers: the message, mention    *)
(* and inline handlers, the HTTP API and the daily scan.                       *)
(*                                                                             *)
(* moka's try_get_with coalesces the callers that miss on one ID: one of them  *)
(* runs the closure, the others wait for its outcome.  A caller may be dropped *)
(* at any await (an HTTP client that disconnects); if it was running the       *)
(* closure, one of those that wait runs it anew.  An INSERT already handed to  *)
(* SQLite's connection thread outlives the caller that was dropped.            *)
EXTENDS Naturals, FiniteSets

CONSTANTS Callers,   \* the tasks that call check_user
          Ids,       \* Telegram IDs
          TTL,       \* life of a cache entry in ticks (24 hours in main.rs)
          NoCaller,  \* nobody runs the closure
          NoId       \* a caller that is idle asks for nothing

ASSUME TTLAssumption == TTL \in Nat \ {0}
ASSUME NoCallerAssumption == NoCaller \notin Callers
ASSUME NoIdAssumption == NoId \notin Ids

VARIABLES
    cache,      \* [Ids -> {"empty", "yes", "no"}]: AppState.cache
    age,        \* [Ids -> 0..TTL-1]: ticks since the entry was inserted
    leader,     \* [Ids -> Callers \union {NoCaller}]: who runs the closure
    known,      \* the rows of known_users
    late,       \* IDs whose INSERT was handed over by a caller since dropped
    stage,      \* [Callers -> Stages]: where each call of check_user is
    asked,      \* [Callers -> Ids \union {NoId}]: its argument
    verdict,    \* [Callers -> Verdicts]: what was handed to the caller last
    upstream,   \* the IDs the upstream API would find now
    confirmed,  \* history: the IDs the upstream API has found
    told,       \* history: the IDs some caller was told are found
    warned      \* history: [Callers -> BOOLEAN]: at the call, asked was in told

vars == <<cache, age, leader, known, late, stage, asked, verdict, upstream,
          confirmed, told, warned>>

Stages == {"idle",
           "waiting",  \* in try_get_with, before a hit, a lead or an outcome
           "woken",    \* handed the outcome of another caller's closure
           "db",       \* running the closure: SELECT in flight
           "api",      \* api.check_id in flight
           "absent",   \* the API's "not found" on its way back
           "save",     \* the INSERT in flight
           "saved"}    \* the INSERT committed, its outcome on its way back

Leading == {"db", "api", "absent", "save", "saved"}

Verdicts == {"none", "yes", "no", "error", "dropped"}

Waiters(id) == {c \in Callers : stage[c] = "waiting" /\ asked[c] = id}

--------------------------------------------------------------------------------
Init == /\ cache = [id \in Ids |-> "empty"]
        /\ age = [id \in Ids |-> 0]
        /\ leader = [id \in Ids |-> NoCaller]
        /\ known = {}
        /\ late = {}
        /\ stage = [c \in Callers |-> "idle"]
        /\ asked = [c \in Callers |-> NoId]
        /\ verdict = [c \in Callers |-> "none"]
        /\ upstream \in SUBSET Ids
        /\ confirmed = {}
        /\ told = {}
        /\ warned = [c \in Callers |-> FALSE]

(* check_user returns v to c.                                                  *)
Tell(c, v) == told' = IF v = "yes" THEN told \union {asked[c]} ELSE told

Finish(c, v) == /\ stage' = [stage EXCEPT ![c] = "idle"]
                /\ asked' = [asked EXCEPT ![c] = NoId]
                /\ verdict' = [verdict EXCEPT ![c] = v]
                /\ warned' = [warned EXCEPT ![c] = FALSE]

Advance(c, s) == /\ stage' = [stage EXCEPT ![c] = s]
                 /\ UNCHANGED <<asked, verdict, warned, leader, cache, age, told>>

(* The closure of c ends with v: the outcome goes to c and to everyone who     *)
(* waits for it, and the ID has no leader any more.                            *)
Publish(c, v) ==
    LET W == Waiters(asked[c]) IN
    /\ stage' = [d \in Callers |-> IF d \in W THEN "woken"
                                   ELSE IF d = c THEN "idle" ELSE stage[d]]
    /\ verdict' = [d \in Callers |-> IF d \in W \union {c} THEN v ELSE verdict[d]]
    /\ asked' = [asked EXCEPT ![c] = NoId]
    /\ warned' = [warned EXCEPT ![c] = FALSE]
    /\ leader' = [leader EXCEPT ![asked[c]] = NoCaller]
    /\ Tell(c, v)

(* Ok(v) is cached; Err is not.                                                *)
Resolve(c, v) == /\ Publish(c, v)
                 /\ cache' = [cache EXCEPT ![asked[c]] = v]
                 /\ age' = [age EXCEPT ![asked[c]] = 0]

Fail(c) == Publish(c, "error") /\ UNCHANGED <<cache, age>>

--------------------------------------------------------------------------------
(* check_user(id) is called.                                                   *)
Call(c, id) ==
    /\ stage[c] = "idle"
    /\ stage' = [stage EXCEPT ![c] = "waiting"]
    /\ asked' = [asked EXCEPT ![c] = id]
    /\ verdict' = [verdict EXCEPT ![c] = "none"]
    /\ warned' = [warned EXCEPT ![c] = id \in told]
    /\ UNCHANGED <<cache, age, leader, known, late, upstream, confirmed, told>>

(* Mutant: reading an entry renews it (time_to_idle).                          *)
HitRenews(c) ==
    /\ stage[c] = "waiting"
    /\ cache[asked[c]] # "empty"
    /\ Finish(c, cache[asked[c]])
    /\ Tell(c, cache[asked[c]])
    /\ age' = [age EXCEPT ![asked[c]] = 0]
    /\ UNCHANGED <<cache, leader, known, late, upstream, confirmed>>

(* Layer 1: an entry that is present and not expired answers.                  *)
Hit(c) ==
    /\ stage[c] = "waiting"
    /\ cache[asked[c]] # "empty"
    /\ Finish(c, cache[asked[c]])
    /\ Tell(c, cache[asked[c]])
    /\ UNCHANGED <<cache, age, leader, known, late, upstream, confirmed>>

(* Mutant: the closure is run without looking into the cache.                  *)
LeadBlindly(c) ==
    /\ stage[c] = "waiting"
    /\ leader[asked[c]] = NoCaller
    /\ leader' = [leader EXCEPT ![asked[c]] = c]
    /\ stage' = [stage EXCEPT ![c] = "db"]
    /\ UNCHANGED <<cache, age, known, late, asked, verdict, upstream, confirmed,
                   told, warned>>

(* A miss with no closure running: this caller runs it.                        *)
Lead(c) ==
    /\ stage[c] = "waiting"
    /\ leader[asked[c]] = NoCaller
    /\ cache[asked[c]] = "empty"
    /\ leader' = [leader EXCEPT ![asked[c]] = c]
    /\ stage' = [stage EXCEPT ![c] = "db"]
    /\ UNCHANGED <<cache, age, known, late, asked, verdict, upstream, confirmed,
                   told, warned>>

(* A caller that waited receives the outcome.                                  *)
Receive(c) ==
    /\ stage[c] = "woken"
    /\ Finish(c, verdict[c])
    /\ Tell(c, verdict[c])
    /\ UNCHANGED <<cache, age, leader, known, late, upstream, confirmed>>

(* Mutant: layer 2 is left out.                                                *)
QueryDbNever(c) ==
    /\ stage[c] = "db"
    /\ Advance(c, "api")
    /\ UNCHANGED <<known, late, upstream, confirmed>>

(* Layer 2: a row answers, no row leads to the API, an error ends the closure. *)
QueryDb(c) ==
    /\ stage[c] = "db"
    /\ \/ asked[c] \in known /\ Resolve(c, "yes")
       \/ asked[c] \notin known /\ Advance(c, "api")
       \/ Fail(c)
    /\ UNCHANGED <<known, late, upstream, confirmed>>

(* Layer 3: the API answers from what it holds at that moment.                 *)
ApiFinds(c) ==
    /\ stage[c] = "api"
    /\ asked[c] \in upstream
    /\ confirmed' = confirmed \union {asked[c]}
    /\ Advance(c, "save")
    /\ UNCHANGED <<known, late, upstream>>

ApiDenies(c) ==
    /\ stage[c] = "api"
    /\ asked[c] \notin upstream
    /\ Advance(c, "absent")
    /\ UNCHANGED <<known, late, upstream, confirmed>>

(* check_id fails: ApiClient's business.                                       *)
ApiFails(c) ==
    /\ stage[c] = "api"
    /\ Fail(c)
    /\ UNCHANGED <<known, late, upstream, confirmed>>

(* The outcome Ok(false).                                                      *)
AnswerAbsent(c) ==
    /\ stage[c] = "absent"
    /\ Resolve(c, "no")
    /\ UNCHANGED <<known, late, upstream, confirmed>>

(* Mutant: the result of the INSERT is only logged.                            *)
SaveAndForget(c) ==
    /\ stage[c] = "save"
    /\ known' = known \union {asked[c]} \/ UNCHANGED known
    /\ Advance(c, "saved")
    /\ UNCHANGED <<late, upstream, confirmed>>

(* INSERT OR IGNORE commits, or the error ends the closure: the positive       *)
(* answer of the API is then not given to anyone.                              *)
Save(c) ==
    /\ stage[c] = "save"
    /\ \/ known' = known \union {asked[c]} /\ Advance(c, "saved")
       \/ Fail(c) /\ UNCHANGED known
    /\ UNCHANGED <<late, upstream, confirmed>>

AnswerSaved(c) ==
    /\ stage[c] = "saved"
    /\ Resolve(c, "yes")
    /\ UNCHANGED <<known, late, upstream, confirmed>>

(* Mutant: a dropped leader is not replaced.                                   *)
DropKeepsLead(c) ==
    /\ stage[c] # "idle"
    /\ Finish(c, "dropped")
    /\ UNCHANGED <<cache, age, leader, known, late, upstream, confirmed, told>>

(* The caller's future is dropped; one that ran the closure gives it up, and   *)
(* an INSERT it had handed over may still be executed.                         *)
Drop(c) ==
    /\ stage[c] # "idle"
    /\ Finish(c, "dropped")
    /\ leader' = [leader EXCEPT ![asked[c]] = IF @ = c THEN NoCaller ELSE @]
    /\ \/ UNCHANGED late
       \/ stage[c] = "save" /\ late' = late \union {asked[c]}
    /\ UNCHANGED <<cache, age, known, upstream, confirmed, told>>

LateInsert(id) ==
    /\ id \in late
    /\ known' = known \union {id}
    /\ late' = late \ {id}
    /\ UNCHANGED <<cache, age, leader, stage, asked, verdict, upstream,
                   confirmed, told, warned>>

(* The process is killed and started again: the table stays.                   *)
Crash ==
    /\ cache' = [id \in Ids |-> "empty"]
    /\ age' = [id \in Ids |-> 0]
    /\ leader' = [id \in Ids |-> NoCaller]
    /\ late' = {}
    /\ stage' = [c \in Callers |-> "idle"]
    /\ asked' = [c \in Callers |-> NoId]
    /\ verdict' = [c \in Callers |-> IF stage[c] = "idle" THEN verdict[c] ELSE "dropped"]
    /\ warned' = [c \in Callers |-> FALSE]
    /\ UNCHANGED <<known, upstream, confirmed, told>>

(* Time passes: entries age from their insertion, whoever reads them, and are  *)
(* gone at TTL.                                                                *)
Expires(id) == cache[id] # "empty" /\ age[id] + 1 = TTL

Tick ==
    /\ cache' = [id \in Ids |-> IF Expires(id) THEN "empty" ELSE cache[id]]
    /\ age' = [id \in Ids |-> IF Expires(id) \/ cache[id] = "empty"
                              THEN 0 ELSE age[id] + 1]
    /\ UNCHANGED <<leader, known, late, stage, asked, verdict, upstream,
                   confirmed, told, warned>>

(* moka evicts an entry to stay within its capacity.                           *)
Evict(id) ==
    /\ cache[id] # "empty"
    /\ cache' = [cache EXCEPT ![id] = "empty"]
    /\ age' = [age EXCEPT ![id] = 0]
    /\ UNCHANGED <<leader, known, late, stage, asked, verdict, upstream,
                   confirmed, told, warned>>

(* A person starts or stops using Telega.                                      *)
UpstreamChanges(id) ==
    /\ upstream' = IF id \in upstream THEN upstream \ {id} ELSE upstream \union {id}
    /\ UNCHANGED <<cache, age, leader, known, late, stage, asked, verdict,
                   confirmed, told, warned>>

Run(c) == \/ Hit(c) \/ Lead(c) \/ Receive(c) \/ QueryDb(c)
          \/ ApiFinds(c) \/ ApiDenies(c) \/ ApiFails(c)
          \/ AnswerAbsent(c) \/ Save(c) \/ AnswerSaved(c)

Next == \/ \E c \in Callers : \/ \E id \in Ids : Call(c, id)
                              \/ Hit(c) \/ Lead(c) \/ Receive(c) \/ QueryDb(c)
                              \/ ApiFinds(c) \/ ApiDenies(c) \/ ApiFails(c)
                              \/ AnswerAbsent(c) \/ Save(c) \/ AnswerSaved(c)
                              \/ Drop(c)
        \/ \E id \in Ids : LateInsert(id) \/ Evict(id) \/ UpstreamChanges(id)
        \/ Tick \/ Crash

Spec == Init /\ [][Next]_vars

(* The runtime polls every task that can go on, the database and the API       *)
(* answer, and time passes.  The callers that wait on a leader are woken when  *)
(* it is dropped; the runtime's queue is first in, first out, so one of them   *)
(* cannot lose the race to lead, or to read the cache, every time.             *)
Fairness == /\ \A c \in Callers : WF_vars(Run(c)) /\ SF_vars(Hit(c) \/ Lead(c))
            /\ WF_vars(Tick)

FairSpec == Spec /\ Fairness

--------------------------------------------------------------------------------
TypeOK == /\ cache \in [Ids -> {"empty", "yes", "no"}]
          /\ age \in [Ids -> 0..(TTL - 1)]
          /\ leader \in [Ids -> Callers \union {NoCaller}]
          /\ known \subseteq Ids
          /\ late \subseteq Ids
          /\ stage \in [Callers -> Stages]
          /\ asked \in [Callers -> Ids \union {NoId}]
          /\ verdict \in [Callers -> Verdicts]
          /\ upstream \subseteq Ids
          /\ confirmed \subseteq Ids
          /\ told \subseteq Ids
          /\ warned \in [Callers -> BOOLEAN]

(* The coalescing is not lost on any path: the closure for an ID is run by its *)
(* leader alone, and neither an error nor a dropped leader leaves the ID with  *)
(* a leader that is gone ("exactly one caller enters", README.md:192).         *)
SingleFlight ==
    \A id \in Ids, c \in Callers :
        leader[id] = c <=> stage[c] \in Leading /\ asked[c] = id

(* Nothing fills the cache behind a running closure: while one runs, its ID is *)
(* a miss, so that no caller can be served an entry the closure contradicts.   *)
LeaderWorksOnAMiss ==
    \A id \in Ids : leader[id] # NoCaller => cache[id] = "empty"

(* "Positive entries are also persisted to SQLite, so even after cache         *)
(* eviction they'll be found" (main.rs:54): whatever was answered "found" from *)
(* cache, or is about to be, has its row.                                      *)
PositiveIsPersisted ==
    /\ \A id \in Ids : cache[id] = "yes" => id \in known
    /\ \A c \in Callers : /\ stage[c] = "saved" => asked[c] \in known
                          /\ stage[c] = "woken" /\ verdict[c] = "yes"
                                => asked[c] \in known

(* Positive answers are never taken back: once any caller has been told that   *)
(* an ID is found, no check_user called after that answers that it is not,     *)
(* through evictions, dropped leaders, late INSERTs and restarts, and although *)
(* the API may have changed its mind.                                          *)
NoRetraction ==
    \A c \in Callers : warned[c] =>
        /\ stage[c] # "absent"
        /\ stage[c] = "woken" => verdict[c] # "no"
        /\ stage[c] = "waiting" => cache[asked[c]] # "no"

(* What makes these inductive.  A call has an argument while it lasts; what is *)
(* in the table, on its way there or told was confirmed before.                *)
AskedWhileBusy == \A c \in Callers : asked[c] = NoId <=> stage[c] = "idle"

ConfirmedFirst ==
    /\ known \subseteq confirmed /\ late \subseteq confirmed /\ told \subseteq known
    /\ \A c \in Callers : stage[c] = "save" => asked[c] \in confirmed

(* Once "found" is in the cache or on its way to a caller, no closure can      *)
(* come to "not found" any more: those that run have yet to look at the table. *)
Settled(id) == \/ id \in told
               \/ cache[id] = "yes"
               \/ \E c \in Callers : /\ stage[c] = "woken" /\ asked[c] = id
                                     /\ verdict[c] = "yes"
SettledIsFinal ==
    \A id \in Ids : Settled(id) =>
        /\ id \in known
        /\ cache[id] # "no"
        /\ \A c \in Callers : asked[c] = id => stage[c] \notin {"api", "absent"}

WarnedWasTold == \A c \in Callers : warned[c] => asked[c] \in told

IInv == /\ TypeOK
        /\ AskedWhileBusy
        /\ SingleFlight
        /\ LeaderWorksOnAMiss
        /\ PositiveIsPersisted
        /\ ConfirmedFirst
        /\ SettledIsFinal
        /\ WarnedWasTold
        /\ NoRetraction

(* Every check_user returns, whoever is dropped and whatever fails.            *)
EveryCallReturns == \A c \in Callers : stage[c] # "idle" ~> stage[c] = "idle"

(* No permanent false negative (bot_handler.rs:23, main.rs:54): once upstream  *)
(* holds an ID for good, there comes a time from which no caller is told that  *)
(* it is not found, however often the negative entry was read meanwhile and    *)
(* whoever had the old answer on its way.                                      *)
NoPermanentFalseNegative ==
    \A id \in Ids :
        <>[](id \in upstream) =>
            <>[](/\ cache[id] # "no"
                 /\ \A c \in Callers : asked[c] = id => stage[c] # "absent"
                                                     /\ verdict[c] # "no")

(* The positive answers and the table are a Registry.                          *)
Positive == INSTANCE Registry WITH Ids <- Ids, confirmed <- confirmed,
                                   known <- known, told <- told
RegistrySpec == Positive!Spec
================================================================================
