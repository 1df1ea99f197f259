------------------------------- MODULE ApiClient -------------------------------
(* src/src/api_client.rs: the client of the okcdn.ru API.                      *)
(*                                                                             *)
(* Any number of tasks run check_id at once.  They share one session key       *)
(* behind a tokio RwLock: a lookup clones the key under a read guard, a        *)
(* refresh holds the write guard across its whole authentication request.      *)
(* The key is read twice in an attempt, once by try_lookup_with_auth (to have  *)
(* something to compare with) and once by try_lookup (to send), and anything   *)
(* may happen between the two.                                                 *)
(*                                                                             *)
(* Keys are numbered in the order in which the server issues them; 0 stands    *)
(* for None.  The server may give any answer to any request.                   *)
EXTENDS Naturals

CONSTANTS Tasks,        \* the concurrent callers of check_id
          MAX_RETRIES,  \* api_client.rs:10
          MaxKeys,      \* bound on the keys the server issues
          NoTask        \* the write lock has no holder

ASSUME RetriesAssumption == MAX_RETRIES \in Nat
ASSUME KeysAssumption == MaxKeys \in Nat
ASSUME NoTaskAssumption == NoTask \notin Tasks

VARIABLES
    main,         \* "booting", "serving" or "exited": where main() is
    session_key,  \* ApiClient.session_key
    writer,       \* the task that holds session_key's write guard
    pc,           \* [Tasks -> Stages]: the await each task is suspended at
    attempt,      \* check_id's loop variable
    old_key,      \* the snapshot try_lookup_with_auth took
    key,          \* the key the task's current lookup request carries
    retried,      \* the current attempt is in its second try_lookup
    result,       \* what the task's last check_id returned
    rejected,     \* history: the keys the server has answered 401/403 to
    lookups,      \* history: lookup requests of the current check_id
    auths         \* history: authentication requests of the current check_id

local == <<attempt, old_key, key, retried, result, lookups, auths>>
vars == <<main, session_key, writer, pc, attempt, old_key, key, retried,
          result, rejected, lookups, auths>>

Stages == {"idle",      \* no check_id running
           "snapshot",  \* waiting for the read guard of the snapshot
           "read",      \* waiting for the read guard of try_lookup
           "lookup",    \* lookup request in flight
           "acquire",   \* waiting for the write guard of refresh_session
           "auth",      \* holding it, authentication request in flight
           "backoff"}   \* sleeping after a 429

Results == {"none", "found", "notFound", "rateLimited", "authError",
            "otherError", "cancelled"}

--------------------------------------------------------------------------------
(* How check_id returns (its locals are gone with it), and what is done with   *)
(* each outcome of a try_lookup.                                               *)

Return(t, r) == /\ pc' = [pc EXCEPT ![t] = "idle"]
                /\ result' = [result EXCEPT ![t] = r]
                /\ attempt' = [attempt EXCEPT ![t] = 0]
                /\ old_key' = [old_key EXCEPT ![t] = 0]
                /\ key' = [key EXCEPT ![t] = 0]
                /\ retried' = [retried EXCEPT ![t] = FALSE]
                /\ lookups' = [lookups EXCEPT ![t] = 0]
                /\ auths' = [auths EXCEPT ![t] = 0]

Await(t, stage) == pc' = [pc EXCEPT ![t] = stage] /\ UNCHANGED local

(* Err(Auth): the first one of an attempt leads to a refresh, the second one  *)
(* is check_id's error.                                                        *)
OnAuthError(t) == \/ ~retried[t] /\ Await(t, "acquire")
                  \/ retried[t] /\ Return(t, "authError")

(* Mutant: one retry too few.                                                  *)
OnRateLimitedTooSoon(t) ==
    \/ attempt[t] + 1 < MAX_RETRIES /\ Await(t, "backoff")
    \/ attempt[t] + 1 >= MAX_RETRIES /\ Return(t, "rateLimited")

(* Err(RateLimited): back off while attempts are left, whichever try_lookup   *)
(* of the attempt met the 429.                                                 *)
OnRateLimited(t) == \/ attempt[t] < MAX_RETRIES /\ Await(t, "backoff")
                    \/ attempt[t] = MAX_RETRIES /\ Return(t, "rateLimited")

--------------------------------------------------------------------------------
Init == /\ main = "booting"
        /\ session_key = 0
        /\ writer = NoTask
        /\ pc = [t \in Tasks |-> "idle"]
        /\ attempt = [t \in Tasks |-> 0]
        /\ old_key = [t \in Tasks |-> 0]
        /\ key = [t \in Tasks |-> 0]
        /\ retried = [t \in Tasks |-> FALSE]
        /\ result = [t \in Tasks |-> "none"]
        /\ rejected = {}
        /\ lookups = [t \in Tasks |-> 0]
        /\ auths = [t \in Tasks |-> 0]

(* main() awaits authenticate() before anything that could look up exists; if *)
(* it fails, main returns the error.                                           *)
Authenticate ==
    /\ main = "booting"
    /\ \/ /\ session_key < MaxKeys
          /\ session_key' = session_key + 1
          /\ main' = "serving"
       \/ main' = "exited" /\ UNCHANGED session_key
    /\ UNCHANGED <<writer, pc, rejected, local>>

(* check_id is called. *)
Start(t) ==
    /\ main = "serving"
    /\ pc[t] = "idle"
    /\ pc' = [pc EXCEPT ![t] = "snapshot"]
    /\ result' = [result EXCEPT ![t] = "none"]
    /\ UNCHANGED <<main, session_key, writer, attempt, old_key, key, retried,
                   rejected, lookups, auths>>

(* try_lookup_with_auth clones the key, to compare with later. *)
Snapshot(t) ==
    /\ pc[t] = "snapshot"
    /\ writer = NoTask
    /\ old_key' = [old_key EXCEPT ![t] = session_key]
    /\ pc' = [pc EXCEPT ![t] = "read"]
    /\ UNCHANGED <<main, session_key, writer, attempt, key, retried, result,
                   rejected, lookups, auths>>

(* try_lookup clones the key and sends the request; without a key it is an    *)
(* Err(Auth) at once.                                                          *)
ReadKey(t) ==
    /\ pc[t] = "read"
    /\ writer = NoTask
    /\ \/ /\ session_key # 0
          /\ key' = [key EXCEPT ![t] = session_key]
          /\ pc' = [pc EXCEPT ![t] = "lookup"]
          /\ lookups' = [lookups EXCEPT ![t] = @ + 1]
          /\ UNCHANGED <<attempt, old_key, retried, result, auths>>
       \/ session_key = 0 /\ OnAuthError(t)
    /\ UNCHANGED <<main, session_key, writer, rejected>>

(* The server's answer to the lookup, or the transport's failure.             *)
LookupAnswered(t) ==
    /\ pc[t] = "lookup"
    /\ \/ \E r \in {"found", "notFound", "otherError"} :
              Return(t, r) /\ UNCHANGED rejected
       \/ OnRateLimited(t) /\ UNCHANGED rejected              \* 429
       \/ /\ rejected' = rejected \union {key[t]}             \* 401, 403
          /\ OnAuthError(t)
    /\ UNCHANGED <<main, session_key, writer>>

(* Mutant: a skipped refresh does not use up the attempt's one retry.          *)
SkipRefreshForRetryAgain(t) ==
    /\ pc[t] = "acquire"
    /\ writer = NoTask
    /\ session_key # old_key[t] /\ session_key # 0
    /\ Await(t, "read")
    /\ UNCHANGED <<main, session_key, writer, rejected>>

(* refresh_session gets the write guard and finds that another task has       *)
(* replaced the key since the snapshot: the guard is dropped, nothing is sent, *)
(* and the attempt goes on to its second try_lookup.                           *)
SkipRefresh(t) ==
    /\ pc[t] = "acquire"
    /\ writer = NoTask
    /\ session_key # old_key[t] /\ session_key # 0
    /\ pc' = [pc EXCEPT ![t] = "read"]
    /\ retried' = [retried EXCEPT ![t] = TRUE]
    /\ UNCHANGED <<main, session_key, writer, attempt, old_key, key, result,
                   rejected, lookups, auths>>

(* Mutant: no second look at the key under the lock.                           *)
BeginRefreshUnchecked(t) ==
    /\ pc[t] = "acquire"
    /\ writer = NoTask
    /\ writer' = t
    /\ pc' = [pc EXCEPT ![t] = "auth"]
    /\ auths' = [auths EXCEPT ![t] = @ + 1]
    /\ UNCHANGED <<main, session_key, attempt, old_key, key, retried, result,
                   rejected, lookups>>

(* It finds the key of its snapshot: it keeps the guard and authenticates.    *)
BeginRefresh(t) ==
    /\ pc[t] = "acquire"
    /\ writer = NoTask
    /\ session_key = old_key[t] \/ session_key = 0
    /\ writer' = t
    /\ pc' = [pc EXCEPT ![t] = "auth"]
    /\ auths' = [auths EXCEPT ![t] = @ + 1]
    /\ UNCHANGED <<main, session_key, attempt, old_key, key, retried, result,
                   rejected, lookups>>

(* The authentication succeeds: the key is stored, the guard dropped.         *)
Refreshed(t) ==
    /\ pc[t] = "auth"
    /\ session_key < MaxKeys
    /\ session_key' = session_key + 1
    /\ writer' = NoTask
    /\ pc' = [pc EXCEPT ![t] = "read"]
    /\ retried' = [retried EXCEPT ![t] = TRUE]
    /\ UNCHANGED <<main, attempt, old_key, key, result, rejected, lookups, auths>>

(* Mutant: the error path keeps the guard.                                     *)
RefreshFailedWithGuard(t) ==
    /\ pc[t] = "auth"
    /\ Return(t, "otherError")
    /\ UNCHANGED <<main, session_key, writer, rejected>>

(* It fails: the guard is dropped with the key as it was, and the error       *)
(* reaches check_id as Err(Other), which is not retried.                       *)
RefreshFailed(t) ==
    /\ pc[t] = "auth"
    /\ writer' = NoTask
    /\ Return(t, "otherError")
    /\ UNCHANGED <<main, session_key, rejected>>

(* The sleep after a 429 ends; the loop's next attempt starts afresh.         *)
Wake(t) ==
    /\ pc[t] = "backoff"
    /\ pc' = [pc EXCEPT ![t] = "snapshot"]
    /\ attempt' = [attempt EXCEPT ![t] = @ + 1]
    /\ retried' = [retried EXCEPT ![t] = FALSE]
    /\ UNCHANGED <<main, session_key, writer, old_key, key, result, rejected,
                   lookups, auths>>

(* The future is dropped at an await (axum drops a handler whose client went  *)
(* away): it ends there, and a write guard it holds is released.               *)
Cancel(t) ==
    /\ pc[t] # "idle"
    /\ Return(t, "cancelled")
    /\ writer' = IF writer = t THEN NoTask ELSE writer
    /\ UNCHANGED <<main, session_key, rejected>>

(* main() has returned the error of the first authentication. *)
Exited == main = "exited" /\ UNCHANGED vars

AuthAnswered(t) == Refreshed(t) \/ RefreshFailed(t)
AcquireWrite(t) == SkipRefresh(t) \/ BeginRefresh(t)

Next == \/ Authenticate
        \/ \E t \in Tasks :
              \/ Start(t) \/ Snapshot(t) \/ ReadKey(t) \/ LookupAnswered(t)
              \/ SkipRefresh(t) \/ BeginRefresh(t)
              \/ Refreshed(t) \/ RefreshFailed(t)
              \/ Wake(t) \/ Cancel(t)
        \/ Exited

Spec == Init /\ [][Next]_vars

(* Every request is answered in the end, or its transport fails; timers fire; *)
(* and tokio's RwLock serves its waiters in the order in which they came, so   *)
(* one that keeps finding the lock free cannot be passed over for ever.        *)
Fairness == /\ \A t \in Tasks : /\ SF_vars(Snapshot(t))
                                /\ SF_vars(ReadKey(t))
                                /\ SF_vars(AcquireWrite(t))
                                /\ WF_vars(LookupAnswered(t))
                                /\ WF_vars(AuthAnswered(t))
                                /\ WF_vars(Wake(t))

FairSpec == Spec /\ Fairness

--------------------------------------------------------------------------------
(* Types, and how the stages of a task go with the lock.                       *)

TypeOK == /\ main \in {"booting", "serving", "exited"}
          /\ session_key \in 0..MaxKeys
          /\ writer \in Tasks \union {NoTask}
          /\ pc \in [Tasks -> Stages]
          /\ attempt \in [Tasks -> 0..MAX_RETRIES]
          /\ old_key \in [Tasks -> 0..MaxKeys]
          /\ key \in [Tasks -> 0..MaxKeys]
          /\ retried \in [Tasks -> BOOLEAN]
          /\ result \in [Tasks -> Results]
          /\ rejected \subseteq Nat
          /\ lookups \in [Tasks -> Nat]
          /\ auths \in [Tasks -> Nat]

(* The write guard is held by a task that is authenticating and by no other:   *)
(* at most one authentication request is in flight, and no early return, error *)
(* path or cancellation of refresh_session leaves the lock taken.              *)
GuardHeldToAuthenticate == \A t \in Tasks : writer = t <=> pc[t] = "auth"

(* An authentication request is sent only while the key in use is one that the *)
(* server has refused: however many lookups fail together on one key, those    *)
(* that come to the lock after its replacement send nothing (README, session   *)
(* management; the double check at api_client.rs:210).                         *)
AuthOnlyForRejectedKey ==
    \A t \in Tasks : pc[t] = "auth" => session_key \in rejected

(* One check_id costs the server at most two lookups and one authentication    *)
(* per attempt, whatever mix of refused keys and 429s it meets: the retry that *)
(* follows a refresh and the backoff loop do not multiply each other.          *)
BoundedEffort ==
    \A t \in Tasks : /\ lookups[t] <= 2 * (MAX_RETRIES + 1)
                     /\ auths[t] <= MAX_RETRIES + 1

(* check_id reports a rate limit only when all of its retries were spent.      *)
GivesUpAfterAllRetries ==
    [][\A t \in Tasks :
          result'[t] = "rateLimited" /\ result[t] # "rateLimited"
              => attempt[t] = MAX_RETRIES /\ lookups[t] > MAX_RETRIES]_vars

(* A check_id that fails with a refused key has tried a renewed one: the       *)
(* second try_lookup of an attempt ("Retry exactly once with the fresh key",   *)
(* api_client.rs:194) does not send the key the first one was refused for.     *)
RetryUsesFreshKey ==
    [][\A t \in Tasks : ReadKey(t) /\ retried[t] => key'[t] # key[t]]_vars

(* What makes the three safety properties inductive.                          *)

(* Tasks exist only once main() has a key. *)
ServingHasKey == /\ main = "serving" => session_key # 0
                 /\ main = "booting" => session_key = 0
                 /\ main # "serving" => \A t \in Tasks : pc[t] = "idle"

(* Keys only ever get newer: the snapshot, the key sent, the key in use.       *)
KeysAreOrdered ==
    /\ rejected \subseteq 1..session_key
    /\ \A t \in Tasks :
          /\ pc[t] \in {"read", "auth"} => old_key[t] <= session_key
          /\ pc[t] \in {"lookup", "acquire"} => key[t] \in 1..session_key
          /\ pc[t] \in {"lookup", "acquire"} /\ ~retried[t] => old_key[t] <= key[t]
          /\ pc[t] = "acquire" => ~retried[t] /\ key[t] \in rejected

(* How many requests a task has sent when it is at a given stage.              *)
EffortAtStage ==
    \A t \in Tasks :
       /\ pc[t] = "idle" => attempt[t] = 0 /\ lookups[t] = 0 /\ auths[t] = 0
       /\ pc[t] \in {"idle", "snapshot", "auth"} => ~retried[t]
       /\ pc[t] = "snapshot" \/ (pc[t] = "read" /\ ~retried[t])
             => lookups[t] \in attempt[t]..(2 * attempt[t]) /\ auths[t] <= attempt[t]
       /\ pc[t] \in {"lookup", "acquire"} /\ ~retried[t]
             => /\ lookups[t] \in (attempt[t] + 1)..(2 * attempt[t] + 1)
                /\ auths[t] <= attempt[t]
       /\ pc[t] = "auth" \/ (pc[t] = "read" /\ retried[t])
             => /\ lookups[t] \in (attempt[t] + 1)..(2 * attempt[t] + 1)
                /\ auths[t] <= attempt[t] + 1
       /\ (pc[t] = "lookup" /\ retried[t]) \/ pc[t] = "backoff"
             => /\ lookups[t] \in (attempt[t] + 1)..(2 * attempt[t] + 2)
                /\ auths[t] <= attempt[t] + 1
       /\ pc[t] = "backoff" => attempt[t] < MAX_RETRIES

IInv == /\ TypeOK
        /\ GuardHeldToAuthenticate
        /\ ServingHasKey
        /\ KeysAreOrdered
        /\ AuthOnlyForRejectedKey
        /\ EffortAtStage

(* The key changes as the abstract specification of the session allows: only   *)
(* after the server refused that very key, and to its successor.               *)
SessionContract == INSTANCE Session WITH session_key <- session_key,
                                         rejected <- rejected
SessionSpec == SessionContract!Spec

(* Every check_id returns: no task waits for ever for the lock, behind a       *)
(* refresh or a stream of refreshes, and the two retries cannot alternate      *)
(* without end.                                                                *)
EveryCheckReturns == \A t \in Tasks : pc[t] # "idle" ~> pc[t] = "idle"
================================================================================
