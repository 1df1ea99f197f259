---------------------------- MODULE ApiClientProofs ----------------------------
(* Proofs about ApiClient, for any set of tasks and any MAX_RETRIES: IInv is   *)
(* inductive, with one lemma per action; the invariants and action properties  *)
(* that the runs check follow from it, and so does that ApiClient implements   *)
(* Session.                                                                    *)
EXTENDS ApiClient, TLAPS

USE RetriesAssumption, KeysAssumption, NoTaskAssumption

(* Nothing has run: every part of the invariant holds of the initial values.   *)
LEMMA InitIInv == Init => IInv
  BY DEF Init, IInv, TypeOK, GuardHeldToAuthenticate, ServingHasKey,
         KeysAreOrdered, AuthOnlyForRejectedKey, EffortAtStage, Stages, Results

(* No task runs yet, so only ServingHasKey is at stake. *)
LEMMA AuthenticateStep ==
  ASSUME IInv, Authenticate
  PROVE  IInv'
  <1> USE DEF Authenticate, local
  <1>1. TypeOK'
    BY DEF IInv, TypeOK
  <1>2. GuardHeldToAuthenticate'
    BY DEF IInv, TypeOK, GuardHeldToAuthenticate
  <1>3. ServingHasKey'
    BY DEF IInv, TypeOK, ServingHasKey
  <1>4. KeysAreOrdered'
    BY DEF IInv, TypeOK, KeysAreOrdered, ServingHasKey
  <1>5. AuthOnlyForRejectedKey'
    BY DEF IInv, TypeOK, AuthOnlyForRejectedKey, ServingHasKey
  <1>6. EffortAtStage'
    BY DEF IInv, TypeOK, EffortAtStage
  <1> QED
    BY <1>1, <1>2, <1>3, <1>4, <1>5, <1>6 DEF IInv

(* A check_id starts from cleared locals. *)
LEMMA StartStep ==
  ASSUME IInv, NEW t \in Tasks, Start(t)
  PROVE  IInv'
  <1> USE DEF Start
  <1>1. TypeOK'
    BY DEF IInv, TypeOK, Stages, Results
  <1>2. GuardHeldToAuthenticate'
    BY DEF IInv, TypeOK, GuardHeldToAuthenticate
  <1>3. ServingHasKey'
    BY DEF IInv, TypeOK, ServingHasKey
  <1>4. KeysAreOrdered'
    BY DEF IInv, TypeOK, KeysAreOrdered, EffortAtStage
  <1>5. AuthOnlyForRejectedKey'
    BY DEF IInv, TypeOK, AuthOnlyForRejectedKey
  <1>6. EffortAtStage'
    BY DEF IInv, TypeOK, EffortAtStage
  <1> QED
    BY <1>1, <1>2, <1>3, <1>4, <1>5, <1>6 DEF IInv

(* The snapshot is the key in use. *)
LEMMA SnapshotStep ==
  ASSUME IInv, NEW t \in Tasks, Snapshot(t)
  PROVE  IInv'
  <1> USE DEF Snapshot
  <1>1. TypeOK'
    BY DEF IInv, TypeOK, Stages
  <1>2. GuardHeldToAuthenticate'
    BY DEF IInv, TypeOK, GuardHeldToAuthenticate
  <1>3. ServingHasKey'
    BY DEF IInv, TypeOK, ServingHasKey
  <1>4. KeysAreOrdered'
    BY DEF IInv, TypeOK, KeysAreOrdered
  <1>5. AuthOnlyForRejectedKey'
    BY DEF IInv, TypeOK, AuthOnlyForRejectedKey
  <1>6. EffortAtStage'
    BY DEF IInv, TypeOK, EffortAtStage
  <1> QED
    BY <1>1, <1>2, <1>3, <1>4, <1>5, <1>6 DEF IInv

(* The key sent is the one in use, no older than the snapshot. *)
LEMMA ReadKeyStep ==
  ASSUME IInv, NEW t \in Tasks, ReadKey(t)
  PROVE  IInv'
  <1>0. session_key # 0
    BY DEF ReadKey, IInv, TypeOK, ServingHasKey
  <1> USE DEF ReadKey
  <1>1. TypeOK'
    BY <1>0 DEF IInv, TypeOK, Stages
  <1>2. GuardHeldToAuthenticate'
    BY <1>0 DEF IInv, TypeOK, GuardHeldToAuthenticate
  <1>3. ServingHasKey'
    BY <1>0 DEF IInv, TypeOK, ServingHasKey
  <1>4. KeysAreOrdered'
    BY <1>0 DEF IInv, TypeOK, KeysAreOrdered, ServingHasKey
  <1>5. AuthOnlyForRejectedKey'
    BY <1>0 DEF IInv, TypeOK, AuthOnlyForRejectedKey
  <1>6. EffortAtStage'
    BY <1>0 DEF IInv, TypeOK, EffortAtStage
  <1> QED
    BY <1>1, <1>2, <1>3, <1>4, <1>5, <1>6 DEF IInv

(* A task that returns leaves no trace but its result and, when it was refused *)
(* a key, that key among the rejected ones; a guard it held is released.       *)
LEMMA ReturnStep ==
  ASSUME IInv,
         NEW t \in Tasks, NEW r \in Results, Return(t, r),
         pc[t] # "idle",
         writer' = IF writer = t THEN NoTask ELSE writer,
         rejected \subseteq rejected', rejected' \subseteq 1..session_key,
         UNCHANGED <<main, session_key>>
  PROVE  IInv'
  <1> USE DEF Return
  <1>1. TypeOK'
    BY DEF IInv, TypeOK, Stages
  <1>2. GuardHeldToAuthenticate'
    BY DEF IInv, TypeOK, GuardHeldToAuthenticate
  <1>3. ServingHasKey'
    BY DEF IInv, TypeOK, ServingHasKey
  <1>4. KeysAreOrdered'
    BY DEF IInv, TypeOK, KeysAreOrdered
  <1>5. AuthOnlyForRejectedKey'
    BY DEF IInv, TypeOK, AuthOnlyForRejectedKey
  <1>6. EffortAtStage'
    BY DEF IInv, TypeOK, EffortAtStage
  <1> QED
    BY <1>1, <1>2, <1>3, <1>4, <1>5, <1>6 DEF IInv

(* A refused key is recorded before its task may ask for the write lock; the   *)
(* other answers end the check_id or put it to sleep.                          *)
LEMMA LookupAnsweredStep ==
  ASSUME IInv, NEW t \in Tasks, LookupAnswered(t)
  PROVE  IInv'
  <1>1. rejected \subseteq rejected' /\ rejected' \subseteq 1..session_key
    BY DEF LookupAnswered, IInv, KeysAreOrdered
  <1>2. CASE \E r \in Results : Return(t, r)
    <2>1. writer # t
      BY DEF LookupAnswered, IInv, TypeOK, GuardHeldToAuthenticate
    <2> QED
      BY <1>1, <1>2, <2>1, ReturnStep DEF LookupAnswered
  <1>3. CASE OnRateLimited(t) /\ attempt[t] < MAX_RETRIES /\ Await(t, "backoff")
             /\ UNCHANGED rejected
    <2> USE <1>3 DEF LookupAnswered, Await, local
    <2>1. TypeOK'
      BY DEF IInv, TypeOK, Stages
    <2>2. GuardHeldToAuthenticate' /\ ServingHasKey'
      BY DEF IInv, TypeOK, GuardHeldToAuthenticate, ServingHasKey
    <2>3. KeysAreOrdered' /\ AuthOnlyForRejectedKey'
      BY DEF IInv, TypeOK, KeysAreOrdered, AuthOnlyForRejectedKey
    <2>4. EffortAtStage'
      BY DEF IInv, TypeOK, EffortAtStage
    <2> QED
      BY <2>1, <2>2, <2>3, <2>4 DEF IInv
  <1>4. CASE ~retried[t] /\ Await(t, "acquire") /\ rejected' = rejected \union {key[t]}
    <2> USE <1>4 DEF LookupAnswered, Await, local
    <2>1. TypeOK'
      BY <1>1 DEF IInv, TypeOK, Stages
    <2>2. GuardHeldToAuthenticate' /\ ServingHasKey'
      BY DEF IInv, TypeOK, GuardHeldToAuthenticate, ServingHasKey
    <2>3. KeysAreOrdered' /\ AuthOnlyForRejectedKey'
      BY <1>1 DEF IInv, TypeOK, KeysAreOrdered, AuthOnlyForRejectedKey
    <2>4. EffortAtStage'
      BY DEF IInv, TypeOK, EffortAtStage
    <2> QED
      BY <2>1, <2>2, <2>3, <2>4 DEF IInv
  <1> QED
    BY <1>2, <1>3, <1>4 DEF LookupAnswered, OnAuthError, OnRateLimited, Results

(* The guard is dropped at once, so the lock is as free as it was. *)
LEMMA SkipRefreshStep ==
  ASSUME IInv, NEW t \in Tasks, SkipRefresh(t)
  PROVE  IInv'
  <1> USE DEF SkipRefresh
  <1>1. TypeOK'
    BY DEF IInv, TypeOK, Stages
  <1>2. GuardHeldToAuthenticate'
    BY DEF IInv, TypeOK, GuardHeldToAuthenticate
  <1>3. ServingHasKey'
    BY DEF IInv, TypeOK, ServingHasKey
  <1>4. KeysAreOrdered'
    BY DEF IInv, TypeOK, KeysAreOrdered, EffortAtStage
  <1>5. AuthOnlyForRejectedKey'
    BY DEF IInv, TypeOK, AuthOnlyForRejectedKey
  <1>6. EffortAtStage'
    BY DEF IInv, TypeOK, EffortAtStage, KeysAreOrdered
  <1> QED
    BY <1>1, <1>2, <1>3, <1>4, <1>5, <1>6 DEF IInv

(* The heart of the double check: a task that finds the key of its snapshot    *)
(* was refused that very key, for what it sent lies between the two.           *)
LEMMA BeginRefreshStep ==
  ASSUME IInv, NEW t \in Tasks, BeginRefresh(t)
  PROVE  IInv'
  <1> USE DEF BeginRefresh
  <1>1. session_key \in rejected
    <2>1. session_key # 0
      BY DEF IInv, TypeOK, ServingHasKey
    <2>2. /\ old_key[t] \in Nat /\ key[t] \in Nat /\ session_key \in Nat
          /\ old_key[t] <= key[t] /\ key[t] <= session_key
          /\ key[t] \in rejected
      BY DEF IInv, TypeOK, KeysAreOrdered
    <2> QED
      BY <2>1, <2>2
  <1>2. TypeOK'
    BY DEF IInv, TypeOK, Stages
  <1>3. GuardHeldToAuthenticate'
    BY DEF IInv, TypeOK, GuardHeldToAuthenticate
  <1>4. ServingHasKey'
    BY DEF IInv, TypeOK, ServingHasKey
  <1>5. KeysAreOrdered'
    BY DEF IInv, TypeOK, KeysAreOrdered
  <1>6. AuthOnlyForRejectedKey'
    BY <1>1 DEF IInv, TypeOK, AuthOnlyForRejectedKey
  <1>7. EffortAtStage'
    BY DEF IInv, TypeOK, EffortAtStage, KeysAreOrdered
  <1> QED
    BY <1>2, <1>3, <1>4, <1>5, <1>6, <1>7 DEF IInv

(* Only the task that stores the new key was authenticating. *)
LEMMA RefreshedStep ==
  ASSUME IInv, NEW t \in Tasks, Refreshed(t)
  PROVE  IInv'
  <1> USE DEF Refreshed
  <1>1. TypeOK'
    BY DEF IInv, TypeOK, Stages
  <1>2. GuardHeldToAuthenticate'
    BY DEF IInv, TypeOK, GuardHeldToAuthenticate
  <1>3. ServingHasKey'
    BY DEF IInv, TypeOK, ServingHasKey
  <1>4. KeysAreOrdered'
    BY DEF IInv, TypeOK, KeysAreOrdered
  <1>5. AuthOnlyForRejectedKey'
    BY DEF IInv, TypeOK, AuthOnlyForRejectedKey, GuardHeldToAuthenticate
  <1>6. EffortAtStage'
    BY DEF IInv, TypeOK, EffortAtStage
  <1> QED
    BY <1>1, <1>2, <1>3, <1>4, <1>5, <1>6 DEF IInv

(* The one exit of refresh_session that returns from check_id drops the guard. *)
LEMMA RefreshFailedStep ==
  ASSUME IInv, NEW t \in Tasks, RefreshFailed(t)
  PROVE  IInv'
  <1>1. writer = t
    BY DEF RefreshFailed, IInv, GuardHeldToAuthenticate
  <1>2. rejected' \subseteq 1..session_key
    BY DEF RefreshFailed, IInv, KeysAreOrdered
  <1> QED
    BY <1>1, <1>2, ReturnStep DEF RefreshFailed, Results

(* The next attempt is one of those left. *)
LEMMA WakeStep ==
  ASSUME IInv, NEW t \in Tasks, Wake(t)
  PROVE  IInv'
  <1> USE DEF Wake
  <1>1. TypeOK'
    BY DEF IInv, TypeOK, Stages, EffortAtStage
  <1>2. GuardHeldToAuthenticate'
    BY DEF IInv, TypeOK, GuardHeldToAuthenticate
  <1>3. ServingHasKey'
    BY DEF IInv, TypeOK, ServingHasKey
  <1>4. KeysAreOrdered'
    BY DEF IInv, TypeOK, KeysAreOrdered
  <1>5. AuthOnlyForRejectedKey'
    BY DEF IInv, TypeOK, AuthOnlyForRejectedKey
  <1>6. EffortAtStage'
    BY DEF IInv, TypeOK, EffortAtStage
  <1> QED
    BY <1>1, <1>2, <1>3, <1>4, <1>5, <1>6 DEF IInv

(* A dropped task returns like any other, and its guard is dropped with it.    *)
LEMMA CancelStep ==
  ASSUME IInv, NEW t \in Tasks, Cancel(t)
  PROVE  IInv'
  <1>1. rejected' \subseteq 1..session_key
    BY DEF Cancel, IInv, KeysAreOrdered
  <1> QED
    BY <1>1, ReturnStep DEF Cancel, Results

(* The invariant is about the variables of ApiClient only.                     *)
LEMMA StutterStep == IInv /\ UNCHANGED vars => IInv'
  BY DEF IInv, TypeOK, GuardHeldToAuthenticate, ServingHasKey, KeysAreOrdered,
         AuthOnlyForRejectedKey, EffortAtStage, vars

(* The inductive step, action by action.                                       *)
LEMMA NextIInv == IInv /\ [Next]_vars => IInv'
  <1> SUFFICES ASSUME IInv, [Next]_vars PROVE IInv'
    OBVIOUS
  <1>1. CASE Authenticate
    BY <1>1, AuthenticateStep
  <1>2. ASSUME NEW t \in Tasks,
               \/ Start(t) \/ Snapshot(t) \/ ReadKey(t) \/ LookupAnswered(t)
               \/ SkipRefresh(t) \/ BeginRefresh(t)
               \/ Refreshed(t) \/ RefreshFailed(t)
               \/ Wake(t) \/ Cancel(t)
        PROVE  IInv'
    BY <1>2, StartStep, SnapshotStep, ReadKeyStep, LookupAnsweredStep,
       SkipRefreshStep, BeginRefreshStep, RefreshedStep, RefreshFailedStep,
       WakeStep, CancelStep
  <1>3. CASE Exited \/ UNCHANGED vars
    BY <1>3, StutterStep DEF Exited
  <1> QED
    BY <1>1, <1>2, <1>3 DEF Next

(* Every reachable state satisfies the inductive invariant.                    *)
THEOREM Inductive == Spec => []IInv
  BY InitIInv, NextIInv, PTL DEF Spec

--------------------------------------------------------------------------------
(* Type correctness.                                                           *)
THEOREM TypeCorrect == Spec => []TypeOK
  <1>1. IInv => TypeOK
    BY DEF IInv
  <1> QED
    BY <1>1, Inductive, PTL

(* The write guard is held exactly by the task that authenticates: one         *)
(* authentication at a time, and no exit of refresh_session keeps the lock.    *)
THEOREM LockDiscipline == Spec => []GuardHeldToAuthenticate
  <1>1. IInv => GuardHeldToAuthenticate
    BY DEF IInv
  <1> QED
    BY <1>1, Inductive, PTL

(* No authentication request is sent for a key the server has not refused.     *)
THEOREM NoRedundantAuth == Spec => []AuthOnlyForRejectedKey
  <1>1. IInv => AuthOnlyForRejectedKey
    BY DEF IInv
  <1> QED
    BY <1>1, Inductive, PTL

(* A check_id costs at most two lookups and one authentication per attempt.    *)
THEOREM EffortIsBounded == Spec => []BoundedEffort
  <1>1. ASSUME IInv, NEW t \in Tasks
        PROVE  /\ lookups[t] <= 2 * (MAX_RETRIES + 1)
               /\ auths[t] <= MAX_RETRIES + 1
    <2>1. /\ attempt[t] \in 0..MAX_RETRIES
          /\ lookups[t] \in Nat /\ auths[t] \in Nat
          /\ pc[t] \in Stages /\ retried[t] \in BOOLEAN
      BY <1>1 DEF IInv, TypeOK
    <2>2. CASE pc[t] \in {"idle", "snapshot"}
      BY <1>1, <2>1, <2>2 DEF IInv, EffortAtStage
    <2>3. CASE pc[t] \in {"read", "lookup"}
      BY <1>1, <2>1, <2>3 DEF IInv, EffortAtStage
    <2>4. CASE pc[t] \in {"acquire", "auth", "backoff"}
      BY <1>1, <2>1, <2>4 DEF IInv, EffortAtStage, KeysAreOrdered
    <2> QED
      BY <2>1, <2>2, <2>3, <2>4 DEF Stages
  <1>2. IInv => BoundedEffort
    BY <1>1 DEF BoundedEffort
  <1> QED
    BY <1>2, Inductive, PTL

(* check_id gives up on 429 only from its last attempt.                        *)
THEOREM RetriesAreSpent == Spec => GivesUpAfterAllRetries
  <1> DEFINE GivesUp ==
        \A t \in Tasks : result'[t] = "rateLimited" /\ result[t] # "rateLimited"
                           => attempt[t] = MAX_RETRIES /\ lookups[t] > MAX_RETRIES
  <1>1. ASSUME IInv, Next, NEW u \in Tasks,
               result'[u] = "rateLimited", result[u] # "rateLimited"
        PROVE  attempt[u] = MAX_RETRIES /\ lookups[u] > MAX_RETRIES
    <2>1. LookupAnswered(u) /\ attempt[u] = MAX_RETRIES
      BY <1>1 DEF IInv, TypeOK, Next, Authenticate, Start, Snapshot, ReadKey,
                  LookupAnswered, SkipRefresh, BeginRefresh, Refreshed,
                  RefreshFailed, Wake, Cancel, Exited, vars, local,
                  OnAuthError, OnRateLimited, Await, Return
    <2>2. lookups[u] \in Nat /\ attempt[u] \in Nat /\ lookups[u] >= attempt[u] + 1
      BY <1>1, <2>1 DEF LookupAnswered, IInv, TypeOK, EffortAtStage
    <2> QED
      BY <2>1, <2>2
  <1>2. IInv /\ [Next]_vars => [GivesUp]_vars
    BY <1>1
  <1> QED
    BY <1>2, Inductive, PTL DEF Spec, GivesUpAfterAllRetries

--------------------------------------------------------------------------------
(* Under any step of ApiClient the session key and the refused keys make a     *)
(* step of Session, or none.                                                   *)
LEMMA SessionStep == IInv /\ [Next]_vars => [SessionContract!Next]_(SessionContract!vars)
  <1> SUFFICES ASSUME IInv, [Next]_vars
               PROVE  \/ SessionContract!Next
                      \/ UNCHANGED <<session_key, rejected>>
    BY DEF SessionContract!vars
  <1> USE DEF SessionContract!Next, SessionContract!Reject, SessionContract!Renew
  <1>1. CASE Authenticate
    BY <1>1 DEF Authenticate, IInv, ServingHasKey
  <1>2. ASSUME NEW t \in Tasks, LookupAnswered(t)
        PROVE  SessionContract!Reject \/ UNCHANGED <<session_key, rejected>>
    BY <1>2 DEF LookupAnswered, IInv, KeysAreOrdered
  <1>3. ASSUME NEW t \in Tasks, Refreshed(t)
        PROVE  SessionContract!Renew
    BY <1>3 DEF Refreshed, IInv, AuthOnlyForRejectedKey
  <1>4. ASSUME NEW t \in Tasks,
               \/ Start(t) \/ Snapshot(t) \/ ReadKey(t)
               \/ SkipRefresh(t) \/ BeginRefresh(t)
               \/ RefreshFailed(t) \/ Wake(t) \/ Cancel(t)
        PROVE  UNCHANGED <<session_key, rejected>>
    BY <1>4 DEF Start, Snapshot, ReadKey, SkipRefresh, BeginRefresh,
                RefreshFailed, Wake, Cancel
  <1>5. CASE Exited \/ UNCHANGED vars
    BY <1>5 DEF Exited, vars
  <1> QED
    BY <1>1, <1>2, <1>3, <1>4, <1>5 DEF Next

(* ApiClient implements Session: the key in use is only ever replaced after    *)
(* the server refused it, and by its successor.                                *)
THEOREM ImplementsSession == Spec => SessionSpec
  <1>1. Init => SessionContract!Init
    BY DEF Init, SessionContract!Init
  <1> QED
    BY <1>1, SessionStep, Inductive, PTL DEF Spec, SessionSpec, SessionContract!Spec
================================================================================
