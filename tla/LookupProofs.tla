------------------------------ MODULE LookupProofs -----------------------------
(* Proofs about Lookup, for any callers, IDs and TTL: IInv is inductive, which *)
(* gives the coalescing, the persistence of positive answers and that they are *)
(* never retracted, and every step is a step of Registry or stutters.          *)
EXTENDS Lookup, TLAPS

USE TTLAssumption, NoCallerAssumption, NoIdAssumption

(* Nobody calls, the cache and the table are empty.                            *)
LEMMA InitIInv == Init => IInv
  BY DEF Init, IInv, TypeOK, Stages, Verdicts, Leading, AskedWhileBusy,
         SingleFlight, LeaderWorksOnAMiss, PositiveIsPersisted, ConfirmedFirst,
         Settled, SettledIsFinal, WarnedWasTold, NoRetraction

(* A caller that is not idle asks for an ID.                                   *)
LEMMA BusyAsks ==
  ASSUME IInv, NEW c \in Callers, stage[c] # "idle"
  PROVE  asked[c] \in Ids
  BY DEF IInv, TypeOK, AskedWhileBusy

(* One that runs the closure leads, and no other caller runs it for its ID.    *)
LEMMA LeaderIsAlone ==
  ASSUME IInv, NEW c \in Callers, stage[c] \in Leading
  PROVE  /\ asked[c] \in Ids
         /\ leader[asked[c]] = c
         /\ cache[asked[c]] = "empty"
         /\ \A d \in Callers : d # c /\ asked[d] = asked[c] => stage[d] \notin Leading
  <1>1. asked[c] \in Ids
    BY BusyAsks DEF Leading
  <1>2. leader[asked[c]] = c
    BY <1>1 DEF IInv, SingleFlight
  <1>3. cache[asked[c]] = "empty"
    BY <1>1, <1>2 DEF IInv, LeaderWorksOnAMiss
  <1>4. \A d \in Callers : d # c /\ asked[d] = asked[c] => stage[d] \notin Leading
    BY <1>1, <1>2 DEF IInv, SingleFlight
  <1> QED
    BY <1>1, <1>2, <1>3, <1>4

(* A new call remembers whether its ID was told before.                        *)
LEMMA CallStep ==
  ASSUME IInv, NEW c \in Callers, NEW id \in Ids, Call(c, id)
  PROVE  IInv'
  <1> USE DEF Call
  <1>1. TypeOK'
    BY DEF IInv, TypeOK, Stages, Verdicts
  <1>2. AskedWhileBusy'
    BY DEF IInv, TypeOK, AskedWhileBusy
  <1>3. SingleFlight'
    BY DEF IInv, TypeOK, SingleFlight, Leading
  <1>4. LeaderWorksOnAMiss'
    BY DEF IInv, LeaderWorksOnAMiss
  <1>5. PositiveIsPersisted'
    BY DEF IInv, TypeOK, PositiveIsPersisted
  <1>6. ConfirmedFirst'
    BY DEF IInv, TypeOK, ConfirmedFirst
  <1>7. SettledIsFinal'
    BY DEF IInv, TypeOK, SettledIsFinal, Settled
  <1>8. WarnedWasTold'
    BY DEF IInv, TypeOK, WarnedWasTold
  <1>9. NoRetraction'
    BY DEF IInv, TypeOK, NoRetraction, SettledIsFinal, Settled
  <1> QED
    BY <1>1, <1>2, <1>3, <1>4, <1>5, <1>6, <1>7, <1>8, <1>9 DEF IInv

(* A caller that leaves with "found", "not found", an error or nothing, and    *)
(* the lead with it if it had it, leaves the rest in order: a positive answer  *)
(* is that of a settled ID.                                                    *)
LEMMA FinishStep ==
  ASSUME IInv, NEW c \in Callers, NEW v \in Verdicts, stage[c] # "idle",
         Finish(c, v), Tell(c, v), v = "yes" => Settled(asked[c]),
         leader' = [leader EXCEPT ![asked[c]] = IF @ = c THEN NoCaller ELSE @],
         late' \in {late, IF stage[c] = "save" THEN late \union {asked[c]} ELSE late},
         UNCHANGED <<cache, age, known, upstream, confirmed>>
  PROVE  IInv'
  <1> USE DEF Finish, Tell
  <1>1. asked[c] \in Ids
    BY BusyAsks
  <1>2. late' \subseteq Ids /\ late' \subseteq confirmed
    BY <1>1 DEF IInv, TypeOK, ConfirmedFirst
  <1>3. told' \subseteq known /\ \A id \in told' : Settled(id)
    BY <1>1 DEF IInv, TypeOK, ConfirmedFirst, SettledIsFinal, Settled
  <1>4. TypeOK'
    BY <1>1, <1>2 DEF IInv, TypeOK, Stages
  <1>5. AskedWhileBusy'
    BY DEF IInv, TypeOK, AskedWhileBusy
  <1>6. SingleFlight'
    BY <1>1 DEF IInv, TypeOK, SingleFlight, Leading
  <1>7. LeaderWorksOnAMiss'
    BY <1>1 DEF IInv, TypeOK, LeaderWorksOnAMiss
  <1>8. PositiveIsPersisted'
    BY DEF IInv, TypeOK, PositiveIsPersisted
  <1>9. ConfirmedFirst'
    BY <1>2, <1>3 DEF IInv, TypeOK, ConfirmedFirst
  <1>10. \A id \in Ids : Settled(id)' => Settled(id)
    BY <1>3 DEF IInv, TypeOK, Settled
  <1>11. SettledIsFinal'
    BY <1>10 DEF IInv, TypeOK, SettledIsFinal
  <1>12. WarnedWasTold'
    BY DEF IInv, TypeOK, WarnedWasTold
  <1>13. NoRetraction'
    BY DEF IInv, TypeOK, NoRetraction
  <1> QED
    BY <1>4, <1>5, <1>6, <1>7, <1>8, <1>9, <1>11, <1>12, <1>13 DEF IInv

(* A caller that does not run the closure leads nothing.                       *)
LEMMA OthersDoNotLead ==
  ASSUME IInv, NEW c \in Callers, stage[c] \in {"waiting", "woken"}
  PROVE  leader = [leader EXCEPT ![asked[c]] = IF @ = c THEN NoCaller ELSE @]
  <1>1. asked[c] \in Ids
    BY BusyAsks
  <1>2. leader[asked[c]] # c
    BY <1>1 DEF IInv, SingleFlight, Leading
  <1> QED
    BY <1>1, <1>2 DEF IInv, TypeOK

(* An entry of the cache, or the outcome another caller's closure handed over. *)
LEMMA AnswerStep ==
  ASSUME IInv, NEW c \in Callers, Hit(c) \/ Receive(c)
  PROVE  IInv'
  <1>1. asked[c] \in Ids
    BY BusyAsks DEF Hit, Receive
  <1>2. leader' = [leader EXCEPT ![asked[c]] = IF @ = c THEN NoCaller ELSE @]
    BY OthersDoNotLead DEF Hit, Receive
  <1>3. CASE Hit(c)
    <2>1. cache[asked[c]] \in Verdicts
      BY <1>1, <1>3 DEF Hit, IInv, TypeOK, Verdicts
    <2>2. cache[asked[c]] = "yes" => Settled(asked[c])
      BY DEF Settled
    <2> QED
      BY <1>2, <1>3, <2>1, <2>2, FinishStep DEF Hit
  <1>4. CASE Receive(c)
    <2>1. verdict[c] \in Verdicts
      BY DEF IInv, TypeOK
    <2>2. verdict[c] = "yes" => Settled(asked[c])
      BY <1>4 DEF Receive, Settled
    <2> QED
      BY <1>2, <1>4, <2>1, <2>2, FinishStep DEF Receive
  <1> QED
    BY <1>3, <1>4

(* A dropped caller is told nothing; its INSERT was of a confirmed ID.         *)
LEMMA DropStep ==
  ASSUME IInv, NEW c \in Callers, Drop(c)
  PROVE  IInv'
  <1>1. /\ Finish(c, "dropped") /\ Tell(c, "dropped")
        /\ late' \in {late, IF stage[c] = "save" THEN late \union {asked[c]} ELSE late}
    BY DEF Drop, Tell
  <1> QED
    BY <1>1, FinishStep DEF Drop, Verdicts

(* The caller that leads works on a miss that nobody else works on.            *)
LEMMA LeadStep ==
  ASSUME IInv, NEW c \in Callers, Lead(c)
  PROVE  IInv'
  <1> USE DEF Lead
  <1>1. asked[c] \in Ids
    BY BusyAsks
  <1>2. TypeOK'
    BY <1>1 DEF IInv, TypeOK, Stages
  <1>3. AskedWhileBusy'
    BY DEF IInv, TypeOK, AskedWhileBusy
  <1>4. SingleFlight'
    BY <1>1 DEF IInv, TypeOK, SingleFlight, Leading
  <1>5. LeaderWorksOnAMiss'
    BY <1>1 DEF IInv, TypeOK, LeaderWorksOnAMiss
  <1>6. PositiveIsPersisted'
    BY DEF IInv, TypeOK, PositiveIsPersisted
  <1>7. ConfirmedFirst'
    BY DEF IInv, TypeOK, ConfirmedFirst
  <1>8. SettledIsFinal'
    BY DEF IInv, TypeOK, SettledIsFinal, Settled
  <1>9. WarnedWasTold'
    BY DEF IInv, WarnedWasTold
  <1>10. NoRetraction'
    BY DEF IInv, TypeOK, NoRetraction
  <1> QED
    BY <1>2, <1>3, <1>4, <1>5, <1>6, <1>7, <1>8, <1>9, <1>10 DEF IInv

(* The closure comes to its next await.  It may only come to "not found", or   *)
(* past the table, for an ID that is not settled.                              *)
LEMMA AdvanceStep ==
  ASSUME IInv, NEW c \in Callers, NEW s \in Leading,
         stage[c] \in Leading, Advance(c, s),
         known \subseteq known', known' \subseteq known \union {asked[c]},
         confirmed \subseteq confirmed', confirmed' \subseteq confirmed \union {asked[c]},
         known' \subseteq confirmed',
         UNCHANGED <<late, upstream>>,
         s \in {"api", "absent"} => ~Settled(asked[c]),
         s = "save" => asked[c] \in confirmed',
         s = "saved" => asked[c] \in known'
  PROVE  IInv'
  <1> USE DEF Advance
  <1>1. asked[c] \in Ids
    BY LeaderIsAlone
  <1>2. TypeOK'
    BY <1>1 DEF IInv, TypeOK, Stages, Leading
  <1>3. AskedWhileBusy'
    BY DEF IInv, TypeOK, AskedWhileBusy, Leading
  <1>4. SingleFlight'
    BY DEF IInv, TypeOK, SingleFlight
  <1>5. LeaderWorksOnAMiss'
    BY DEF IInv, LeaderWorksOnAMiss
  <1>6. PositiveIsPersisted'
    BY DEF IInv, TypeOK, PositiveIsPersisted, Leading
  <1>7. ConfirmedFirst'
    BY DEF IInv, TypeOK, ConfirmedFirst
  <1>8. SettledIsFinal'
    <2>1. \A id \in Ids : Settled(id)' => Settled(id)
      BY DEF IInv, TypeOK, Settled, Leading
    <2> QED
      BY <2>1 DEF IInv, TypeOK, SettledIsFinal
  <1>9. WarnedWasTold'
    BY DEF IInv, WarnedWasTold
  <1>10. NoRetraction'
    BY <1>1 DEF IInv, TypeOK, NoRetraction, WarnedWasTold, Settled, Leading
  <1> QED
    BY <1>2, <1>3, <1>4, <1>5, <1>6, <1>7, <1>8, <1>9, <1>10 DEF IInv

(* The closure ends and everyone who waits is handed the outcome.  It may only *)
(* be "found" for an ID with its row, and "not found" for one not settled.     *)
LEMMA PublishStep ==
  ASSUME IInv, NEW c \in Callers, NEW v \in {"yes", "no", "error"},
         stage[c] \in Leading, Publish(c, v),
         cache' = IF v = "error" THEN cache ELSE [cache EXCEPT ![asked[c]] = v],
         age' = IF v = "error" THEN age ELSE [age EXCEPT ![asked[c]] = 0],
         UNCHANGED <<known, late, upstream, confirmed>>,
         v = "yes" => asked[c] \in known,
         v = "no" => ~Settled(asked[c])
  PROVE  IInv'
  <1> USE DEF Publish, Tell, Waiters
  <1>1. /\ asked[c] \in Ids
        /\ leader[asked[c]] = c
        /\ \A d \in Callers : d # c /\ asked[d] = asked[c] => stage[d] \notin Leading
    BY LeaderIsAlone
  <1>2. TypeOK'
    BY <1>1 DEF IInv, TypeOK, Stages, Verdicts
  <1>3. AskedWhileBusy'
    BY DEF IInv, TypeOK, AskedWhileBusy, Leading
  <1>4. SingleFlight'
    BY <1>1 DEF IInv, TypeOK, SingleFlight, Leading
  <1>5. LeaderWorksOnAMiss'
    BY <1>1 DEF IInv, TypeOK, LeaderWorksOnAMiss
  <1>6. PositiveIsPersisted'
    BY <1>1 DEF IInv, TypeOK, PositiveIsPersisted, Leading
  <1>7. ConfirmedFirst'
    BY <1>1 DEF IInv, TypeOK, ConfirmedFirst
  <1>8. ASSUME NEW id \in Ids, Settled(id)'
        PROVE  Settled(id) \/ (id = asked[c] /\ v = "yes")
    BY <1>1, <1>8 DEF IInv, TypeOK, Settled
  <1>9. SettledIsFinal'
    BY <1>1, <1>8 DEF IInv, TypeOK, SettledIsFinal, Leading
  <1>10. WarnedWasTold'
    BY DEF IInv, TypeOK, WarnedWasTold
  <1>11. NoRetraction'
    BY <1>1 DEF IInv, TypeOK, NoRetraction, WarnedWasTold, Settled, Leading
  <1> QED
    BY <1>2, <1>3, <1>4, <1>5, <1>6, <1>7, <1>9, <1>10, <1>11 DEF IInv

(* The closure answers from the table only what the table holds, and passes it *)
(* only for an ID that is not settled.                                         *)
LEMMA QueryDbStep ==
  ASSUME IInv, NEW c \in Callers, QueryDb(c)
  PROVE  IInv'
  <1>1. stage[c] \in Leading /\ asked[c] \in Ids
    BY LeaderIsAlone DEF QueryDb, Leading
  <1>2. CASE asked[c] \in known /\ Resolve(c, "yes")
    BY <1>1, <1>2, PublishStep DEF QueryDb, Resolve
  <1>3. CASE asked[c] \notin known /\ Advance(c, "api")
    <2>1. ~Settled(asked[c])
      BY <1>1, <1>3 DEF IInv, SettledIsFinal
    <2>2. known \subseteq confirmed
      BY DEF IInv, ConfirmedFirst
    <2> QED
      BY <1>1, <1>3, <2>1, <2>2, AdvanceStep DEF QueryDb, Leading
  <1>4. CASE Fail(c)
    BY <1>1, <1>4, PublishStep DEF QueryDb, Fail
  <1> QED
    BY <1>2, <1>3, <1>4 DEF QueryDb

(* The API's three outcomes, and the way of its "not found" to the caller.     *)
LEMMA ApiStep ==
  ASSUME IInv, NEW c \in Callers,
         ApiFinds(c) \/ ApiDenies(c) \/ ApiFails(c) \/ AnswerAbsent(c)
  PROVE  IInv'
  <1>1. stage[c] \in Leading /\ stage[c] \in {"api", "absent"} /\ asked[c] \in Ids
    BY LeaderIsAlone DEF ApiFinds, ApiDenies, ApiFails, AnswerAbsent, Leading
  <1>2. ~Settled(asked[c])
    BY <1>1 DEF IInv, SettledIsFinal
  <1>3. known \subseteq confirmed
    BY DEF IInv, ConfirmedFirst
  <1>4. CASE ApiFinds(c)
    BY <1>1, <1>3, <1>4, AdvanceStep DEF ApiFinds, Leading
  <1>5. CASE ApiDenies(c)
    BY <1>1, <1>2, <1>3, <1>5, AdvanceStep DEF ApiDenies, Leading
  <1>6. CASE ApiFails(c)
    BY <1>1, <1>6, PublishStep DEF ApiFails, Fail
  <1>7. CASE AnswerAbsent(c)
    BY <1>1, <1>2, <1>7, PublishStep DEF AnswerAbsent, Resolve
  <1> QED
    BY <1>4, <1>5, <1>6, <1>7

(* The INSERT commits a confirmed ID, and "found" follows it.                  *)
LEMMA SaveStep ==
  ASSUME IInv, NEW c \in Callers, Save(c) \/ AnswerSaved(c)
  PROVE  IInv'
  <1>1. stage[c] \in Leading
    BY DEF Save, AnswerSaved, Leading
  <1>2. known \subseteq confirmed
    BY DEF IInv, ConfirmedFirst
  <1>3. CASE Save(c) /\ known' = known \union {asked[c]} /\ Advance(c, "saved")
    <2>1. asked[c] \in confirmed
      BY <1>3 DEF Save, IInv, ConfirmedFirst
    <2> QED
      BY <1>1, <1>2, <1>3, <2>1, AdvanceStep DEF Save, Leading
  <1>4. CASE Save(c) /\ Fail(c) /\ UNCHANGED known
    BY <1>1, <1>4, PublishStep DEF Save, Fail
  <1>5. CASE AnswerSaved(c)
    <2>1. asked[c] \in known
      BY <1>5 DEF AnswerSaved, IInv, PositiveIsPersisted
    <2> QED
      BY <1>1, <1>5, <2>1, PublishStep DEF AnswerSaved, Resolve
  <1> QED
    BY <1>3, <1>4, <1>5 DEF Save

(* The INSERT of a dropped caller only adds a confirmed ID to the table.       *)
LEMMA LateInsertStep ==
  ASSUME IInv, NEW id \in Ids, LateInsert(id)
  PROVE  IInv'
  <1> USE DEF LateInsert
  <1>1. TypeOK' /\ AskedWhileBusy' /\ SingleFlight' /\ LeaderWorksOnAMiss'
    BY DEF IInv, TypeOK, AskedWhileBusy, SingleFlight, LeaderWorksOnAMiss
  <1>2. PositiveIsPersisted' /\ ConfirmedFirst'
    BY DEF IInv, PositiveIsPersisted, ConfirmedFirst
  <1>3. SettledIsFinal'
    BY DEF IInv, SettledIsFinal, Settled
  <1>4. WarnedWasTold' /\ NoRetraction'
    BY DEF IInv, WarnedWasTold, NoRetraction
  <1> QED
    BY <1>1, <1>2, <1>3, <1>4 DEF IInv

(* Entries are taken out of the cache, and never put in, by age and by evictions. *)
LEMMA ExpiryStep ==
  ASSUME IInv, age' \in [Ids -> 0..(TTL - 1)],
         cache' \in [Ids -> {"empty", "yes", "no"}],
         \A id \in Ids : cache'[id] \in {"empty", cache[id]},
         UNCHANGED <<leader, known, late, stage, asked, verdict, upstream,
                     confirmed, told, warned>>
  PROVE  IInv'
  <1>1. TypeOK' /\ AskedWhileBusy' /\ SingleFlight' /\ LeaderWorksOnAMiss'
    BY DEF IInv, TypeOK, AskedWhileBusy, SingleFlight, LeaderWorksOnAMiss
  <1>2. PositiveIsPersisted' /\ ConfirmedFirst'
    BY DEF IInv, PositiveIsPersisted, ConfirmedFirst
  <1>3. SettledIsFinal'
    BY DEF IInv, SettledIsFinal, Settled
  <1>4. WarnedWasTold'
    BY DEF IInv, WarnedWasTold
  <1>5. NoRetraction'
    <2>1. \A c \in Callers : stage[c] = "waiting" => asked[c] \in Ids
      BY BusyAsks
    <2> QED
      BY <2>1 DEF IInv, NoRetraction
  <1> QED
    BY <1>1, <1>2, <1>3, <1>4, <1>5 DEF IInv

(* A restart leaves the table and idle callers.                                *)
LEMMA CrashStep == IInv /\ Crash => IInv'
  BY DEF Crash, IInv, TypeOK, Stages, Verdicts, Leading, AskedWhileBusy,
         SingleFlight, LeaderWorksOnAMiss, PositiveIsPersisted, ConfirmedFirst,
         Settled, SettledIsFinal, WarnedWasTold, NoRetraction

(* What the API would answer is read by no invariant, nor is anything outside  *)
(* the variables.                                                              *)
LEMMA QuietStep ==
  ASSUME IInv, upstream' \subseteq Ids,
         UNCHANGED <<cache, age, leader, known, late, stage, asked, verdict,
                     confirmed, told, warned>>
  PROVE  IInv'
  BY DEF IInv, TypeOK, AskedWhileBusy, SingleFlight, LeaderWorksOnAMiss,
         PositiveIsPersisted, ConfirmedFirst, Settled, SettledIsFinal,
         WarnedWasTold, NoRetraction

(* Ages stay below TTL.                                                        *)
LEMMA TickStep == IInv /\ Tick => IInv'
  <1> SUFFICES ASSUME IInv, Tick PROVE IInv'
    OBVIOUS
  <1>1. cache' \in [Ids -> {"empty", "yes", "no"}] /\ age' \in [Ids -> 0..(TTL - 1)]
    BY DEF IInv, TypeOK, Tick, Expires
  <1>2. \A id \in Ids : cache'[id] \in {"empty", cache[id]}
    BY DEF Tick
  <1> QED
    BY <1>1, <1>2, ExpiryStep DEF Tick

(* An eviction is an expiry at any age.                                        *)
LEMMA EvictStep ==
  ASSUME IInv, NEW id \in Ids, Evict(id)
  PROVE  IInv'
  <1>1. cache' \in [Ids -> {"empty", "yes", "no"}] /\ age' \in [Ids -> 0..(TTL - 1)]
    BY DEF IInv, TypeOK, Evict
  <1>2. \A i \in Ids : cache'[i] \in {"empty", cache[i]}
    BY DEF IInv, TypeOK, Evict
  <1> QED
    BY <1>1, <1>2, ExpiryStep DEF Evict

(* The inductive step, action by action.                                       *)
LEMMA NextIInv == IInv /\ [Next]_vars => IInv'
  <1> SUFFICES ASSUME IInv, [Next]_vars PROVE IInv'
    OBVIOUS
  <1>1. ASSUME NEW c \in Callers, NEW id \in Ids, Call(c, id)
        PROVE  IInv'
    BY <1>1, CallStep
  <1>2. ASSUME NEW c \in Callers,
               \/ Hit(c) \/ Lead(c) \/ Receive(c) \/ QueryDb(c)
               \/ ApiFinds(c) \/ ApiDenies(c) \/ ApiFails(c)
               \/ AnswerAbsent(c) \/ Save(c) \/ AnswerSaved(c) \/ Drop(c)
        PROVE  IInv'
    BY <1>2, AnswerStep, LeadStep, QueryDbStep, ApiStep, SaveStep, DropStep
  <1>3. ASSUME NEW id \in Ids, LateInsert(id) \/ Evict(id)
        PROVE  IInv'
    BY <1>3, LateInsertStep, EvictStep
  <1>4. ASSUME NEW id \in Ids, UpstreamChanges(id)
        PROVE  IInv'
    BY <1>4, QuietStep DEF UpstreamChanges, IInv, TypeOK
  <1>5. CASE Tick \/ Crash
    BY <1>5, TickStep, CrashStep
  <1>6. CASE UNCHANGED vars
    BY <1>6, QuietStep DEF vars, IInv, TypeOK
  <1> QED
    BY <1>1, <1>2, <1>3, <1>4, <1>5, <1>6 DEF Next

(* Every reachable state satisfies the inductive invariant.                    *)
THEOREM Inductive == Spec => []IInv
  BY InitIInv, NextIInv, PTL DEF Spec

(* Exactly one caller runs the closure for an ID, through errors and drops.    *)
THEOREM CoalescingHolds == Spec => []SingleFlight
  <1>1. IInv => SingleFlight
    BY DEF IInv
  <1> QED
    BY <1>1, Inductive, PTL

(* No caller is served an entry that a running closure contradicts.            *)
THEOREM ClosuresRunOnMisses == Spec => []LeaderWorksOnAMiss
  <1>1. IInv => LeaderWorksOnAMiss
    BY DEF IInv
  <1> QED
    BY <1>1, Inductive, PTL

(* Every "found" in the cache or on its way to a caller has its row.           *)
THEOREM PositivesArePersisted == Spec => []PositiveIsPersisted
  <1>1. IInv => PositiveIsPersisted
    BY DEF IInv
  <1> QED
    BY <1>1, Inductive, PTL

(* No call is answered "not found" after another was told "found".             *)
THEOREM NothingIsRetracted == Spec => []NoRetraction
  <1>1. IInv => NoRetraction
    BY DEF IInv
  <1> QED
    BY <1>1, Inductive, PTL

(* Only what is in the table is told, and nothing is taken out of it.          *)
LEMMA TellStep ==
  ASSUME NEW c \in Callers, NEW v \in Verdicts, Tell(c, v),
         v = "yes" => asked[c] \in known,
         asked[c] \in Ids, UNCHANGED <<known, confirmed>>
  PROVE  [Positive!Next]_(Positive!vars)
  BY DEF Tell, Positive!Next, Positive!Tell, Positive!vars

(* Every step of the lookup is a step of Registry or changes nothing in it.    *)
LEMMA RegistryStep == IInv /\ [Next]_vars => [Positive!Next]_(Positive!vars)
  <1> USE DEF Verdicts
  <1> SUFFICES ASSUME IInv, [Next]_vars PROVE [Positive!Next]_(Positive!vars)
    OBVIOUS
  <1>1. ASSUME NEW c \in Callers, Hit(c) \/ Receive(c)
        PROVE  [Positive!Next]_(Positive!vars)
    <2>1. asked[c] \in Ids
      BY <1>1, BusyAsks DEF Hit, Receive
    <2>2. CASE Hit(c)
      BY <2>1, <2>2, TellStep DEF Hit, IInv, TypeOK, PositiveIsPersisted
    <2>3. CASE Receive(c)
      BY <2>1, <2>3, TellStep DEF Receive, IInv, TypeOK, PositiveIsPersisted
    <2> QED
      BY <1>1, <2>2, <2>3
  <1>2. ASSUME NEW c \in Callers, QueryDb(c)
        PROVE  [Positive!Next]_(Positive!vars)
    <2>1. asked[c] \in Ids
      BY <1>2, BusyAsks DEF QueryDb
    <2>2. CASE asked[c] \in known /\ Resolve(c, "yes")
      BY <1>2, <2>1, <2>2, TellStep DEF QueryDb, Resolve, Publish
    <2>3. CASE Advance(c, "api")
      BY <1>2, <2>3 DEF QueryDb, Advance, Positive!vars
    <2>4. CASE Fail(c)
      BY <1>2, <2>1, <2>4, TellStep DEF QueryDb, Fail, Publish
    <2> QED
      BY <1>2, <2>2, <2>3, <2>4 DEF QueryDb
  <1>3. ASSUME NEW c \in Callers, ApiFinds(c)
        PROVE  [Positive!Next]_(Positive!vars)
    <2>1. asked[c] \in Ids
      BY <1>3, BusyAsks DEF ApiFinds
    <2> QED
      BY <1>3, <2>1 DEF ApiFinds, Advance, Positive!Next, Positive!Confirm
  <1>4. ASSUME NEW c \in Callers, ApiDenies(c) \/ ApiFails(c) \/ AnswerAbsent(c)
        PROVE  [Positive!Next]_(Positive!vars)
    BY <1>4 DEF ApiDenies, ApiFails, AnswerAbsent, Advance, Fail, Resolve,
                Publish, Tell, Positive!vars
  <1>5. ASSUME NEW c \in Callers, Save(c)
        PROVE  [Positive!Next]_(Positive!vars)
    <2>1. asked[c] \in confirmed
      BY <1>5 DEF Save, IInv, ConfirmedFirst
    <2>2. CASE known' = known \union {asked[c]} /\ Advance(c, "saved")
      BY <1>5, <2>1, <2>2 DEF Save, Advance, Positive!Next, Positive!Persist
    <2>3. CASE Fail(c) /\ UNCHANGED known
      BY <1>5, <2>3 DEF Save, Fail, Publish, Tell, Positive!vars
    <2> QED
      BY <1>5, <2>2, <2>3 DEF Save
  <1>6. ASSUME NEW c \in Callers, AnswerSaved(c)
        PROVE  [Positive!Next]_(Positive!vars)
    <2>1. asked[c] \in Ids
      BY <1>6, BusyAsks DEF AnswerSaved
    <2>2. asked[c] \in known
      BY <1>6 DEF AnswerSaved, IInv, PositiveIsPersisted
    <2> QED
      BY <1>6, <2>1, <2>2, TellStep DEF AnswerSaved, Resolve, Publish
  <1>7. ASSUME NEW id \in Ids, LateInsert(id)
        PROVE  [Positive!Next]_(Positive!vars)
    <2>1. id \in confirmed
      BY <1>7 DEF LateInsert, IInv, ConfirmedFirst
    <2> QED
      BY <1>7, <2>1 DEF LateInsert, Positive!Next, Positive!Persist
  <1>8. CASE \/ \E c \in Callers : (\E id \in Ids : Call(c, id)) \/ Lead(c) \/ Drop(c)
             \/ \E id \in Ids : Evict(id) \/ UpstreamChanges(id)
             \/ Tick \/ Crash \/ UNCHANGED vars
    BY <1>8 DEF Call, Lead, Drop, Evict, UpstreamChanges, Tick, Crash, vars,
                Positive!vars
  <1> QED
    BY <1>1, <1>2, <1>3, <1>4, <1>5, <1>6, <1>7, <1>8 DEF Next

(* The lookup implements Registry: an ID is persisted only after the API       *)
(* confirmed it, told only when persisted, and nothing is ever taken back.     *)
THEOREM ImplementsRegistry == Spec => RegistrySpec
  <1>1. Init => Positive!Init
    BY DEF Init, Positive!Init
  <1> QED
    BY <1>1, Inductive, RegistryStep, PTL DEF Spec, RegistrySpec, Positive!Spec

(* Registry keeps what it is for: whoever is told "found" is told of a         *)
(* persisted ID, and only confirmed IDs are persisted.                         *)
THEOREM RegistryIsSound == RegistrySpec => [](told \subseteq known /\ known \subseteq confirmed)
  <1>1. Positive!Init => told \subseteq known /\ known \subseteq confirmed
    BY DEF Positive!Init
  <1>2. /\ told \subseteq known /\ known \subseteq confirmed
        /\ [Positive!Next]_(Positive!vars)
        => (told \subseteq known /\ known \subseteq confirmed)'
    BY DEF Positive!Next, Positive!Confirm, Positive!Persist, Positive!Tell, Positive!vars
  <1> QED
    BY <1>1, <1>2, PTL DEF RegistrySpec, Positive!Spec

--------------------------------------------------------------------------------
(* What a call that returns may say, which is all that its callers see: yes    *)
(* about an ID in the table, no only if nobody had been told yes at the call.  *)
ReturnsWell(c) ==
    stage[c] # "idle" /\ stage'[c] = "idle" =>
        /\ verdict'[c] = "yes" => asked[c] \in known
        /\ verdict'[c] = "no" => ~warned[c]

(* Of the callers of an ID whose closure ends, only its leader returns.        *)
LEMMA PublishReturns ==
  ASSUME IInv, NEW c \in Callers, NEW v \in Verdicts, Publish(c, v),
         v = "yes" => asked[c] \in known, v = "no" => ~warned[c]
  PROVE  \A d \in Callers : ReturnsWell(d)
  BY DEF Publish, ReturnsWell, Waiters, IInv, TypeOK

(* A caller that takes an outcome, or is dropped, returns alone.               *)
LEMMA FinishReturns ==
  ASSUME IInv, NEW c \in Callers, NEW v \in Verdicts, Finish(c, v),
         v = "yes" => asked[c] \in known, v = "no" => ~warned[c]
  PROVE  \A d \in Callers : ReturnsWell(d)
  BY DEF Finish, ReturnsWell, IInv, TypeOK

(* No step returns an answer against the contract.                             *)
LEMMA ReturnStep == IInv /\ [Next]_vars => \A c \in Callers : ReturnsWell(c)
  <1> SUFFICES ASSUME IInv, [Next]_vars PROVE \A c \in Callers : ReturnsWell(c)
    OBVIOUS
  <1> USE DEF Verdicts
  <1>1. ASSUME NEW c \in Callers, Hit(c)
        PROVE  \A d \in Callers : ReturnsWell(d)
    <2>1. asked[c] \in Ids
      BY <1>1, BusyAsks DEF Hit
    <2>2. cache[asked[c]] \in {"yes", "no"}
      BY <1>1, <2>1 DEF Hit, IInv, TypeOK
    <2> QED
      BY <1>1, <2>1, <2>2, FinishReturns DEF Hit, IInv, PositiveIsPersisted, NoRetraction
  <1>2. ASSUME NEW c \in Callers, Receive(c)
        PROVE  \A d \in Callers : ReturnsWell(d)
    BY <1>2, FinishReturns DEF Receive, IInv, TypeOK, PositiveIsPersisted, NoRetraction
  <1>3. ASSUME NEW c \in Callers, QueryDb(c) \/ ApiFails(c) \/ Save(c)
        PROVE  \A d \in Callers : ReturnsWell(d)
    <2>1. CASE asked[c] \in known /\ Resolve(c, "yes")
      BY <2>1, PublishReturns DEF Resolve
    <2>2. CASE Fail(c)
      BY <2>2, PublishReturns DEF Fail
    <2>3. CASE Advance(c, "api") \/ Advance(c, "saved")
      BY <2>3 DEF Advance, ReturnsWell, IInv, TypeOK
    <2> QED
      BY <1>3, <2>1, <2>2, <2>3 DEF QueryDb, ApiFails, Save
  <1>4. ASSUME NEW c \in Callers, AnswerAbsent(c)
        PROVE  \A d \in Callers : ReturnsWell(d)
    BY <1>4, PublishReturns DEF AnswerAbsent, Resolve, IInv, NoRetraction
  <1>5. ASSUME NEW c \in Callers, AnswerSaved(c)
        PROVE  \A d \in Callers : ReturnsWell(d)
    BY <1>5, PublishReturns DEF AnswerSaved, Resolve, IInv, PositiveIsPersisted
  <1>6. ASSUME NEW c \in Callers, Drop(c)
        PROVE  \A d \in Callers : ReturnsWell(d)
    BY <1>6, FinishReturns DEF Drop
  <1>7. ASSUME NEW c \in Callers, \/ ApiFinds(c) \/ ApiDenies(c) \/ Lead(c)
                                \/ \E id \in Ids : Call(c, id)
        PROVE  \A d \in Callers : ReturnsWell(d)
    BY <1>7 DEF ApiFinds, ApiDenies, Lead, Call, Advance, ReturnsWell, IInv, TypeOK
  <1>8. CASE Crash
    BY <1>8 DEF Crash, ReturnsWell
  <1>9. CASE \/ \E id \in Ids : LateInsert(id) \/ Evict(id) \/ UpstreamChanges(id)
             \/ Tick \/ UNCHANGED vars
    BY <1>9 DEF LateInsert, Evict, UpstreamChanges, Tick, vars, ReturnsWell
  <1> QED
    BY <1>1, <1>2, <1>3, <1>4, <1>5, <1>6, <1>7, <1>8, <1>9 DEF Next

(* Every caller of check_user, whether a handler of the bot, the HTTP API or   *)
(* the scan, is answered so.                                                   *)
THEOREM LookupKeepsItsContract == Spec => [][\A c \in Callers : ReturnsWell(c)]_vars
  <1>1. IInv /\ [Next]_vars => [\A c \in Callers : ReturnsWell(c)]_vars
    BY ReturnStep
  <1> QED
    BY <1>1, Inductive, PTL DEF Spec
================================================================================
