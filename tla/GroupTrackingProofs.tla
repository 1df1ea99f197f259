--------------------------- MODULE GroupTrackingProofs -------------------------
(* Proofs about GroupTracking, for any chats and users and any life of a dedup *)
(* entry: mark, row and membership agree but for the pairs that are busy or    *)
(* behind, and a scan skips no chat.                                           *)
EXTENDS GroupTracking, TLAPS

USE MarkTTLAssumption, NoChatAssumption

(* The handlers of a chat run one after the other, and each of them writes one *)
(* row at a time.                                                              *)
OneWriteAtATime ==
    \A c \in Chats : /\ \A u, v \in writing[c] : u = v
                     /\ \A u, v \in leaving[c] : u = v
                     /\ leaving[c] # {} => tracking[c] = {} /\ writing[c] = {}

(* While the row of somebody who left is soft-deleted, no mark stands for it.  *)
LeaverIsUnmarked == \A c \in Chats, u \in Users : u \in leaving[c] => mark[<<c, u>>] = 0

(* Who is about to be tracked is a member, unless something went on unseen.    *)
TrackedIsMember ==
    \A c \in Chats, u \in Users :
        u \in tracking[c] \union writing[c] => <<c, u>> \in present \union behind

IInv == /\ TypeOK
        /\ OneWriteAtATime
        /\ LeaverIsUnmarked
        /\ TrackedIsMember
        /\ DedupHidesOnlyTracked
        /\ LeaverIsInactive

(* Each conjunct of the invariant, with what it speaks of. *)
LEMMA InitIInv == Init => IInv
  BY DEF Init, IInv, TypeOK, ScanStages, OneWriteAtATime, LeaverIsUnmarked,
         TrackedIsMember, DedupHidesOnlyTracked, LeaverIsInactive, Busy, Pairs

(* A message, whose sender may be marked and is written after that.            *)
LEMMA MessageStep ==
  ASSUME IInv, NEW c \in Chats, NEW u \in Users, Message(c, u)
  PROVE  IInv'
  <1> USE DEF IInv, TypeOK, Message, Free, scanner
  <1>1. TypeOK'
    <2>1. MarkTTL \in 0..MarkTTL /\ <<c, u>> \in Pairs
      BY DEF Pairs
    <2>2. mark' \in [Pairs -> 0..MarkTTL] /\ writing' \in [Chats -> SUBSET Users]
      BY <2>1
    <2> QED
      BY <2>2
  <1>2. OneWriteAtATime'
    BY DEF OneWriteAtATime
  <1>3. LeaverIsUnmarked'
    BY DEF LeaverIsUnmarked, Pairs
  <1>4. TrackedIsMember'
    BY DEF TrackedIsMember
  <1>5. DedupHidesOnlyTracked'
    BY DEF DedupHidesOnlyTracked, Busy, Pairs
  <1>6. LeaverIsInactive'
    BY DEF LeaverIsInactive, Busy
  <1> QED
    BY <1>1, <1>2, <1>3, <1>4, <1>5, <1>6

(* Those who join are members from now on, and are tracked one by one.         *)
LEMMA JoinStep ==
  ASSUME IInv, NEW c \in Chats, NEW us \in SUBSET Users, MembersJoin(c, us)
  PROVE  IInv'
  <1> USE DEF IInv, TypeOK, MembersJoin, Free, scanner
  <1>1. TypeOK'
    BY DEF Pairs
  <1>2. OneWriteAtATime'
    BY DEF OneWriteAtATime
  <1>3. LeaverIsUnmarked'
    BY DEF LeaverIsUnmarked
  <1>4. TrackedIsMember'
    BY DEF TrackedIsMember
  <1>5. DedupHidesOnlyTracked'
    BY DEF DedupHidesOnlyTracked, Busy
  <1>6. LeaverIsInactive'
    BY DEF LeaverIsInactive, Busy
  <1> QED
    BY <1>1, <1>2, <1>3, <1>4, <1>5, <1>6

(* The next of those who joined: marked, and about to be written.              *)
LEMMA TrackNextStep ==
  ASSUME IInv, NEW c \in Chats, NEW u \in Users, TrackNext(c, u)
  PROVE  IInv'
  <1> USE DEF IInv, TypeOK, TrackNext, scanner
  <1>1. TypeOK'
    BY DEF Pairs
  <1>2. OneWriteAtATime'
    BY DEF OneWriteAtATime
  <1>3. LeaverIsUnmarked'
    BY DEF LeaverIsUnmarked, OneWriteAtATime, Pairs
  <1>4. TrackedIsMember'
    BY DEF TrackedIsMember
  <1>5. DedupHidesOnlyTracked'
    BY DEF DedupHidesOnlyTracked, Busy, Pairs
  <1>6. LeaverIsInactive'
    BY DEF LeaverIsInactive, Busy
  <1> QED
    BY <1>1, <1>2, <1>3, <1>4, <1>5, <1>6

(* The mark goes before the row is soft-deleted.                               *)
LEMMA LeaveStep ==
  ASSUME IInv, NEW c \in Chats, NEW u \in Users, MemberLeaves(c, u)
  PROVE  IInv'
  <1> USE DEF IInv, TypeOK, MemberLeaves, Free, scanner
  <1>1. TypeOK'
    BY DEF Pairs
  <1>2. OneWriteAtATime'
    BY DEF OneWriteAtATime
  <1>3. LeaverIsUnmarked'
    BY DEF LeaverIsUnmarked, Pairs
  <1>4. TrackedIsMember'
    BY DEF TrackedIsMember
  <1>5. DedupHidesOnlyTracked'
    BY DEF DedupHidesOnlyTracked, Busy, Pairs
  <1>6. LeaverIsInactive'
    BY DEF LeaverIsInactive, Busy
  <1> QED
    BY <1>1, <1>2, <1>3, <1>4, <1>5, <1>6

(* A write concerns one pair, which is not busy any more when it is over.      *)
LEMMA WriteFrame ==
  ASSUME IInv, NEW c \in Chats, NEW u \in Users, Track(c, u) \/ Untrack(c, u)
  PROVE  /\ rows' \in [Pairs -> {"none", "active", "inactive"}]
         /\ behind' \subseteq Pairs
         /\ \A d \in Chats, v \in Users : <<d, v>> # <<c, u>> =>
               /\ rows'[<<d, v>>] = rows[<<d, v>>]
               /\ <<d, v>> \in behind' <=> <<d, v>> \in behind
               /\ Busy(d, v)' <=> Busy(d, v)
  <1> USE DEF IInv, TypeOK, Track, Untrack, Settle, FallBehind, scanner
  <1>1. rows' \in [Pairs -> {"none", "active", "inactive"}] /\ behind' \subseteq Pairs
    BY DEF Pairs
  <1>2. ASSUME NEW d \in Chats, NEW v \in Users, <<d, v>> # <<c, u>>
        PROVE  /\ rows'[<<d, v>>] = rows[<<d, v>>]
               /\ <<d, v>> \in behind' <=> <<d, v>> \in behind
    BY <1>2 DEF Pairs
  <1>3. ASSUME NEW d \in Chats, NEW v \in Users, <<d, v>> # <<c, u>>
        PROVE  Busy(d, v)' <=> Busy(d, v)
    BY <1>3 DEF Busy, OneWriteAtATime
  <1> QED
    BY <1>1, <1>2, <1>3

(* The row of a member becomes active, or lags.                                *)
LEMMA TrackStep ==
  ASSUME IInv, NEW c \in Chats, NEW u \in Users, Track(c, u)
  PROVE  IInv'
  <1> USE DEF IInv, TypeOK, Track, Settle, FallBehind, scanner
  <1>1. TypeOK'
    BY WriteFrame
  <1>2. OneWriteAtATime'
    BY DEF OneWriteAtATime
  <1>3. LeaverIsUnmarked'
    BY DEF LeaverIsUnmarked
  <1>4. TrackedIsMember'
    BY DEF TrackedIsMember
  <1>5. rows'[<<c, u>>] = "active" \/ <<c, u>> \in behind'
    BY DEF Pairs
  <1>6. DedupHidesOnlyTracked'
    BY <1>5, WriteFrame DEF DedupHidesOnlyTracked
  <1>7. <<c, u>> \in present \/ <<c, u>> \in behind'
    BY DEF TrackedIsMember
  <1>8. LeaverIsInactive'
    BY <1>7, WriteFrame DEF LeaverIsInactive
  <1> QED
    BY <1>1, <1>2, <1>3, <1>4, <1>6, <1>8

(* The row of somebody who left becomes inactive, or lags.                     *)
LEMMA UntrackStep ==
  ASSUME IInv, NEW c \in Chats, NEW u \in Users, Untrack(c, u)
  PROVE  IInv'
  <1> USE DEF IInv, TypeOK, Untrack, Settle, FallBehind, scanner
  <1>1. TypeOK'
    BY WriteFrame
  <1>2. OneWriteAtATime'
    BY DEF OneWriteAtATime
  <1>3. LeaverIsUnmarked'
    BY DEF LeaverIsUnmarked
  <1>4. TrackedIsMember'
    BY DEF TrackedIsMember, OneWriteAtATime
  <1>5. mark'[<<c, u>>] = 0
    BY DEF LeaverIsUnmarked
  <1>6. DedupHidesOnlyTracked'
    <2>1. ASSUME NEW d \in Chats, NEW v \in Users, <<d, v>> # <<c, u>>,
                 mark'[<<d, v>>] > 0, ~Busy(d, v)', <<d, v>> \notin behind'
          PROVE  rows'[<<d, v>>] = "active"
      BY <2>1, WriteFrame DEF DedupHidesOnlyTracked
    <2> QED
      BY <1>5, <2>1 DEF DedupHidesOnlyTracked
  <1>7. rows'[<<c, u>>] # "active" \/ <<c, u>> \in behind'
    BY DEF Pairs
  <1>8. LeaverIsInactive'
    BY <1>7, WriteFrame DEF LeaverIsInactive
  <1> QED
    BY <1>1, <1>2, <1>3, <1>4, <1>6, <1>8

(* The steps of the scan that only look at the tables.                         *)
LEMMA ScanStep ==
  ASSUME IInv,
         \/ ScanStarts \/ ScanEnds \/ ScanSelects
         \/ \E c \in Chats : ScanVisits(c)
         \/ \E hits \in SUBSET Users : ScanChecks(hits)
         \/ ReportDelivered \/ ReportFails \/ ReportRefused
  PROVE  IInv'
  <1>1. UNCHANGED <<botIn, present, rows, mark, handlers, behind>>
    BY DEF ScanStarts, ScanEnds, ScanSelects, ScanVisits, ScanChecks, ReportDelivered,
           ReportFails, ReportRefused
  <1>2. /\ scan' \in ScanStages
        /\ queue' \subseteq Chats
        /\ at' \in Chats \union {NoChat}
        /\ members' \subseteq Users
    BY DEF IInv, TypeOK, ScanStages, ActiveUsers, LeaveChat, ScanStarts, ScanEnds,
           ScanSelects, ScanVisits, ScanChecks, ReportDelivered, ReportFails, ReportRefused
  <1>3. TypeOK'
    BY <1>1, <1>2 DEF IInv, TypeOK, handlers
  <1>4. OneWriteAtATime' /\ LeaverIsUnmarked' /\ TrackedIsMember'
    BY <1>1 DEF IInv, OneWriteAtATime, LeaverIsUnmarked, TrackedIsMember, handlers
  <1>5. DedupHidesOnlyTracked' /\ LeaverIsInactive'
    BY <1>1 DEF IInv, DedupHidesOnlyTracked, LeaverIsInactive, Busy, handlers
  <1> QED
    BY <1>3, <1>4, <1>5 DEF IInv

(* The rows of a chat go inactive, and lag from then on.                       *)
LEMMA DeactivateStep ==
  ASSUME IInv, Deactivate
  PROVE  IInv'
  <1> USE DEF IInv, TypeOK, Deactivate, LeaveChat, Row, handlers
  <1>1. TypeOK'
    BY DEF ScanStages
  <1>2. OneWriteAtATime' /\ LeaverIsUnmarked'
    BY DEF OneWriteAtATime, LeaverIsUnmarked
  <1>3. TrackedIsMember'
    BY DEF TrackedIsMember
  <1>4. DedupHidesOnlyTracked'
    BY DEF DedupHidesOnlyTracked, Busy, Pairs
  <1>5. LeaverIsInactive'
    BY DEF LeaverIsInactive, Busy, Pairs
  <1> QED
    BY <1>1, <1>2, <1>3, <1>4, <1>5

(* Marks expire.                                                               *)
LEMMA TickStep ==
  ASSUME IInv, Tick
  PROVE  IInv'
  <1> USE DEF IInv, TypeOK, Tick, handlers, scanner
  <1>1. TypeOK'
    OBVIOUS
  <1>2. OneWriteAtATime' /\ TrackedIsMember' /\ LeaverIsInactive'
    BY DEF OneWriteAtATime, TrackedIsMember, LeaverIsInactive, Busy
  <1>3. LeaverIsUnmarked'
    BY DEF LeaverIsUnmarked, Pairs
  <1>4. DedupHidesOnlyTracked'
    BY DEF DedupHidesOnlyTracked, Busy, Pairs
  <1> QED
    BY <1>1, <1>2, <1>3, <1>4

(* The marks are gone, and whatever was being handled lags.                    *)
LEMMA CrashStep ==
  ASSUME IInv, Crash
  PROVE  IInv'
  <1> USE DEF IInv, TypeOK, Crash
  <1>1. TypeOK'
    BY DEF ScanStages
  <1>2. OneWriteAtATime' /\ LeaverIsUnmarked' /\ TrackedIsMember'
    BY DEF OneWriteAtATime, LeaverIsUnmarked, TrackedIsMember
  <1>3. DedupHidesOnlyTracked'
    BY DEF DedupHidesOnlyTracked, Pairs
  <1>4. LeaverIsInactive'
    BY DEF LeaverIsInactive, Busy, Pairs
  <1> QED
    BY <1>1, <1>2, <1>3, <1>4

(* The bot comes and goes, and so do members while it is out.                  *)
LEMMA MoveStep ==
  ASSUME IInv, NEW c \in Chats,
         BotMoves(c) \/ \E u \in Users : MovesUnseen(c, u)
  PROVE  IInv'
  <1> USE DEF IInv, TypeOK, BotMoves, MovesUnseen, handlers, scanner
  <1>1. TypeOK'
    BY DEF Pairs
  <1>2. OneWriteAtATime' /\ LeaverIsUnmarked'
    BY DEF OneWriteAtATime, LeaverIsUnmarked
  <1>3. TrackedIsMember'
    BY DEF TrackedIsMember
  <1>4. DedupHidesOnlyTracked'
    BY DEF DedupHidesOnlyTracked, Busy
  <1>5. LeaverIsInactive'
    BY DEF LeaverIsInactive, Busy
  <1> QED
    BY <1>1, <1>2, <1>3, <1>4, <1>5

(* Every step keeps the invariant.                                             *)
LEMMA NextIInv == IInv /\ [Next]_vars => IInv'
  <1> SUFFICES ASSUME IInv, [Next]_vars PROVE IInv'
    OBVIOUS
  <1>1. ASSUME NEW c \in Chats, NEW u \in Users,
               \/ Message(c, u) \/ TrackNext(c, u) \/ MemberLeaves(c, u)
               \/ Track(c, u) \/ Untrack(c, u) \/ MovesUnseen(c, u)
        PROVE  IInv'
    BY <1>1, MessageStep, TrackNextStep, LeaveStep, TrackStep, UntrackStep, MoveStep
  <1>2. ASSUME NEW c \in Chats,
               \/ \E us \in SUBSET Users : MembersJoin(c, us)
               \/ ScanVisits(c) \/ BotMoves(c)
        PROVE  IInv'
    BY <1>2, JoinStep, ScanStep, MoveStep
  <1>3. CASE \/ \E hits \in SUBSET Users : ScanChecks(hits)
             \/ ScanStarts \/ ScanEnds \/ ScanSelects
             \/ ReportDelivered \/ ReportFails \/ ReportRefused
    BY <1>3, ScanStep
  <1>4. CASE Deactivate \/ Tick \/ Crash
    BY <1>4, DeactivateStep, TickStep, CrashStep
  <1>5. CASE UNCHANGED vars
    BY <1>5 DEF vars, handlers, scanner, IInv, TypeOK, OneWriteAtATime, LeaverIsUnmarked,
                TrackedIsMember, DedupHidesOnlyTracked, LeaverIsInactive, Busy
  <1> QED
    BY <1>1, <1>2, <1>3, <1>4, <1>5 DEF Next

(* Every reachable state satisfies the invariant.                              *)
THEOREM Inductive == Spec => []IInv
  BY InitIInv, NextIInv, PTL DEF Spec

(* Type correctness.                                                           *)
THEOREM TypeCorrect == Spec => []TypeOK
  <1>1. IInv => TypeOK
    BY DEF IInv
  <1> QED
    BY <1>1, Inductive, PTL

(* The dedup cache hides a message only of somebody whose row is active, but   *)
(* for rows that lag.                                                          *)
THEOREM DedupIsSafe == Spec => []DedupHidesOnlyTracked
  <1>1. IInv => DedupHidesOnlyTracked
    BY DEF IInv
  <1> QED
    BY <1>1, Inductive, PTL

(* Who has left is not scanned any more, but for rows that lag.                *)
THEOREM LeaversAreInactive == Spec => []LeaverIsInactive
  <1>1. IInv => LeaverIsInactive
    BY DEF IInv
  <1> QED
    BY <1>1, Inductive, PTL

(* A scan ends only with its queue, or with the process.                       *)
THEOREM EveryChatIsVisited == Spec => NoChatIsSkipped
  <1>1. [Next]_vars => [scan # "idle" /\ scan' = "idle" => queue = {} \/ Crash]_vars
    BY DEF Next, Message, MembersJoin, TrackNext, MemberLeaves, Track, Untrack, MovesUnseen,
           BotMoves, Tick, ScanStarts, ScanEnds, ScanVisits, ScanSelects, ScanChecks,
           ReportDelivered, ReportFails, ReportRefused, Deactivate, LeaveChat, scanner
  <1> QED
    BY <1>1, PTL DEF Spec, NoChatIsSkipped

--------------------------------------------------------------------------------
(* The rows and the pairs that Roster speaks of.                               *)
Listed == {p \in Pairs : rows[p] = "active"}
Lagging == behind \union {p \in Pairs : Busy(p[1], p[2])}

(* A pair lags while a handler is busy with it, or when it is behind.          *)
LEMMA LaggingPairs ==
  /\ \A c \in Chats, u \in Users :
        <<c, u>> \in Lagging <=> Busy(c, u) \/ <<c, u>> \in behind
  /\ \A c \in Chats, u \in Users :
        <<c, u>> \in Lagging' <=> Busy(c, u)' \/ <<c, u>> \in behind'
  BY DEF Lagging, Pairs, Busy

(* No row is written, and whoever comes, goes or is taken up lags from now on. *)
LEMMA NoticeStep ==
  ASSUME IInv, IInv', rows' = rows,
         \A c \in Chats, u \in Users :
            /\ Busy(c, u) \/ <<c, u>> \in behind => Busy(c, u)' \/ <<c, u>> \in behind'
            /\ (<<c, u>> \in present) # (<<c, u>> \in present')
                  => Busy(c, u)' \/ <<c, u>> \in behind'
  PROVE  Membership!Notice
  <1>1. Listed' = Listed
    BY DEF Listed
  <1>2. \A p \in Pairs : \E c \in Chats, u \in Users : p = <<c, u>>
    BY DEF Pairs
  <1>3. Lagging \subseteq Pairs /\ present \subseteq Pairs /\ present' \subseteq Pairs
    BY DEF Lagging, IInv, TypeOK
  <1>4. Lagging \subseteq Lagging'
    BY <1>2, <1>3, LaggingPairs
  <1>5. present \ present' \subseteq Lagging' /\ present' \ present \subseteq Lagging'
    BY <1>2, <1>3, LaggingPairs
  <1> QED
    BY <1>1, <1>4, <1>5 DEF Membership!Notice, Listed, Lagging

(* One row is written, of a pair that lags and that nobody else is busy with.  *)
LEMMA WriteStep ==
  ASSUME IInv, NEW c \in Chats, NEW u \in Users, <<c, u>> \in Lagging,
         Listed' \in {Listed \union {<<c, u>>}, Listed \ {<<c, u>>}},
         Lagging' \in {Lagging, Lagging \ {<<c, u>>}},
         <<c, u>> \in Listed' => <<c, u>> \in present \union Lagging',
         UNCHANGED present
  PROVE  Membership!Write
  BY DEF Membership!Write, Listed, Lagging

(* A handler whose write fails leaves its pair behind.                         *)
LEMMA FailedWriteStep ==
  ASSUME IInv, IInv', NEW c \in Chats, NEW u \in Users, Track(c, u) \/ Untrack(c, u),
         UNCHANGED rows, FallBehind(<<c, u>>)
  PROVE  Membership!Notice
  <1> USE DEF IInv, TypeOK, Track, Untrack, FallBehind
  <1>1. \A d \in Chats, v \in Users :
           Busy(d, v) \/ <<d, v>> \in behind => Busy(d, v)' \/ <<d, v>> \in behind'
    BY DEF Busy, OneWriteAtATime
  <1> QED
    BY <1>1, NoticeStep

(* Sets that agree but for one member of the first.                            *)
LEMMA OneMemberMore ==
  ASSUME NEW S, NEW T, NEW x \in S, \A p : p # x => (p \in T <=> p \in S)
  PROVE  T \in {S, S \ {x}}
  <1>1. CASE x \in T
    BY <1>1
  <1>2. CASE x \notin T
    BY <1>2
  <1> QED
    BY <1>1, <1>2

(* A handler that writes leaves other pairs alone, and its own lagging unless  *)
(* the row is right.                                                           *)
LEMMA TrackWrites ==
  ASSUME IInv, IInv', NEW c \in Chats, NEW u \in Users,
         \/ /\ Track(c, u)
            /\ rows' = [rows EXCEPT ![<<c, u>>] = "active"]
            /\ Settle(<<c, u>>, <<c, u>> \in present)
         \/ /\ Untrack(c, u)
            /\ rows' = [rows EXCEPT ![<<c, u>>] = IF @ = "active" THEN "inactive" ELSE @]
            /\ Settle(<<c, u>>, <<c, u>> \notin present)
  PROVE  Membership!Write
  <1> USE DEF IInv, TypeOK
  <1>1. <<c, u>> \in Lagging
    BY LaggingPairs DEF Busy, Track, Untrack
  <1>2. Listed' \in {Listed \union {<<c, u>>}, Listed \ {<<c, u>>}}
    BY DEF Listed, Pairs
  <1>3. /\ behind' \in {behind, behind \ {<<c, u>>}}
        /\ \A d \in Chats, v \in Users :
              <<d, v>> # <<c, u>> => (Busy(d, v)' <=> Busy(d, v))
        /\ Busy(c, u)' => Busy(c, u)
    BY DEF Settle, Busy, Track, Untrack, OneWriteAtATime
  <1>4. Lagging' \in {Lagging, Lagging \ {<<c, u>>}}
    <2>1. \A p \in Pairs : \E d \in Chats, v \in Users : p = <<d, v>>
      BY DEF Pairs
    <2>2. Lagging \subseteq Pairs /\ Lagging' \subseteq Pairs
      BY DEF Lagging
    <2>3. \A p : p # <<c, u>> => (p \in Lagging' <=> p \in Lagging)
      BY <1>3, <2>1, <2>2, LaggingPairs
    <2> QED
      BY <1>1, <2>3, OneMemberMore
  <1>5. <<c, u>> \in Listed' => <<c, u>> \in present \union Lagging'
    <2>1. CASE Track(c, u) /\ <<c, u>> \notin present
      <3>1. <<c, u>> \in behind /\ behind' = behind
        BY <2>1 DEF Track, Untrack, TrackedIsMember, Settle, Busy, OneWriteAtATime
      <3> QED
        BY <3>1, LaggingPairs
    <2>2. CASE Untrack(c, u) /\ ~Track(c, u)
      BY <2>2 DEF Listed
    <2> QED
      BY <2>1, <2>2
  <1> QED
    BY <1>1, <1>2, <1>4, <1>5, WriteStep DEF Track, Untrack

(* The scan strikes off a chat, or fails to.                                   *)
LEMMA StrikeStep ==
  ASSUME IInv, IInv', Deactivate
  PROVE  [Membership!Next]_(Membership!vars)
  <1> USE DEF IInv, TypeOK, Deactivate, handlers
  <1>1. CASE UNCHANGED <<rows, behind>>
    BY <1>1, NoticeStep DEF Busy, Membership!Next
  <1>2. CASE /\ rows' = [p \in Pairs |-> IF p \in Row(at, "active") THEN "inactive" ELSE rows[p]]
             /\ behind' = behind \union Row(at, "active")
    <2>1. Row(at, "active") = Listed \intersect ({at} \X Users)
      BY DEF Row, Listed, Pairs
    <2>2. Listed' = Listed \ ({at} \X Users)
      BY <1>2, <2>1 DEF Listed, Pairs
    <2>3. Lagging' = Lagging \union (Listed \ Listed')
      BY <1>2, <2>1, <2>2 DEF Lagging, Busy
    <2>4. CASE at \in Chats
      BY <2>2, <2>3, <2>4 DEF Membership!Next, Membership!Strike, Listed, Lagging
    <2>5. CASE at = NoChat
      <3>1. Listed' = Listed /\ Lagging' = Lagging
        BY <2>2, <2>3, <2>5 DEF Listed, Pairs
      <3> QED
        BY <3>1 DEF Membership!vars, Listed, Lagging
    <2> QED
      BY <2>4, <2>5
  <1> QED
    BY <1>1, <1>2

(* Every step of the handlers, the scan and the process is one of Roster's.    *)
LEMMA RosterStep ==
  ASSUME IInv, IInv', [Next]_vars
  PROVE  [Membership!Next]_(Membership!vars)
  <1> USE DEF IInv, TypeOK
  <1>1. ASSUME NEW c \in Chats, NEW u \in Users, Track(c, u) \/ Untrack(c, u)
        PROVE  [Membership!Next]_(Membership!vars)
    BY <1>1, FailedWriteStep, TrackWrites DEF Track, Untrack, Membership!Next
  <1>2. ASSUME NEW c \in Chats,
               \/ \E us \in SUBSET Users : MembersJoin(c, us)
               \/ \E u \in Users : \/ Message(c, u) \/ TrackNext(c, u)
                                   \/ MemberLeaves(c, u) \/ MovesUnseen(c, u)
        PROVE  Membership!Notice
    <2>1. UNCHANGED rows /\ behind \subseteq behind'
      BY <1>2 DEF MembersJoin, Message, TrackNext, MemberLeaves, MovesUnseen
    <2>2. ASSUME NEW us \in SUBSET Users, MembersJoin(c, us)
          PROVE  Membership!Notice
      BY <2>1, <2>2, NoticeStep DEF MembersJoin, Free, Busy, Pairs
    <2>3. ASSUME NEW u \in Users, Message(c, u) \/ TrackNext(c, u)
          PROVE  Membership!Notice
      <3>1. \A d \in Chats, v \in Users : Busy(d, v) => Busy(d, v)'
        BY <2>3 DEF Message, TrackNext, Free, Busy
      <3> QED
        BY <2>1, <2>3, <3>1, NoticeStep DEF Message, TrackNext
    <2>4. ASSUME NEW u \in Users, MemberLeaves(c, u)
          PROVE  Membership!Notice
      BY <2>1, <2>4, NoticeStep DEF MemberLeaves, Free, Busy
    <2>5. ASSUME NEW u \in Users, MovesUnseen(c, u)
          PROVE  Membership!Notice
      BY <2>1, <2>5, NoticeStep DEF MovesUnseen, handlers, Busy
    <2> QED
      BY <1>2, <2>2, <2>3, <2>4, <2>5
  <1>3. CASE Crash
    BY <1>3, NoticeStep DEF Crash, Busy, Pairs, Membership!Next
  <1>4. CASE Deactivate
    BY <1>4, StrikeStep
  <1>5. CASE \/ \E c \in Chats : ScanVisits(c) \/ BotMoves(c)
             \/ \E hits \in SUBSET Users : ScanChecks(hits)
             \/ ScanStarts \/ ScanEnds \/ ScanSelects
             \/ ReportDelivered \/ ReportFails \/ ReportRefused
             \/ Tick \/ UNCHANGED vars
    BY <1>5 DEF ScanVisits, BotMoves, ScanChecks, ScanStarts, ScanEnds, ScanSelects,
                ReportDelivered, ReportFails, ReportRefused, Tick, vars, handlers,
                Membership!vars, Busy
  <1> QED
    BY <1>1, <1>2, <1>3, <1>4, <1>5 DEF Next, Membership!Next

(* Nothing is listed and nothing lags.                                         *)
LEMMA RosterInit == Init => Membership!Init
  BY DEF Init, Membership!Init, Membership!Pairs, Pairs, Busy

(* The handlers, the scan and the table implement Roster.                      *)
THEOREM ImplementsRoster == Spec => RosterSpec
  <1>1. IInv /\ IInv' /\ [Next]_vars => [Membership!Next]_(Membership!vars)
    BY RosterStep
  <1> QED
    BY <1>1, RosterInit, Inductive, PTL DEF Spec, RosterSpec, Membership!Spec

(* What Roster promises: whoever is listed is a member or lags.                *)
THEOREM RosterIsSound ==
  Membership!Spec => [](Listed \subseteq present \union Lagging)
  <1>1. Membership!Init => Listed \subseteq present \union Lagging
    BY DEF Membership!Init, Listed
  <1>2. /\ Listed \subseteq present \union Lagging
        /\ [Membership!Next]_(Membership!vars)
        => (Listed \subseteq present \union Lagging)'
    BY DEF Membership!Next, Membership!Notice, Membership!Write, Membership!Strike,
           Membership!vars, Listed, Lagging
  <1> QED
    BY <1>1, <1>2, PTL DEF Membership!Spec
================================================================================
