----------------------------- MODULE GroupTracking -----------------------------
(* Passive tracking of group members and the daily scan: the chat_members      *)
(* table (src/src/db.rs:157-211), the dedup cache in front of it, the three    *)
(* group handlers (src/src/bot_handler.rs:643-740) and the scan                *)
(* (src/src/scheduler.rs:59-158).                                              *)
(*                                                                             *)
(* The dispatcher runs the updates of one chat in their order and those of     *)
(* different chats concurrently; the scan runs beside all of them.  A handler  *)
(* changes the cache and then, after an await, the table, and the write may    *)
(* fail; the scan works from snapshots of the table.                           *)
EXTENDS Naturals

CONSTANTS Chats, Users,
          MarkTTL,  \* life of a dedup entry in ticks (5 minutes in main.rs)
          NoChat    \* the scan is at no chat

ASSUME MarkTTLAssumption == MarkTTL \in Nat \ {0}
ASSUME NoChatAssumption == NoChat \notin Chats

Pairs == Chats \X Users

VARIABLES
    botIn,    \* the chats the bot is a member of
    present,  \* the <<chat, user>> pairs that are members
    rows,     \* [Pairs -> {"none", "active", "inactive"}]: chat_members
    mark,     \* [Pairs -> 0..MarkTTL]: tracking_cache, ticks left; 0: no entry
    tracking, \* [Chats -> SUBSET Users]: users the chat's handler has yet to track
    writing,  \* [Chats -> SUBSET Users]: the one it has marked and is writing
    leaving,  \* [Chats -> SUBSET Users]: the one it is soft-deleting
    scan,     \* where the scan is
    queue,    \* the chats it still has to visit
    at,       \* the chat it is at
    members,  \* its snapshot of that chat's active members, then the hits
    behind    \* history: the pairs whose row may lag behind the membership: a
              \* write failed or was lost, the scan deactivated the chat, or
              \* the member came or went while the bot was out

handlers == <<tracking, writing, leaving>>
scanner == <<scan, queue, at, members>>
vars == <<botIn, present, rows, mark, tracking, writing, leaving,
          scan, queue, at, members, behind>>

ScanStages == {"idle", "next", "select", "check", "report", "deactivate"}

Row(c, status) == {p \in Pairs : p[1] = c /\ rows[p] = status}
ActiveUsers(c) == {u \in Users : rows[<<c, u>>] = "active"}
Free(c) == tracking[c] = {} /\ writing[c] = {} /\ leaving[c] = {}

Init == /\ botIn \in SUBSET Chats
        /\ present \in SUBSET Pairs
        /\ rows = [p \in Pairs |-> "none"]
        /\ mark = [p \in Pairs |-> 0]
        /\ tracking = [c \in Chats |-> {}]
        /\ writing = [c \in Chats |-> {}]
        /\ leaving = [c \in Chats |-> {}]
        /\ scan = "idle"
        /\ queue = {}
        /\ at = NoChat
        /\ members = {}
        /\ behind = {}

--------------------------------------------------------------------------------
(* handle_group_message: a sender who is marked is skipped, one who is not is *)
(* marked first and written after that.  (Commands, and texts that begin with  *)
(* @, go to earlier branches of the dispatcher and are not recorded.)          *)
Message(c, u) ==
    /\ c \in botIn /\ <<c, u>> \in present /\ Free(c)
    /\ \/ /\ mark[<<c, u>>] = 0
          /\ mark' = [mark EXCEPT ![<<c, u>>] = MarkTTL]
          /\ writing' = [writing EXCEPT ![c] = {u}]
       \/ mark[<<c, u>>] > 0 /\ UNCHANGED <<mark, writing>>
    /\ UNCHANGED <<botIn, present, rows, tracking, leaving, scanner, behind>>

(* handle_new_chat_members: one update can bring several users, tracked one    *)
(* after the other whether they are marked or not.                             *)
MembersJoin(c, us) ==
    /\ c \in botIn /\ Free(c)
    /\ us # {} /\ \A u \in us : <<c, u>> \notin present
    /\ present' = present \union ({c} \X us)
    /\ tracking' = [tracking EXCEPT ![c] = us]
    /\ UNCHANGED <<botIn, rows, mark, writing, leaving, scanner, behind>>

TrackNext(c, u) ==
    /\ u \in tracking[c] /\ writing[c] = {}
    /\ tracking' = [tracking EXCEPT ![c] = @ \ {u}]
    /\ mark' = [mark EXCEPT ![<<c, u>>] = MarkTTL]
    /\ writing' = [writing EXCEPT ![c] = {u}]
    /\ UNCHANGED <<botIn, present, rows, leaving, scanner, behind>>

(* Mutants: the mark stays; the updates of one chat are not kept in order.     *)
MemberLeavesMark(c, u) ==
    /\ c \in botIn /\ Free(c)
    /\ <<c, u>> \in present
    /\ present' = present \ {<<c, u>>}
    /\ leaving' = [leaving EXCEPT ![c] = {u}]
    /\ UNCHANGED <<botIn, rows, mark, tracking, writing, scanner, behind>>
MemberLeavesOutOfOrder(c, u) ==
    /\ c \in botIn /\ leaving[c] = {}
    /\ <<c, u>> \in present
    /\ present' = present \ {<<c, u>>}
    /\ mark' = [mark EXCEPT ![<<c, u>>] = 0]
    /\ leaving' = [leaving EXCEPT ![c] = {u}]
    /\ UNCHANGED <<botIn, rows, tracking, writing, scanner, behind>>

(* handle_left_chat_member: the mark goes first, the row is soft-deleted after *)
(* that.                                                                       *)
MemberLeaves(c, u) ==
    /\ c \in botIn /\ Free(c)
    /\ <<c, u>> \in present
    /\ present' = present \ {<<c, u>>}
    /\ mark' = [mark EXCEPT ![<<c, u>>] = 0]
    /\ leaving' = [leaving EXCEPT ![c] = {u}]
    /\ UNCHANGED <<botIn, rows, tracking, writing, scanner, behind>>

(* A row that has been written agrees with the membership again, where it      *)
(* does; a write that failed leaves it behind.                                 *)
Settle(p, right) == behind' = IF right THEN behind \ {p} ELSE behind
FallBehind(p) == behind' = behind \union {p}

(* track_chat_member: INSERT, or UPDATE to active; a failure is only logged.   *)
Track(c, u) ==
    /\ u \in writing[c]
    /\ writing' = [writing EXCEPT ![c] = {}]
    /\ \/ /\ rows' = [rows EXCEPT ![<<c, u>>] = "active"]
          /\ Settle(<<c, u>>, <<c, u>> \in present)
       \/ FallBehind(<<c, u>>) /\ UNCHANGED rows
    /\ UNCHANGED <<botIn, present, mark, tracking, leaving, scanner>>

(* Mutant: the UPDATE forgets the chat.                                        *)
UntrackEverywhere(c, u) ==
    /\ u \in leaving[c]
    /\ leaving' = [leaving EXCEPT ![c] = {}]
    /\ \/ /\ rows' = [p \in Pairs |-> IF p[2] = u /\ rows[p] = "active" THEN "inactive"
                                                                     ELSE rows[p]]
          /\ Settle(<<c, u>>, <<c, u>> \notin present)
       \/ FallBehind(<<c, u>>) /\ UNCHANGED rows
    /\ UNCHANGED <<botIn, present, mark, tracking, writing, scanner>>

(* untrack_chat_member: UPDATE to inactive where there is a row.               *)
Untrack(c, u) ==
    /\ u \in leaving[c]
    /\ leaving' = [leaving EXCEPT ![c] = {}]
    /\ \/ /\ rows' = [rows EXCEPT ![<<c, u>>] = IF @ = "active" THEN "inactive" ELSE @]
          /\ Settle(<<c, u>>, <<c, u>> \notin present)
       \/ FallBehind(<<c, u>>) /\ UNCHANGED rows
    /\ UNCHANGED <<botIn, present, mark, tracking, writing, scanner>>

--------------------------------------------------------------------------------
(* run_scan reads the chats with an active member; an error ends the scan.     *)
ScanStarts ==
    /\ scan = "idle"
    /\ queue' = {c \in Chats : ActiveUsers(c) # {}}
    /\ scan' = "next"
    /\ UNCHANGED <<botIn, present, rows, mark, handlers, at, members, behind>>

ScanEnds ==
    /\ scan = "next" /\ queue = {}
    /\ scan' = "idle"
    /\ UNCHANGED <<botIn, present, rows, mark, handlers, queue, at, members, behind>>

ScanVisits(c) ==
    /\ scan = "next" /\ c \in queue
    /\ queue' = queue \ {c}
    /\ at' = c
    /\ scan' = "select"
    /\ UNCHANGED <<botIn, present, rows, mark, handlers, members, behind>>

(* Mutant: the first chat with an error ends the scan.                         *)
LeaveScan == /\ scan' = "idle"
             /\ at' = NoChat
             /\ members' = {}

(* scan_chat is over, with or without an error: on to the next chat.           *)
LeaveChat == /\ scan' = "next"
             /\ at' = NoChat
             /\ members' = {}

ScanSelects ==
    /\ scan = "select"
    /\ \/ /\ ActiveUsers(at) # {}
          /\ members' = ActiveUsers(at)
          /\ scan' = "check"
          /\ UNCHANGED at
       \/ LeaveChat            \* no active member any more, or an error
    /\ UNCHANGED <<botIn, present, rows, mark, handlers, queue, behind>>

(* check_user on every member of the snapshot, ten at a time; a failed lookup  *)
(* counts as no hit.  Without a hit nothing is sent.                           *)
ScanChecks(hits) ==
    /\ scan = "check"
    /\ hits \subseteq members
    /\ \/ hits # {} /\ members' = hits /\ scan' = "report" /\ UNCHANGED at
       \/ hits = {} /\ LeaveChat
    /\ UNCHANGED <<botIn, present, rows, mark, handlers, queue, behind>>

ReportDelivered ==
    /\ scan = "report" /\ at \in botIn
    /\ LeaveChat
    /\ UNCHANGED <<botIn, present, rows, mark, handlers, queue, behind>>

(* Any error that does not say that the bot is out is logged.                  *)
ReportFails ==
    /\ scan = "report"
    /\ LeaveChat
    /\ UNCHANGED <<botIn, present, rows, mark, handlers, queue, behind>>

(* Mutant: the error is not told from the others.                              *)
ReportRefusedUnnoticed ==
    /\ scan = "report" /\ at \notin botIn
    /\ LeaveChat
    /\ UNCHANGED <<botIn, present, rows, mark, handlers, queue, behind>>

(* One of the five errors that tell of a bot that is out of the chat, BotKicked *)
(* and ChatNotFound among them.  Any other answer to such a bot is ReportFails. *)
ReportRefused ==
    /\ scan = "report" /\ at \notin botIn
    /\ scan' = "deactivate"
    /\ UNCHANGED <<botIn, present, rows, mark, handlers, queue, at, members, behind>>

(* deactivate_chat: every row of the chat, whatever has happened to the bot    *)
(* since the report; the dedup cache is left as it is.                         *)
Deactivate ==
    /\ scan = "deactivate"
    /\ \/ /\ rows' = [p \in Pairs |-> IF p \in Row(at, "active") THEN "inactive"
                                                                ELSE rows[p]]
          /\ behind' = behind \union Row(at, "active")
       \/ UNCHANGED <<rows, behind>>
    /\ LeaveChat
    /\ UNCHANGED <<botIn, present, mark, handlers, queue>>

--------------------------------------------------------------------------------
(* Mutant: entries never expire.                                               *)
TickForNothing == UNCHANGED vars

(* Dedup entries live for MarkTTL, however often they are read.                *)
Tick ==
    /\ mark' = [p \in Pairs |-> IF mark[p] = 0 THEN 0 ELSE mark[p] - 1]
    /\ UNCHANGED <<botIn, present, rows, handlers, scanner, behind>>

(* The process is killed and started again: the table stays, and an update     *)
(* that was being handled is not delivered again.                              *)
Crash ==
    /\ mark' = [p \in Pairs |-> 0]
    /\ behind' = behind \union
          {p \in Pairs : p[2] \in tracking[p[1]] \union writing[p[1]] \union leaving[p[1]]}
    /\ tracking' = [c \in Chats |-> {}]
    /\ writing' = [c \in Chats |-> {}]
    /\ leaving' = [c \in Chats |-> {}]
    /\ scan' = "idle"
    /\ queue' = {}
    /\ at' = NoChat
    /\ members' = {}
    /\ UNCHANGED <<botIn, present, rows>>

(* The bot is added to a chat or removed from it.  Its own LeftChatMember      *)
(* update, if it still gets one, concerns no tracked pair.                     *)
BotMoves(c) ==
    /\ botIn' = IF c \in botIn THEN botIn \ {c} ELSE botIn \union {c}
    /\ UNCHANGED <<present, rows, mark, handlers, scanner, behind>>

(* While it is out, members come and go unseen.                                *)
MovesUnseen(c, u) ==
    /\ c \notin botIn
    /\ present' = IF <<c, u>> \in present THEN present \ {<<c, u>>}
                                          ELSE present \union {<<c, u>>}
    /\ behind' = behind \union {<<c, u>>}
    /\ UNCHANGED <<botIn, rows, mark, handlers, scanner>>

Next == \/ \E c \in Chats :
              \/ \E us \in SUBSET Users : MembersJoin(c, us)
              \/ \E u \in Users : \/ Message(c, u) \/ TrackNext(c, u)
                                  \/ MemberLeaves(c, u)
                                  \/ Track(c, u) \/ Untrack(c, u)
                                  \/ MovesUnseen(c, u)
              \/ ScanVisits(c) \/ BotMoves(c)
        \/ \E hits \in SUBSET Users : ScanChecks(hits)
        \/ ScanStarts \/ ScanEnds \/ ScanSelects
        \/ ReportDelivered \/ ReportFails \/ ReportRefused \/ Deactivate
        \/ Tick \/ Crash

Spec == Init /\ [][Next]_vars

(* Handlers and the scan go on, the scan is started every day, time passes;    *)
(* members keep talking; the database and Telegram do not fail for ever, and   *)
(* the process is not killed in every scan.  Telegram tells a bot that it is   *)
(* out of a chat by one of the errors that scan_chat knows, not always by      *)
(* another.                                                                    *)
Fairness ==
    /\ \A c \in Chats, u \in Users :
          /\ WF_vars(TrackNext(c, u)) /\ WF_vars(Untrack(c, u)) /\ WF_vars(Track(c, u))
          /\ SF_vars(Message(c, u))
          /\ SF_vars(Track(c, u) /\ rows'[<<c, u>>] = "active")
    /\ \A c \in Chats : /\ SF_vars(ScanVisits(c))
                        /\ SF_vars(ReportRefused /\ at = c)
                        /\ SF_vars(Deactivate /\ at = c /\ Row(c, "active")' = {})
    /\ SF_vars(ScanSelects /\ scan' = "check")
    /\ SF_vars(\E hits \in SUBSET Users : ScanChecks(hits))
    /\ WF_vars(ReportDelivered \/ ReportFails \/ ReportRefused)
    /\ WF_vars(ScanStarts) /\ WF_vars(ScanSelects) /\ WF_vars(ScanEnds)
    /\ WF_vars(Deactivate)
    /\ WF_vars(Tick)

FairSpec == Spec /\ Fairness

--------------------------------------------------------------------------------
TypeOK == /\ botIn \subseteq Chats
          /\ present \subseteq Pairs
          /\ rows \in [Pairs -> {"none", "active", "inactive"}]
          /\ mark \in [Pairs -> 0..MarkTTL]
          /\ tracking \in [Chats -> SUBSET Users]
          /\ writing \in [Chats -> SUBSET Users]
          /\ leaving \in [Chats -> SUBSET Users]
          /\ scan \in ScanStages
          /\ queue \subseteq Chats
          /\ at \in Chats \union {NoChat}
          /\ members \subseteq Users
          /\ behind \subseteq Pairs

Busy(c, u) == u \in tracking[c] \union writing[c] \union leaving[c]

(* The dedup cache hides a message only of a member whose row is active, but   *)
(* for the pairs whose row lags: the mark of a pair never outlives the row it  *)
(* stands for through a leave and a later return.                              *)
DedupHidesOnlyTracked ==
    \A c \in Chats, u \in Users :
        mark[<<c, u>>] > 0 /\ ~Busy(c, u) /\ <<c, u>> \notin behind
            => rows[<<c, u>>] = "active"

(* Who has left is not scanned any more, again but for the pairs that lag: the *)
(* write of an earlier message never lands after the soft-delete of the leave. *)
LeaverIsInactive ==
    \A c \in Chats, u \in Users :
        rows[<<c, u>>] = "active" /\ ~Busy(c, u) /\ <<c, u>> \notin behind
            => <<c, u>> \in present

(* The table keeps the promise of Roster: whatever handlers, scan and crashes  *)
(* do in between, no row of a pair at rest changes but by a deactivation.      *)
Membership == INSTANCE Roster WITH
                  listed <- {p \in Pairs : rows[p] = "active"},
                  lag <- behind \union {p \in Pairs : Busy(p[1], p[2])}
RosterSpec == Membership!Spec

(* A member of a chat the bot stays in, who keeps writing, is scanned in the   *)
(* end and for good, whatever write failed and although the scan may have      *)
(* deactivated the chat on the answer to an older report.                      *)
MemberIsTrackedInTheEnd ==
    \A c \in Chats, u \in Users :
        <>[](c \in botIn /\ <<c, u>> \in present) => <>[](rows[<<c, u>>] = "active")

(* The scan does not report for ever to a chat the bot is out of               *)
(* (scheduler.rs:135, README "Self-cleaning").                                 *)
AbandonedChatIsLeftAlone ==
    \A c \in Chats : <>[](c \notin botIn) => <>[](scan = "report" => at # c)

(* A scan that is not killed visits every chat it has listed: an error in one  *)
(* chat does not end it ("Don't break", scheduler.rs:66).                      *)
NoChatIsSkipped ==
    [][scan # "idle" /\ scan' = "idle" => queue = {} \/ Crash]_vars

================================================================================
