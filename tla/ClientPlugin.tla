------------------------------ MODULE ClientPlugin -----------------------------
(* The client plugins, plugins/telega_checker_rust_{exteraGram,AyuGram}.plugin: *)
(* they ask the HTTP API about the people whose chats and profiles are opened  *)
(* and warn once about each of those that use Telega.  The one for exteraGram  *)
(* draws a badge next to their names, the one for AyuGram adds a row to every  *)
(* profile that says "Compromised", "Clean" or "Checking...".                  *)
(*                                                                             *)
(* Hooks and posted callbacks run on the client's UI thread, one at a time;    *)
(* lookups run on worker threads.  A callback keeps the screen it was started  *)
(* from, which may have been closed by the time it runs.  At most one chat is  *)
(* open, with at most one profile above it.                                    *)
(*                                                                             *)
(* The badge's document has a valid default, so that the code which resolves   *)
(* it over the network never runs; and the plugin meets fewer people than      *)
(* MAX_ALERT_ENTRIES.                                                          *)
EXTENDS Naturals

CONSTANTS Users,    \* the people met
          Workers,  \* worker threads
          NoUser    \* no screen, no job

ASSUME NoUserAssumption == NoUser \notin Users

VARIABLES
    edition,     \* the client the plugin is for (fixed)
    upstream,    \* the people the API reports (fixed)
    chat,        \* whose chat is open
    profile,     \* whose profile is open, above the chat if there is one
    chatBadge,   \* the badge is drawn on the chat
    shows,       \* what the profile shows: the badge ("yes") or "nothing", or
                 \* in the row an answer
    cache,       \* [Users -> Answers]: _lookup_cache; an expired or evicted
                 \* entry is unknown
    shown,       \* _alert_shown
    inflight,    \* _lookups_inflight
    job,         \* [Workers -> Users \union {NoUser}]: whom a worker asks about
    stage,       \* [Workers -> Stages]: where it is
    from,        \* [Workers -> Screens]: the screen it will answer to, if that
                 \* has been open ever since
    warn,        \* the users with a _handle_positive_lookup (AyuGram:
                 \* _handle_positive_chat_lookup) posted for an open chat
    stale,       \* the users with one posted for a chat closed since
    refresh,     \* _refresh_visible_badges, or for AyuGram a _refresh_profile
                 \* of the profile that is open, is posted
    alerts       \* history: [Users -> 0..2]: warnings shown, counted up to 2

fixed == <<edition, upstream>>
screens == <<chat, profile, chatBadge, shows>>
workers == <<job, stage, from>>
warnings == <<shown, alerts>>
posted == <<warn, stale, refresh>>
vars == <<fixed, screens, cache, warnings, inflight, workers, posted>>

Stages == {"free",
           "request",  \* the HTTP request is under way
           "post",     \* the answer is stored, the callbacks are to be posted
           "finally"}  \* about to leave _lookups_inflight

Answers == {"unknown", "yes", "no"}
Screens == {"chat", "closed chat", "profile", "none"}

Extera == edition = "exteraGram"
AyuGram == edition = "AyuGram"

Init == /\ edition \in {"exteraGram", "AyuGram"}
        /\ upstream \in SUBSET Users
        /\ chat = NoUser /\ profile = NoUser
        /\ chatBadge = FALSE /\ shows = "nothing"
        /\ cache = [u \in Users |-> "unknown"]
        /\ shown = {}
        /\ inflight = {}
        /\ job = [w \in Workers |-> NoUser]
        /\ stage = [w \in Workers |-> "free"]
        /\ from = [w \in Workers |-> "none"]
        /\ warn = {} /\ stale = {} /\ refresh = FALSE
        /\ alerts = [u \in Users |-> 0]

--------------------------------------------------------------------------------
(* The screens that lookups answer to once this one is closed.  They keep a    *)
(* closed chat; an AyuGram profile that is closed has no rows to bind.         *)
Without(screen) ==
    [w \in Workers |-> IF from[w] # screen THEN from[w]
                       ELSE IF screen = "chat" THEN "closed chat" ELSE "none"]

NoLookup(kept) == from' = kept /\ UNCHANGED <<inflight, job, stage>>

Launch(u, screen, kept) ==
    \E w \in Workers :
       /\ stage[w] = "free"
       /\ inflight' = inflight \union {u}
       /\ job' = [job EXCEPT ![w] = u]
       /\ stage' = [stage EXCEPT ![w] = "request"]
       /\ from' = [kept EXCEPT ![w] = screen]

(* Mutant: the set of lookups in flight is not looked at.                      *)
StartLookupUnchecked(u, screen, kept) == Launch(u, screen, kept)

(* _start_lookup and _start_lookup_refresh_only: nothing when a lookup of the  *)
(* user is in flight, whichever screen started it.                             *)
StartLookup(u, screen, kept) ==
    \/ u \in inflight /\ NoLookup(kept)
    \/ u \notin inflight /\ Launch(u, screen, kept)

(* The warning, unless it was shown: marked, then displayed.                   *)
WarnOnce(u) ==
    \/ u \in shown /\ UNCHANGED warnings
    \/ /\ u \notin shown
       /\ shown' = shown \union {u}
       /\ alerts' = [alerts EXCEPT ![u] = IF @ < 2 THEN @ + 1 ELSE @]

(* Mutant: a known user is not warned about, the callback did that.            *)
OnChatResumeQuietly(u, kept) ==
    /\ UNCHANGED warnings
    /\ IF cache[u] = "yes"
         THEN chatBadge' = Extera /\ NoLookup(kept)
         ELSE /\ chatBadge' = (u = chat /\ chatBadge)
              /\ IF cache[u] = "no" THEN NoLookup(kept) ELSE StartLookup(u, "chat", kept)

(* _on_chat_resume, for a chat just opened or come back to.                    *)
OnChatResume(u, kept) ==
    \/ /\ cache[u] = "yes"
       /\ WarnOnce(u)
       /\ chatBadge' = Extera
       /\ NoLookup(kept)
    \/ /\ cache[u] # "yes"
       /\ chatBadge' = (u = chat /\ chatBadge)
       /\ IF cache[u] = "no" THEN NoLookup(kept) ELSE StartLookup(u, "chat", kept)
       /\ UNCHANGED warnings

(* _on_profile_updated, and for AyuGram BindHook: the badge or the row is      *)
(* drawn.  The lookup answers to the profile in AyuGram, to no screen in       *)
(* exteraGram (_start_lookup_refresh_only).                                    *)
OnProfileUpdated(u) ==
    /\ shows' = IF AyuGram \/ cache[u] = "yes" THEN cache[u] ELSE "nothing"
    /\ IF cache[u] = "unknown"
         THEN StartLookup(u, IF AyuGram THEN "profile" ELSE "none", from)
         ELSE NoLookup(from)

OpenChat(u) ==
    /\ chat = NoUser /\ profile = NoUser
    /\ chat' = u
    /\ OnChatResume(u, from)
    /\ UNCHANGED <<fixed, profile, shows, cache, posted>>

(* The callbacks that keep this chat will still run, and find it closed.       *)
CloseChat ==
    /\ chat # NoUser /\ profile = NoUser
    /\ chat' = NoUser
    /\ chatBadge' = FALSE
    /\ warn' = {} /\ stale' = stale \union warn
    /\ NoLookup(Without("chat"))
    /\ UNCHANGED <<fixed, profile, shows, cache, warnings, refresh>>

(* _on_chat_title_updated, after the client has drawn the title anew.          *)
TitleUpdated ==
    /\ Extera /\ chat # NoUser
    /\ chatBadge' = (cache[chat] = "yes")
    /\ UNCHANGED <<fixed, chat, profile, shows, cache, warnings, inflight,
                   workers, posted>>

OpenProfile(u) ==
    /\ profile = NoUser
    /\ profile' = u
    /\ OnProfileUpdated(u)
    /\ UNCHANGED <<fixed, chat, chatBadge, cache, warnings, posted>>

UpdateProfile ==
    /\ profile # NoUser
    /\ OnProfileUpdated(profile)
    /\ UNCHANGED <<fixed, chat, profile, chatBadge, cache, warnings, posted>>

(* The callbacks that keep this profile find it closed; the chat below, if     *)
(* there is one, resumes.                                                      *)
CloseProfile ==
    /\ profile # NoUser
    /\ profile' = NoUser
    /\ shows' = "nothing"
    /\ refresh' = (refresh /\ Extera)
    /\ \/ chat # NoUser /\ OnChatResume(chat, Without("profile"))
       \/ /\ chat = NoUser
          /\ NoLookup(Without("profile"))
          /\ UNCHANGED <<chatBadge, warnings>>
    /\ UNCHANGED <<fixed, chat, cache, warn, stale>>

--------------------------------------------------------------------------------
(* The API's answer is stored.  In exteraGram there is nothing more to do when *)
(* it is negative.                                                             *)
Answered(w) ==
    /\ stage[w] = "request"
    /\ LET yes == job[w] \in upstream
       IN  /\ cache' = [cache EXCEPT ![job[w]] = IF yes THEN "yes" ELSE "no"]
           /\ stage' = [stage EXCEPT ![w] = IF yes \/ AyuGram THEN "post" ELSE "finally"]
    /\ UNCHANGED <<fixed, screens, warnings, inflight, job, from, posted>>

(* No configuration, no connection, a timeout, a status other than 200.        *)
NotAnswered(w) ==
    /\ stage[w] = "request"
    /\ stage' = [stage EXCEPT ![w] = "finally"]
    /\ UNCHANGED <<fixed, screens, cache, warnings, inflight, job, from, posted>>

(* The answer to w as a warning, if it keeps this screen and is positive.      *)
Warning(w, screen) == IF from[w] = screen /\ job[w] \in upstream THEN {job[w]} ELSE {}

(* Mutant: a lookup from a profile leaves the drawing to the next update.      *)
PostWarningOnly(w) ==
    /\ stage[w] = "post"
    /\ stage' = [stage EXCEPT ![w] = "finally"]
    /\ warn' = warn \union Warning(w, "chat")
    /\ stale' = stale \union Warning(w, "closed chat")
    /\ refresh' = (refresh \/ from[w] = "chat")
    /\ UNCHANGED <<fixed, screens, cache, warnings, inflight, job, from>>

(* The answer is posted to the UI thread: a positive one as a warning to the   *)
(* chat that asked, open or not, and in exteraGram to whatever screen is on    *)
(* top; in AyuGram to the profile that asked, if that is still open.           *)
Post(w) ==
    /\ stage[w] = "post"
    /\ stage' = [stage EXCEPT ![w] = "finally"]
    /\ warn' = warn \union Warning(w, "chat")
    /\ stale' = stale \union Warning(w, "closed chat")
    /\ refresh' = (refresh \/ Extera \/ from[w] = "profile")
    /\ UNCHANGED <<fixed, screens, cache, warnings, inflight, job, from>>

(* The worker's finally block.                                                 *)
Finally(w) ==
    /\ stage[w] = "finally"
    /\ inflight' = inflight \ {job[w]}
    /\ job' = [job EXCEPT ![w] = NoUser]
    /\ stage' = [stage EXCEPT ![w] = "free"]
    /\ from' = [from EXCEPT ![w] = "none"]
    /\ UNCHANGED <<fixed, screens, cache, warnings, posted>>

(* Mutant: it was decided when the callback was posted that nobody was warned. *)
HandlePositiveLookupAnyway(u) ==
    /\ u \in warn
    /\ warn' = warn \ {u}
    /\ shown' = shown \union {u}
    /\ alerts' = [alerts EXCEPT ![u] = IF @ < 2 THEN @ + 1 ELSE @]
    /\ chatBadge' = (chatBadge \/ (Extera /\ cache[u] = "yes"))
    /\ UNCHANGED <<fixed, chat, profile, shows, cache, inflight, workers, stale, refresh>>

(* _handle_positive_lookup, or _handle_positive_chat_lookup, on a chat that is *)
(* still open.  A chat shows one person as long as it lives, so that           *)
(* _is_same_user, which asks the chat that was kept, never objects.            *)
HandlePositiveLookup(u) ==
    /\ u \in warn
    /\ warn' = warn \ {u}
    /\ WarnOnce(u)
    /\ chatBadge' = (chatBadge \/ (Extera /\ cache[u] = "yes"))
    /\ UNCHANGED <<fixed, chat, profile, shows, cache, inflight, workers, stale, refresh>>

(* Mutant: marked before the activity is looked for.                           *)
HandleOnClosedMarked(u) ==
    /\ u \in stale
    /\ stale' = stale \ {u}
    /\ shown' = shown \union {u}
    /\ UNCHANGED <<fixed, screens, cache, alerts, inflight, workers, warn, refresh>>

(* The same callback on a chat closed since: it has no parent activity, so     *)
(* that nothing is shown nor marked, and its title is not seen.                *)
HandleOnClosed(u) ==
    /\ u \in stale
    /\ stale' = stale \ {u}
    /\ UNCHANGED <<fixed, screens, cache, warnings, inflight, workers, warn, refresh>>

(* Mutant: the badge is drawn for the user whose lookup posted the refresh.    *)
RefreshWithoutCache ==
    /\ Extera /\ refresh
    /\ refresh' = FALSE
    /\ shows' = IF profile # NoUser THEN "yes" ELSE shows
    /\ chatBadge' = (chatBadge \/ (profile = NoUser /\ chat # NoUser))
    /\ UNCHANGED <<fixed, chat, profile, cache, warnings, inflight, workers, warn, stale>>

(* _refresh_visible_badges: the screen on top, whichever that is by now.       *)
RefreshVisibleBadges ==
    /\ Extera /\ refresh
    /\ refresh' = FALSE
    /\ shows' = IF profile # NoUser /\ cache[profile] = "yes" THEN "yes" ELSE shows
    /\ chatBadge' = (chatBadge \/ (profile = NoUser /\ chat # NoUser
                                   /\ cache[chat] = "yes"))
    /\ UNCHANGED <<fixed, chat, profile, cache, warnings, inflight, workers, warn, stale>>

(* _refresh_profile: the rows of the profile are bound anew.                   *)
RefreshProfile ==
    /\ AyuGram /\ refresh
    /\ refresh' = FALSE
    /\ OnProfileUpdated(profile)
    /\ UNCHANGED <<fixed, chat, profile, chatBadge, cache, warnings, warn, stale>>

(* Six hours go by; or the entry is evicted by an answer that is stored in a   *)
(* full cache, or lost because the cache is replaced without a lock as it is   *)
(* stored.                                                                     *)
Expire(u) ==
    /\ cache[u] # "unknown"
    /\ cache' = [cache EXCEPT ![u] = "unknown"]
    /\ UNCHANGED <<fixed, screens, warnings, inflight, workers, posted>>

(* The client is killed and started again; _lookup_cache and _alert_shown are  *)
(* settings, saved whenever they change.                                       *)
ClientRestarts ==
    /\ chat' = NoUser /\ profile' = NoUser
    /\ chatBadge' = FALSE /\ shows' = "nothing"
    /\ inflight' = {}
    /\ job' = [w \in Workers |-> NoUser]
    /\ stage' = [w \in Workers |-> "free"]
    /\ from' = [w \in Workers |-> "none"]
    /\ warn' = {} /\ stale' = {} /\ refresh' = FALSE
    /\ UNCHANGED <<fixed, cache, warnings>>

Next == \/ \E u \in Users : \/ OpenChat(u) \/ OpenProfile(u)
                            \/ HandlePositiveLookup(u) \/ HandleOnClosed(u)
                            \/ Expire(u)
        \/ CloseChat \/ TitleUpdated \/ UpdateProfile \/ CloseProfile
        \/ \E w \in Workers : \/ Answered(w) \/ NotAnswered(w)
                              \/ Post(w) \/ Finally(w)
        \/ RefreshVisibleBadges \/ RefreshProfile
        \/ ClientRestarts

Spec == Init /\ [][Next]_vars

(* Threads run, screens are closed in the end, lookups do not fail for ever;   *)
(* and people come back to a chat, also within the six hours after a lookup.   *)
(* That any posted callback ever runs is not assumed.                          *)
Fairness == /\ \A w \in Workers : WF_vars(Post(w) \/ Finally(w))
            /\ \A u \in Users : /\ SF_vars(\E w \in Workers : job[w] = u /\ Answered(w))
                                /\ SF_vars(OpenChat(u))
                                /\ SF_vars(OpenChat(u) /\ cache[u] = "yes")
            /\ SF_vars(CloseChat) /\ WF_vars(CloseProfile)

(* No screen is kept open for the six hours an answer is good for.             *)
ShortVisit == (\E u \in Users : cache[u] # "unknown" /\ cache'[u] = "unknown")
                  => chat = NoUser /\ profile = NoUser

FairSpec == Init /\ [][Next /\ ShortVisit]_vars /\ Fairness

--------------------------------------------------------------------------------
FlagsOK == {chatBadge, refresh} \subseteq BOOLEAN

ValuesOK == /\ edition \in {"exteraGram", "AyuGram"}
            /\ upstream \subseteq Users
            /\ chat \in Users \union {NoUser}
            /\ profile \in Users \union {NoUser}
            /\ shows \in Answers \union {"nothing"}
            /\ cache \in [Users -> Answers]
            /\ shown \subseteq Users
            /\ inflight \subseteq Users
            /\ job \in [Workers -> Users \union {NoUser}]
            /\ stage \in [Workers -> Stages]
            /\ from \in [Workers -> Screens]
            /\ warn \subseteq Users /\ stale \subseteq Users
            /\ alerts \in [Users -> 0..2]

TypeOK == FlagsOK /\ ValuesOK

(* No two lookups of one person are ever under way ("preventing duplicate      *)
(* concurrent requests for the same user ID", plugins/README.md, Concurrency   *)
(* Safety), and a lookup that fails does not leave its person locked out.      *)
OneLookupPerUser ==
    /\ \A v, w \in Workers : job[v] # NoUser /\ job[v] = job[w] => v = w
    /\ \A u \in inflight : \E w \in Workers : job[w] = u

(* The warning about a person is shown once, over restarts of the client, and  *)
(* although a resumed chat and a posted callback may both be about to show it. *)
WarnedAtMostOnce == \A u \in Users : alerts[u] <= 1

(* Somebody is marked as warned about only where the warning is seen, in the   *)
(* open chat of that very person, who uses Telega: no callback that finds its  *)
(* chat closed, another one open, or the answer negative uses the warning up.  *)
WarningFitsItsChat ==
    [][\A u \in shown' \ shown : u = chat' /\ u \in upstream]_vars

(* In exteraGram, who is known to use Telega has the badge on the screen that  *)
(* is on top as soon as what was posted has run: no way of switching screens   *)
(* while a lookup is under way makes its result miss the screen.               *)
Pending(u) == refresh \/ u \in warn \/ \E w \in Workers : job[w] = u /\ stage[w] = "post"
KnownIsBadged == Extera =>
    /\ profile # NoUser /\ ~Pending(profile) /\ cache[profile] = "yes" => shows = "yes"
    /\ profile = NoUser /\ chat # NoUser /\ ~Pending(chat) /\ cache[chat] = "yes"
           => chatBadge

(* A badge, and what a row says, is an answer of the API about that very       *)
(* person, whichever screen asked and whichever is open when it comes.         *)
ShownIsAnswered == /\ shows = "yes" => profile \in upstream
                   /\ shows = "no" => profile \notin upstream
                   /\ chatBadge => chat \in upstream

(* A user who keeps coming back to the chat of somebody who uses Telega is     *)
(* warned in the end, although any single lookup may fail to lead to it.       *)
WarnedInTheEnd == \A u \in Users : u \in upstream ~> u \in shown
================================================================================
