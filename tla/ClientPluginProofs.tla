--------------------------- MODULE ClientPluginProofs --------------------------
(* Proofs about ClientPlugin, for any people and worker threads: one lookup    *)
(* per person, one warning per person, and what the screens show is what the   *)
(* API answered.                                                               *)
EXTENDS ClientPlugin, TLAPS

USE NoUserAssumption

(* A worker that has somebody to ask about keeps that person in flight.        *)
JobsAreInFlight ==
    \A w \in Workers : /\ stage[w] = "free" <=> job[w] = NoUser
                       /\ job[w] # NoUser => job[w] \in inflight

(* A worker answers to a screen that shows the person it asks about, and only  *)
(* the chat that is open has a warning posted, when its person uses Telega.    *)
AnswersMeetTheirScreen ==
    /\ \A w \in Workers : /\ from[w] = "chat" => chat # NoUser /\ job[w] = chat
                          /\ from[w] = "profile" => profile # NoUser /\ job[w] = profile
    /\ \A u \in warn : u = chat /\ u \in upstream

(* The rows that are to be bound anew are those of an open profile.            *)
RefreshHasProfile == AyuGram /\ refresh => profile # NoUser

(* The cache holds answers of the API.                                         *)
CacheIsAnswered == \A u \in Users : /\ cache[u] = "yes" => u \in upstream
                                    /\ cache[u] = "no" => u \notin upstream

(* Who was warned about is in _alert_shown, so that nobody is again.           *)
AlertsAreShown == \A u \in Users : alerts[u] = IF u \in shown THEN 1 ELSE 0

(* KnownIsBadged, without the warnings that are posted: they come with a       *)
(* refresh.                                                                    *)
Posting(u) == \E w \in Workers : job[w] = u /\ stage[w] = "post"
DrawnUnlessRefreshed == Extera /\ ~refresh =>
    /\ profile # NoUser /\ ~Posting(profile) /\ cache[profile] = "yes" => shows = "yes"
    /\ profile = NoUser /\ chat # NoUser /\ ~Posting(chat) /\ cache[chat] = "yes"
           => chatBadge

IInv == /\ TypeOK
        /\ JobsAreInFlight
        /\ OneLookupPerUser
        /\ AnswersMeetTheirScreen
        /\ RefreshHasProfile
        /\ CacheIsAnswered
        /\ AlertsAreShown
        /\ DrawnUnlessRefreshed
        /\ ShownIsAnswered

--------------------------------------------------------------------------------
(* Nobody has been met.                                                        *)
LEMMA InitIInv == Init => IInv
  <1> SUFFICES ASSUME Init PROVE IInv
    OBVIOUS
  <1> USE DEF Init
  <1>1. FlagsOK
    BY Zenon DEF FlagsOK
  <1>2. ValuesOK
    BY DEF ValuesOK, Answers, Stages, Screens
  <1>3. JobsAreInFlight /\ OneLookupPerUser
    BY DEF JobsAreInFlight, OneLookupPerUser
  <1>4. AnswersMeetTheirScreen /\ CacheIsAnswered /\ AlertsAreShown
    BY DEF AnswersMeetTheirScreen, CacheIsAnswered, AlertsAreShown
  <1>5. RefreshHasProfile /\ DrawnUnlessRefreshed /\ ShownIsAnswered
    BY DEF RefreshHasProfile, DrawnUnlessRefreshed, ShownIsAnswered
  <1> QED
    BY <1>1, <1>2, <1>3, <1>4, <1>5 DEF IInv, TypeOK

(* What a hook does to the lookups: at most one worker starts, about u, and    *)
(* answers to the screen; the others answer to those they are left with.       *)
Asks(u, screen, kept) ==
    /\ inflight' \subseteq Users
    /\ job' \in [Workers -> Users \union {NoUser}]
    /\ stage' \in [Workers -> Stages]
    /\ from' \in [Workers -> Screens]
    /\ JobsAreInFlight'
    /\ OneLookupPerUser'
    /\ \A w \in Workers : \/ job'[w] = job[w] /\ from'[w] = kept[w]
                          \/ job'[w] = u /\ from'[w] = screen
    /\ \A v \in Users : Posting(v)' <=> Posting(v)

(* Nothing is started for somebody whose lookup is in flight, so that no two   *)
(* workers ever ask about one person.                                          *)
LEMMA LookupStep ==
  ASSUME IInv, NEW u \in Users, NEW screen \in Screens, NEW kept \in [Workers -> Screens],
         StartLookup(u, screen, kept) \/ NoLookup(kept)
  PROVE  Asks(u, screen, kept)
  <1> USE DEF IInv, TypeOK, ValuesOK
  <1>1. CASE NoLookup(kept)
    BY <1>1 DEF NoLookup, Asks, JobsAreInFlight, OneLookupPerUser, Posting
  <1>2. CASE u \notin inflight /\ Launch(u, screen, kept)
    <2>1. PICK w \in Workers :
             /\ stage[w] = "free"
             /\ inflight' = inflight \union {u}
             /\ job' = [job EXCEPT ![w] = u]
             /\ stage' = [stage EXCEPT ![w] = "request"]
             /\ from' = [kept EXCEPT ![w] = screen]
      BY <1>2 DEF Launch
    <2>2. u # NoUser /\ job[w] = NoUser /\ \A v \in Workers : job[v] # u
      BY <1>2, <2>1 DEF JobsAreInFlight
    <2>3. /\ inflight' \subseteq Users
          /\ job' \in [Workers -> Users \union {NoUser}]
          /\ stage' \in [Workers -> Stages]
          /\ from' \in [Workers -> Screens]
      BY <2>1 DEF Stages
    <2>4. JobsAreInFlight'
      BY <2>1, <2>2 DEF JobsAreInFlight
    <2>5. OneLookupPerUser'
      BY <2>1, <2>2 DEF OneLookupPerUser
    <2>6. \A v \in Workers : \/ job'[v] = job[v] /\ from'[v] = kept[v]
                             \/ job'[v] = u /\ from'[v] = screen
      BY <2>1
    <2>7. \A v \in Users : Posting(v)' <=> Posting(v)
      BY <2>1, <2>2 DEF Posting
    <2> QED
      BY <2>3, <2>4, <2>5, <2>6, <2>7 DEF Asks
  <1> QED
    BY <1>1, <1>2 DEF StartLookup, NoLookup

(* A warning is recorded as it is shown.                                       *)
LEMMA WarnStep ==
  ASSUME IInv, NEW u \in Users, WarnOnce(u) \/ UNCHANGED warnings
  PROVE  shown' \subseteq Users /\ alerts' \in [Users -> 0..2] /\ AlertsAreShown'
  BY DEF IInv, TypeOK, ValuesOK, AlertsAreShown, WarnOnce, warnings

(* A chat that resumes: the badge is drawn if the person is known, and stays   *)
(* only on the chat it was drawn on.                                           *)
LEMMA ResumeStep ==
  ASSUME IInv, NEW u \in Users, NEW kept \in [Workers -> Screens], OnChatResume(u, kept)
  PROVE  /\ Asks(u, "chat", kept)
         /\ shown' \subseteq Users /\ alerts' \in [Users -> 0..2] /\ AlertsAreShown'
         /\ chatBadge' \in BOOLEAN
         /\ chatBadge' => u \in upstream \/ (u = chat /\ chatBadge)
         /\ Extera /\ cache[u] = "yes" => chatBadge'
  <1>1. Asks(u, "chat", kept)
    BY LookupStep DEF OnChatResume, Screens
  <1>2. shown' \subseteq Users /\ alerts' \in [Users -> 0..2] /\ AlertsAreShown'
    BY WarnStep DEF OnChatResume
  <1>3. chatBadge' \in BOOLEAN
    BY Zenon DEF OnChatResume, Extera
  <1>4. chatBadge' => u \in upstream \/ (u = chat /\ chatBadge)
    BY DEF OnChatResume, IInv, CacheIsAnswered
  <1>5. Extera /\ cache[u] = "yes" => chatBadge'
    BY DEF OnChatResume
  <1> QED
    BY <1>1, <1>2, <1>3, <1>4, <1>5

(* A profile that is bound shows what the cache has.                           *)
LEMMA ProfileStep ==
  ASSUME IInv, NEW u \in Users, OnProfileUpdated(u)
  PROVE  /\ Asks(u, IF AyuGram THEN "profile" ELSE "none", from)
         /\ shows' \in Answers \union {"nothing"}
         /\ shows' = "yes" => u \in upstream
         /\ shows' = "no" => u \notin upstream
         /\ cache[u] = "yes" => shows' = "yes"
  <1>1. (IF AyuGram THEN "profile" ELSE "none") \in Screens
    BY DEF Screens
  <1>2. Asks(u, IF AyuGram THEN "profile" ELSE "none", from)
    BY <1>1, LookupStep DEF OnProfileUpdated, IInv, TypeOK, ValuesOK
  <1>3. /\ shows' \in Answers \union {"nothing"}
        /\ shows' = "yes" => u \in upstream
        /\ shows' = "no" => u \notin upstream
        /\ cache[u] = "yes" => shows' = "yes"
    BY DEF OnProfileUpdated, IInv, TypeOK, ValuesOK, CacheIsAnswered, Answers
  <1> QED
    BY <1>2, <1>3

--------------------------------------------------------------------------------
(* A chat is opened: no worker answers to a chat yet.                          *)
LEMMA OpenChatStep ==
  ASSUME IInv, NEW u \in Users, OpenChat(u)
  PROVE  IInv'
  <1> USE DEF IInv, OpenChat, fixed, posted
  <1>1. /\ Asks(u, "chat", from)
        /\ shown' \subseteq Users /\ alerts' \in [Users -> 0..2] /\ AlertsAreShown'
        /\ chatBadge' \in BOOLEAN
        /\ chatBadge' => u \in upstream \/ (u = chat /\ chatBadge)
        /\ Extera /\ cache[u] = "yes" => chatBadge'
    BY ResumeStep DEF TypeOK, ValuesOK
  <1>2. FlagsOK'
    BY <1>1, Zenon DEF TypeOK, FlagsOK
  <1>3. ValuesOK'
    BY <1>1 DEF TypeOK, ValuesOK, Asks
  <1>4. AnswersMeetTheirScreen'
    <2>1. warn = {} /\ \A w \in Workers : from[w] \notin {"chat", "profile"}
      BY DEF AnswersMeetTheirScreen, TypeOK, ValuesOK
    <2>2. u # NoUser
      OBVIOUS
    <2> QED
      BY <1>1, <2>1, <2>2 DEF AnswersMeetTheirScreen, Asks
  <1>5. RefreshHasProfile' /\ CacheIsAnswered'
    BY DEF RefreshHasProfile, CacheIsAnswered, AyuGram
  <1>6. DrawnUnlessRefreshed'
    BY <1>1 DEF DrawnUnlessRefreshed, Extera
  <1>7. ShownIsAnswered'
    BY <1>1 DEF ShownIsAnswered
  <1> QED
    BY <1>1, <1>2, <1>3, <1>4, <1>5, <1>6, <1>7 DEF TypeOK, Asks

(* A chat is closed: nobody answers to it any more.                            *)
LEMMA CloseChatStep ==
  ASSUME IInv, CloseChat
  PROVE  IInv'
  <1> USE DEF IInv, CloseChat, NoLookup, Without, fixed, warnings
  <1>1. FlagsOK'
    BY Zenon DEF TypeOK, FlagsOK
  <1>2. ValuesOK'
    BY DEF TypeOK, ValuesOK, Screens
  <1>3. JobsAreInFlight' /\ OneLookupPerUser'
    BY DEF JobsAreInFlight, OneLookupPerUser
  <1>4. AnswersMeetTheirScreen'
    BY DEF AnswersMeetTheirScreen
  <1>5. RefreshHasProfile' /\ CacheIsAnswered' /\ AlertsAreShown'
    BY DEF RefreshHasProfile, CacheIsAnswered, AlertsAreShown, AyuGram
  <1>6. DrawnUnlessRefreshed'
    BY DEF DrawnUnlessRefreshed, Extera
  <1>7. ShownIsAnswered'
    BY DEF ShownIsAnswered
  <1> QED
    BY <1>1, <1>2, <1>3, <1>4, <1>5, <1>6, <1>7 DEF TypeOK

(* A profile is opened or bound anew, for the person it shows.                 *)
LEMMA BindStep ==
  ASSUME IInv, NEW u \in Users, OnProfileUpdated(u), profile' = u,
         profile \in {u, NoUser},
         refresh' \in BOOLEAN, refresh' => refresh, refresh' # refresh => AyuGram,
         UNCHANGED <<fixed, chat, chatBadge, cache, warnings, warn, stale>>
  PROVE  IInv'
  <1> USE DEF IInv, fixed, warnings
  <1>1. /\ Asks(u, IF AyuGram THEN "profile" ELSE "none", from)
        /\ shows' \in Answers \union {"nothing"}
        /\ shows' = "yes" => u \in upstream
        /\ shows' = "no" => u \notin upstream
        /\ cache[u] = "yes" => shows' = "yes"
    BY ProfileStep
  <1>2. FlagsOK'
    BY Zenon DEF TypeOK, FlagsOK
  <1>3. ValuesOK'
    BY <1>1 DEF TypeOK, ValuesOK, Asks
  <1>4. AnswersMeetTheirScreen'
    BY <1>1 DEF AnswersMeetTheirScreen, Asks
  <1>5. RefreshHasProfile' /\ CacheIsAnswered' /\ AlertsAreShown'
    BY DEF RefreshHasProfile, CacheIsAnswered, AlertsAreShown
  <1>6. DrawnUnlessRefreshed'
    BY <1>1 DEF DrawnUnlessRefreshed, Extera
  <1>7. ShownIsAnswered'
    BY <1>1 DEF ShownIsAnswered
  <1> QED
    BY <1>1, <1>2, <1>3, <1>4, <1>5, <1>6, <1>7 DEF TypeOK, Asks

(* The hooks of a profile, and in AyuGram what its lookup posts to it.         *)
LEMMA ProfileHookStep ==
  ASSUME IInv, (\E u \in Users : OpenProfile(u)) \/ UpdateProfile \/ RefreshProfile
  PROVE  IInv'
  <1>1. ASSUME NEW u \in Users, OpenProfile(u)
        PROVE  IInv'
    BY <1>1, BindStep DEF OpenProfile, posted, IInv, TypeOK, FlagsOK
  <1>2. CASE UpdateProfile
    BY <1>2, BindStep DEF UpdateProfile, posted, IInv, TypeOK, FlagsOK, ValuesOK
  <1>3. CASE RefreshProfile
    <2>1. profile \in Users
      BY <1>3 DEF RefreshProfile, IInv, TypeOK, ValuesOK, RefreshHasProfile
    <2> QED
      BY <1>3, <2>1, BindStep DEF RefreshProfile
  <1> QED
    BY <1>1, <1>2, <1>3

(* A profile is closed: nobody answers to it any more, and the chat below      *)
(* resumes.                                                                    *)
LEMMA CloseProfileStep ==
  ASSUME IInv, CloseProfile
  PROVE  IInv'
  <1> USE DEF IInv, CloseProfile, fixed
  <1> DEFINE kept == Without("profile")
  <1>1. /\ kept \in [Workers -> Screens]
        /\ \A w \in Workers : kept[w] \in {from[w], "none"} /\ kept[w] # "profile"
    BY DEF TypeOK, ValuesOK, Screens, Without
  <1>2. refresh' \in BOOLEAN
    BY Zenon DEF Extera
  <1>3. /\ RefreshHasProfile' /\ CacheIsAnswered'
        /\ Extera => refresh' = refresh
    BY DEF RefreshHasProfile, CacheIsAnswered, AyuGram, Extera, TypeOK, FlagsOK
  <1>4. CASE chat # NoUser /\ OnChatResume(chat, kept)
    <2>1. chat \in Users
      BY <1>4 DEF TypeOK, ValuesOK
    <2>2. /\ Asks(chat, "chat", kept)
          /\ shown' \subseteq Users /\ alerts' \in [Users -> 0..2] /\ AlertsAreShown'
          /\ chatBadge' \in BOOLEAN
          /\ chatBadge' => chat \in upstream \/ chatBadge
          /\ Extera /\ cache[chat] = "yes" => chatBadge'
      BY <1>1, <1>4, <2>1, ResumeStep
    <2>3. FlagsOK'
      BY <1>2, <2>2, Zenon DEF FlagsOK
    <2>4. ValuesOK'
      BY <2>2 DEF TypeOK, ValuesOK, Asks
    <2>5. AnswersMeetTheirScreen'
      BY <1>1, <1>4, <2>2 DEF AnswersMeetTheirScreen, Asks
    <2>6. DrawnUnlessRefreshed'
      BY <1>3, <2>2 DEF DrawnUnlessRefreshed, Extera
    <2>7. ShownIsAnswered'
      BY <2>2 DEF ShownIsAnswered
    <2> QED
      BY <1>3, <2>2, <2>3, <2>4, <2>5, <2>6, <2>7 DEF TypeOK, Asks
  <1>5. CASE chat = NoUser /\ NoLookup(kept) /\ UNCHANGED <<chatBadge, warnings>>
    <2> USE <1>5 DEF NoLookup, warnings
    <2>1. FlagsOK'
      BY <1>2, Zenon DEF TypeOK, FlagsOK
    <2>2. ValuesOK'
      BY <1>1 DEF TypeOK, ValuesOK
    <2>3. JobsAreInFlight' /\ OneLookupPerUser' /\ AlertsAreShown'
      BY DEF JobsAreInFlight, OneLookupPerUser, AlertsAreShown
    <2>4. AnswersMeetTheirScreen'
      BY <1>1 DEF AnswersMeetTheirScreen
    <2>5. DrawnUnlessRefreshed' /\ ShownIsAnswered'
      BY DEF DrawnUnlessRefreshed, ShownIsAnswered
    <2> QED
      BY <1>3, <2>1, <2>2, <2>3, <2>4, <2>5 DEF TypeOK
  <1> QED
    BY <1>4, <1>5

--------------------------------------------------------------------------------
(* The API's answer is stored; who is found goes on to be posted.              *)
LEMMA AnsweredStep ==
  ASSUME IInv, NEW w \in Workers, Answered(w)
  PROVE  IInv'
  <1> USE DEF IInv, Answered, fixed, screens, warnings, posted
  <1>1. /\ stage[w] = "request"
        /\ job[w] \in Users
        /\ cache' = [cache EXCEPT ![job[w]] = IF job[w] \in upstream THEN "yes" ELSE "no"]
        /\ stage' = [stage EXCEPT ![w] = IF job[w] \in upstream \/ AyuGram THEN "post"
                                                                           ELSE "finally"]
    BY DEF JobsAreInFlight, TypeOK, ValuesOK
  <1>2. FlagsOK'
    BY Zenon DEF TypeOK, FlagsOK
  <1>3. ValuesOK'
    BY <1>1 DEF TypeOK, ValuesOK, Answers, Stages
  <1>4. JobsAreInFlight' /\ OneLookupPerUser' /\ AnswersMeetTheirScreen'
    BY <1>1 DEF JobsAreInFlight, OneLookupPerUser, AnswersMeetTheirScreen, TypeOK, ValuesOK
  <1>5. RefreshHasProfile' /\ AlertsAreShown'
    BY DEF RefreshHasProfile, AlertsAreShown, AyuGram
  <1>6. CacheIsAnswered'
    BY <1>1 DEF CacheIsAnswered, TypeOK, ValuesOK
  <1>7. ASSUME NEW u \in Users, Extera, cache'[u] = "yes", ~Posting(u)'
        PROVE  cache[u] = "yes" /\ ~Posting(u)
    <2>1. u # job[w]
      BY <1>1, <1>7 DEF Posting, TypeOK, ValuesOK
    <2> QED
      BY <1>1, <1>7, <2>1 DEF Posting, TypeOK, ValuesOK
  <1>8. DrawnUnlessRefreshed'
    BY <1>7 DEF DrawnUnlessRefreshed, Extera, TypeOK, ValuesOK
  <1>9. ShownIsAnswered'
    BY DEF ShownIsAnswered
  <1> QED
    BY <1>2, <1>3, <1>4, <1>5, <1>6, <1>8, <1>9 DEF TypeOK

(* A lookup that fails stores nothing.                                         *)
LEMMA NotAnsweredStep ==
  ASSUME IInv, NEW w \in Workers, NotAnswered(w)
  PROVE  IInv'
  <1> USE DEF IInv, NotAnswered, fixed, screens, warnings, posted
  <1>1. FlagsOK'
    BY Zenon DEF TypeOK, FlagsOK
  <1>2. ValuesOK'
    BY DEF TypeOK, ValuesOK, Stages
  <1>3. JobsAreInFlight' /\ OneLookupPerUser' /\ AnswersMeetTheirScreen'
    BY DEF JobsAreInFlight, OneLookupPerUser, AnswersMeetTheirScreen, TypeOK, ValuesOK
  <1>4. RefreshHasProfile' /\ CacheIsAnswered' /\ AlertsAreShown' /\ ShownIsAnswered'
    BY DEF RefreshHasProfile, CacheIsAnswered, AlertsAreShown, ShownIsAnswered, AyuGram
  <1>5. \A u \in Users : Posting(u)' <=> Posting(u)
    BY DEF Posting, TypeOK, ValuesOK
  <1>6. DrawnUnlessRefreshed'
    BY <1>5 DEF DrawnUnlessRefreshed, Extera, TypeOK, ValuesOK
  <1> QED
    BY <1>1, <1>2, <1>3, <1>4, <1>6 DEF TypeOK

(* The answer is posted to the screen that asked, if that is open, and in      *)
(* exteraGram as a refresh of whatever is on top.                              *)
LEMMA PostStep ==
  ASSUME IInv, NEW w \in Workers, Post(w)
  PROVE  IInv'
  <1> USE DEF IInv, Post, fixed, screens, warnings
  <1>1. job[w] \in Users
    BY DEF JobsAreInFlight, TypeOK, ValuesOK
  <1>2. FlagsOK'
    BY Zenon DEF TypeOK, FlagsOK, Extera
  <1>3. ValuesOK'
    BY <1>1 DEF TypeOK, ValuesOK, Stages, Warning
  <1>4. JobsAreInFlight' /\ OneLookupPerUser'
    BY DEF JobsAreInFlight, OneLookupPerUser, TypeOK, ValuesOK
  <1>5. AnswersMeetTheirScreen'
    BY DEF AnswersMeetTheirScreen, Warning
  <1>6. RefreshHasProfile'
    BY DEF RefreshHasProfile, AnswersMeetTheirScreen, AyuGram, Extera
  <1>7. CacheIsAnswered' /\ AlertsAreShown' /\ ShownIsAnswered'
    BY DEF CacheIsAnswered, AlertsAreShown, ShownIsAnswered
  <1>8. DrawnUnlessRefreshed'
    BY DEF DrawnUnlessRefreshed, Extera
  <1> QED
    BY <1>2, <1>3, <1>4, <1>5, <1>6, <1>7, <1>8 DEF TypeOK

(* The worker is free again, and its person, whom no other asks about, is not  *)
(* in flight any more.                                                         *)
LEMMA FinallyStep ==
  ASSUME IInv, NEW w \in Workers, Finally(w)
  PROVE  IInv'
  <1> USE DEF IInv, Finally, fixed, screens, warnings, posted
  <1>1. job[w] \in Users
    BY DEF JobsAreInFlight, TypeOK, ValuesOK
  <1>2. FlagsOK'
    BY Zenon DEF TypeOK, FlagsOK
  <1>3. ValuesOK'
    BY DEF TypeOK, ValuesOK, Stages, Screens
  <1>4. JobsAreInFlight'
    BY <1>1 DEF JobsAreInFlight, OneLookupPerUser, TypeOK, ValuesOK
  <1>5. OneLookupPerUser'
    BY <1>1 DEF OneLookupPerUser, TypeOK, ValuesOK
  <1>6. AnswersMeetTheirScreen'
    BY DEF AnswersMeetTheirScreen, TypeOK, ValuesOK
  <1>7. RefreshHasProfile' /\ CacheIsAnswered' /\ AlertsAreShown' /\ ShownIsAnswered'
    BY DEF RefreshHasProfile, CacheIsAnswered, AlertsAreShown, ShownIsAnswered, AyuGram
  <1>8. \A u \in Users : Posting(u)' <=> Posting(u)
    BY DEF Posting, TypeOK, ValuesOK
  <1>9. DrawnUnlessRefreshed'
    BY <1>8 DEF DrawnUnlessRefreshed, Extera, TypeOK, ValuesOK
  <1> QED
    BY <1>2, <1>3, <1>4, <1>5, <1>6, <1>7, <1>9 DEF TypeOK

--------------------------------------------------------------------------------
(* The warning that was posted to the chat is shown there, with its badge.     *)
LEMMA HandlePositiveStep ==
  ASSUME IInv, NEW u \in Users, HandlePositiveLookup(u)
  PROVE  IInv'
  <1> USE DEF IInv, HandlePositiveLookup, fixed, workers
  <1>1. shown' \subseteq Users /\ alerts' \in [Users -> 0..2] /\ AlertsAreShown'
    BY WarnStep
  <1>2. FlagsOK'
    BY Zenon DEF TypeOK, FlagsOK
  <1>3. ValuesOK'
    BY <1>1 DEF TypeOK, ValuesOK
  <1>4. JobsAreInFlight' /\ OneLookupPerUser' /\ AnswersMeetTheirScreen'
    BY DEF JobsAreInFlight, OneLookupPerUser, AnswersMeetTheirScreen
  <1>5. RefreshHasProfile' /\ CacheIsAnswered'
    BY DEF RefreshHasProfile, CacheIsAnswered, AyuGram
  <1>6. DrawnUnlessRefreshed'
    BY DEF DrawnUnlessRefreshed, Extera, Posting
  <1>7. chatBadge' => chat \in upstream
    BY DEF ShownIsAnswered, CacheIsAnswered, AnswersMeetTheirScreen
  <1>8. ShownIsAnswered'
    BY <1>7 DEF ShownIsAnswered
  <1> QED
    BY <1>1, <1>2, <1>3, <1>4, <1>5, <1>6, <1>8 DEF TypeOK

(* The warning that was posted to a chat closed since is dropped.              *)
LEMMA HandleOnClosedStep ==
  ASSUME IInv, NEW u \in Users, HandleOnClosed(u)
  PROVE  IInv'
  <1> USE DEF IInv, HandleOnClosed, fixed, screens, warnings, workers
  <1>1. FlagsOK'
    BY Zenon DEF TypeOK, FlagsOK
  <1>2. ValuesOK'
    BY DEF TypeOK, ValuesOK
  <1>3. JobsAreInFlight' /\ OneLookupPerUser' /\ AnswersMeetTheirScreen'
    BY DEF JobsAreInFlight, OneLookupPerUser, AnswersMeetTheirScreen
  <1>4. RefreshHasProfile' /\ CacheIsAnswered' /\ AlertsAreShown' /\ ShownIsAnswered'
    BY DEF RefreshHasProfile, CacheIsAnswered, AlertsAreShown, ShownIsAnswered, AyuGram
  <1>5. DrawnUnlessRefreshed'
    BY DEF DrawnUnlessRefreshed, Extera, Posting
  <1> QED
    BY <1>1, <1>2, <1>3, <1>4, <1>5 DEF TypeOK

(* The client draws the title anew.                                            *)
LEMMA TitleStep ==
  ASSUME IInv, TitleUpdated
  PROVE  IInv'
  <1> USE DEF IInv, TitleUpdated, fixed, warnings, workers, posted
  <1>1. FlagsOK'
    BY Zenon DEF TypeOK, FlagsOK
  <1>2. ValuesOK'
    BY DEF TypeOK, ValuesOK
  <1>3. JobsAreInFlight' /\ OneLookupPerUser' /\ AnswersMeetTheirScreen'
    BY DEF JobsAreInFlight, OneLookupPerUser, AnswersMeetTheirScreen
  <1>4. RefreshHasProfile' /\ CacheIsAnswered' /\ AlertsAreShown'
    BY DEF RefreshHasProfile, CacheIsAnswered, AlertsAreShown, AyuGram
  <1>5. DrawnUnlessRefreshed'
    BY DEF DrawnUnlessRefreshed, Extera, Posting
  <1>6. ShownIsAnswered'
    BY DEF ShownIsAnswered, CacheIsAnswered, TypeOK, ValuesOK
  <1> QED
    BY <1>1, <1>2, <1>3, <1>4, <1>5, <1>6 DEF TypeOK

(* The badge is drawn on the screen on top, for whoever that shows by now.     *)
LEMMA RefreshStep ==
  ASSUME IInv, RefreshVisibleBadges
  PROVE  IInv'
  <1> USE DEF IInv, RefreshVisibleBadges, fixed, warnings, workers
  <1>1. FlagsOK'
    BY Zenon DEF TypeOK, FlagsOK
  <1>2. ValuesOK'
    BY DEF TypeOK, ValuesOK, Answers
  <1>3. JobsAreInFlight' /\ OneLookupPerUser' /\ AnswersMeetTheirScreen'
    BY DEF JobsAreInFlight, OneLookupPerUser, AnswersMeetTheirScreen
  <1>4. RefreshHasProfile' /\ CacheIsAnswered' /\ AlertsAreShown'
    BY DEF RefreshHasProfile, CacheIsAnswered, AlertsAreShown, AyuGram
  <1>5. DrawnUnlessRefreshed'
    BY DEF DrawnUnlessRefreshed, Extera
  <1>6. chatBadge' => chat \in upstream
    BY DEF ShownIsAnswered, CacheIsAnswered, TypeOK, ValuesOK
  <1>7. ShownIsAnswered'
    BY <1>6 DEF ShownIsAnswered, CacheIsAnswered, TypeOK, ValuesOK
  <1> QED
    BY <1>1, <1>2, <1>3, <1>4, <1>5, <1>7 DEF TypeOK

(* An answer is forgotten.                                                     *)
LEMMA ExpireStep ==
  ASSUME IInv, NEW u \in Users, Expire(u)
  PROVE  IInv'
  <1> USE DEF IInv, Expire, fixed, screens, warnings, workers, posted
  <1>1. FlagsOK'
    BY Zenon DEF TypeOK, FlagsOK
  <1>2. ValuesOK'
    BY DEF TypeOK, ValuesOK, Answers
  <1>3. JobsAreInFlight' /\ OneLookupPerUser' /\ AnswersMeetTheirScreen'
    BY DEF JobsAreInFlight, OneLookupPerUser, AnswersMeetTheirScreen
  <1>4. RefreshHasProfile' /\ AlertsAreShown' /\ ShownIsAnswered'
    BY DEF RefreshHasProfile, AlertsAreShown, ShownIsAnswered, AyuGram
  <1>5. CacheIsAnswered'
    BY DEF CacheIsAnswered, TypeOK, ValuesOK
  <1>6. \A v \in Users : cache'[v] = "yes" => cache[v] = "yes"
    BY DEF TypeOK, ValuesOK
  <1>7. DrawnUnlessRefreshed'
    BY <1>6 DEF DrawnUnlessRefreshed, Extera, Posting, TypeOK, ValuesOK
  <1> QED
    BY <1>1, <1>2, <1>3, <1>4, <1>5, <1>7 DEF TypeOK

(* The client starts again, with its settings.                                 *)
LEMMA RestartStep ==
  ASSUME IInv, ClientRestarts
  PROVE  IInv'
  <1> USE DEF IInv, ClientRestarts, fixed, warnings
  <1>1. FlagsOK'
    BY Zenon DEF FlagsOK
  <1>2. ValuesOK'
    BY DEF TypeOK, ValuesOK, Stages, Screens
  <1>3. JobsAreInFlight' /\ OneLookupPerUser' /\ AnswersMeetTheirScreen'
    BY DEF JobsAreInFlight, OneLookupPerUser, AnswersMeetTheirScreen
  <1>4. RefreshHasProfile' /\ CacheIsAnswered' /\ AlertsAreShown'
    BY DEF RefreshHasProfile, CacheIsAnswered, AlertsAreShown
  <1>5. DrawnUnlessRefreshed' /\ ShownIsAnswered'
    BY DEF DrawnUnlessRefreshed, ShownIsAnswered
  <1> QED
    BY <1>1, <1>2, <1>3, <1>4, <1>5 DEF TypeOK

(* Every step keeps the invariant.                                             *)
LEMMA NextIInv == IInv /\ [Next]_vars => IInv'
  <1> SUFFICES ASSUME IInv, [Next]_vars PROVE IInv'
    OBVIOUS
  <1>1. ASSUME NEW u \in Users,
               \/ OpenChat(u) \/ OpenProfile(u)
               \/ HandlePositiveLookup(u) \/ HandleOnClosed(u) \/ Expire(u)
        PROVE  IInv'
    BY <1>1, OpenChatStep, ProfileHookStep, HandlePositiveStep, HandleOnClosedStep,
       ExpireStep
  <1>2. ASSUME NEW w \in Workers,
               Answered(w) \/ NotAnswered(w) \/ Post(w) \/ Finally(w)
        PROVE  IInv'
    BY <1>2, AnsweredStep, NotAnsweredStep, PostStep, FinallyStep
  <1>3. CASE CloseChat \/ TitleUpdated \/ UpdateProfile \/ CloseProfile
    BY <1>3, CloseChatStep, TitleStep, ProfileHookStep, CloseProfileStep
  <1>4. CASE RefreshVisibleBadges \/ RefreshProfile \/ ClientRestarts
    BY <1>4, RefreshStep, ProfileHookStep, RestartStep
  <1>5. CASE UNCHANGED vars
    <2> USE <1>5 DEF vars, fixed, screens, warnings, workers, posted, IInv
    <2>1. FlagsOK'
      BY Zenon DEF TypeOK, FlagsOK
    <2>2. ValuesOK'
      BY DEF TypeOK, ValuesOK
    <2>3. JobsAreInFlight' /\ OneLookupPerUser' /\ AnswersMeetTheirScreen'
      BY DEF JobsAreInFlight, OneLookupPerUser, AnswersMeetTheirScreen
    <2>4. RefreshHasProfile' /\ CacheIsAnswered' /\ AlertsAreShown' /\ ShownIsAnswered'
      BY DEF RefreshHasProfile, CacheIsAnswered, AlertsAreShown, ShownIsAnswered, AyuGram
    <2>5. DrawnUnlessRefreshed'
      BY DEF DrawnUnlessRefreshed, Extera, Posting
    <2> QED
      BY <2>1, <2>2, <2>3, <2>4, <2>5 DEF TypeOK
  <1> QED
    BY <1>1, <1>2, <1>3, <1>4, <1>5 DEF Next

(* Every reachable state satisfies the invariant.                              *)
THEOREM Inductive == Spec => []IInv
  BY InitIInv, NextIInv, PTL DEF Spec

(* Type correctness.                                                           *)
THEOREM TypeCorrect == Spec => []TypeOK
  <1>1. IInv => TypeOK
    BY DEF IInv
  <1> QED
    BY <1>1, Inductive, PTL

(* No two lookups of one person run, and no failure locks a person out.        *)
THEOREM LookupsAreSingle == Spec => []OneLookupPerUser
  <1>1. IInv => OneLookupPerUser
    BY DEF IInv
  <1> QED
    BY <1>1, Inductive, PTL

(* Nobody is warned about twice.                                               *)
THEOREM WarningsAreSingle == Spec => []WarnedAtMostOnce
  <1>1. IInv => WarnedAtMostOnce
    <2>1. ASSUME IInv, NEW u \in Users
          PROVE  alerts[u] <= 1
      BY <2>1 DEF IInv, TypeOK, ValuesOK, AlertsAreShown
    <2> QED
      BY <2>1 DEF WarnedAtMostOnce
  <1> QED
    BY <1>1, Inductive, PTL

(* Who is known has the badge as soon as what was posted has run.              *)
THEOREM KnownAreBadged == Spec => []KnownIsBadged
  <1>1. IInv => KnownIsBadged
    BY DEF IInv, DrawnUnlessRefreshed, KnownIsBadged, Pending, Posting
  <1> QED
    BY <1>1, Inductive, PTL

(* What is shown of a person is what the API answered.                         *)
THEOREM ShownAreAnswers == Spec => []ShownIsAnswered
  <1>1. IInv => ShownIsAnswered
    BY DEF IInv
  <1> QED
    BY <1>1, Inductive, PTL

(* Only a chat that resumes and the callback posted to one that is still open  *)
(* warn, about its own person and on a positive answer.                        *)
LEMMA WarningStep ==
  ASSUME IInv, [Next]_vars
  PROVE  \A u \in shown' \ shown : u = chat' /\ u \in upstream
  <1> USE DEF IInv, TypeOK, ValuesOK
  <1>1. ASSUME NEW u \in Users, HandlePositiveLookup(u)
        PROVE  \A v \in shown' \ shown : v = chat' /\ v \in upstream
    BY <1>1 DEF HandlePositiveLookup, WarnOnce, AnswersMeetTheirScreen, warnings
  <1>2. ASSUME NEW u \in Users, NEW kept, OnChatResume(u, kept)
        PROVE  \A v \in shown' \ shown : v = u /\ v \in upstream
    BY <1>2 DEF OnChatResume, WarnOnce, CacheIsAnswered, warnings
  <1>3. ASSUME NEW u \in Users, OpenChat(u)
        PROVE  \A v \in shown' \ shown : v = chat' /\ v \in upstream
    BY <1>2, <1>3 DEF OpenChat
  <1>4. CASE CloseProfile
    BY <1>2, <1>4, NoUserAssumption DEF CloseProfile, warnings
  <1>5. CASE shown' = shown
    BY <1>5
  <1>6. CASE \/ \E u \in Users : OpenProfile(u) \/ HandleOnClosed(u) \/ Expire(u)
             \/ CloseChat \/ TitleUpdated \/ UpdateProfile
             \/ \E w \in Workers : Answered(w) \/ NotAnswered(w) \/ Post(w) \/ Finally(w)
             \/ RefreshVisibleBadges \/ RefreshProfile \/ ClientRestarts
             \/ UNCHANGED vars
    BY <1>5, <1>6 DEF OpenProfile, HandleOnClosed, Expire, CloseChat, TitleUpdated, UpdateProfile,
                      Answered, NotAnswered, Post, Finally, RefreshVisibleBadges,
                      RefreshProfile, ClientRestarts, warnings, vars
  <1> QED
    BY <1>1, <1>3, <1>4, <1>6 DEF Next

(* A warning is about the person whose chat it is shown in, who uses Telega.   *)
THEOREM WarningsFitTheirChat == Spec => WarningFitsItsChat
  <1>1. IInv /\ [Next]_vars
            => [\A u \in shown' \ shown : u = chat' /\ u \in upstream]_vars
    BY WarningStep
  <1> QED
    BY <1>1, Inductive, PTL DEF Spec, WarningFitsItsChat
================================================================================
