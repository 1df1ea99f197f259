------------------------------ MODULE HttpApiProofs -----------------------------
(* Proofs about HttpApi, for any users, chats, clients and number of UUIDs:    *)
(* ServiceInv is inductive, so that the table decides about every request.     *)
EXTENDS HttpApi, TokensProofs

(* A row gets the UUID drawn in the same step, or stays as it is.              *)
LEMMA RowStep ==
  ASSUME IInv, [Next]_vars
  PROVE  /\ drawn' >= drawn
         /\ \A u \in Users : row'[u] = row[u] \/ (row'[u] = drawn' /\ drawn' = drawn + 1)
  <1> USE DEF IInv, TypeOK
  <1>1. ASSUME NEW c \in Chats, NEW u \in Users, RequestToken(c, u) \/ RequestReset(c, u)
        PROVE  UNCHANGED <<row, drawn>>
    BY <1>1 DEF RequestToken, RequestReset, Take
  <1>2. ASSUME NEW c \in Chats,
               Select(c) \/ SendAssets(c) \/ SendToken(c) \/ AnswerCallback(c) \/ Fail(c)
        PROVE  UNCHANGED <<row, drawn>>
    BY <1>2 DEF Select, SendAssets, SendToken, AnswerCallback, Fail, GiveUp
  <1>3. ASSUME NEW c \in Chats, Insert(c) \/ Rotate(c)
        PROVE  \/ UNCHANGED <<row, drawn>>
               \/ drawn' = drawn + 1 /\ (UNCHANGED row \/ Store(user[c]))
    BY <1>3 DEF Insert, Rotate, Draw
  <1>4. CASE Crash \/ UNCHANGED vars
    BY <1>4 DEF Crash, vars
  <1>5. CASE \E c \in Chats : Insert(c) \/ Rotate(c)
    <2>1. PICK c \in Chats : Insert(c) \/ Rotate(c)
      BY <1>5
    <2>2. CASE UNCHANGED <<row, drawn>>
      BY <2>2
    <2>3. CASE drawn' = drawn + 1 /\ (UNCHANGED row \/ Store(user[c]))
      BY <2>3 DEF Store
    <2> QED
      BY <2>1, <2>2, <2>3, <1>3
  <1>6. CASE UNCHANGED <<row, drawn>>
    BY <1>6
  <1> QED
    BY <1>1, <1>2, <1>4, <1>5, <1>6 DEF Next, Handle

(* What the tokens do leaves requests where they are, and brings no token that *)
(* a request carries back to life.                                             *)
LEMMA TokensStep ==
  ASSUME ServiceInv, [Next]_vars, UNCHANGED http
  PROVE  ServiceInv'
  <1> USE DEF http
  <1>1. IInv'
    BY NextIInv DEF ServiceInv
  <1>2. HttpTypeOK'
    BY DEF ServiceInv, HttpTypeOK
  <1>3. /\ drawn' >= drawn
        /\ \A u \in Users : row'[u] = row[u] \/ (row'[u] = drawn' /\ drawn' = drawn + 1)
    BY RowStep DEF ServiceInv
  <1>4. RowsAreDrawn' /\ BearersAreDrawn'
    BY <1>1, <1>3 DEF ServiceInv, IInv, TypeOK, HttpTypeOK, Bearers, None, Static,
                      RowsAreDrawn, BearersAreDrawn
  <1>5. ASSUME NEW c \in Clients, ~Valid(bearer[c])
        PROVE  ~Valid(bearer[c])'
    <2>1. SUFFICES ASSUME NEW u \in Users, bearer[c] # None, row'[u] = bearer[c]
                   PROVE  FALSE
      BY DEF Valid
    <2>2. row[u] # bearer[c]
      BY <1>5, <2>1 DEF Valid
    <2>3. row'[u] = drawn' /\ drawn' = drawn + 1
      BY <1>3, <2>1, <2>2
    <2>4. drawn \in 0..MaxTokens /\ drawn' \in 0..MaxTokens
      BY <1>1 DEF ServiceInv, IInv, TypeOK
    <2>5. bearer[c] = Static \/ bearer[c] <= drawn
      BY DEF ServiceInv, BearersAreDrawn
    <2>6. bearer[c] = drawn'
      BY <2>1, <2>3
    <2> QED
      BY <2>3, <2>4, <2>5, <2>6, MaxTokensAssumption DEF Static
  <1>6. DeadStaysDead' /\ TokenDecides'
    BY <1>5 DEF ServiceInv, DeadStaysDead, TokenDecides, Admitted, Refused
  <1> QED
    BY <1>1, <1>2, <1>4, <1>6 DEF ServiceInv

(* A step of a request leaves the tokens alone.                                *)
LEMMA TokensStay ==
  ASSUME ServiceInv, UNCHANGED vars
  PROVE  IInv' /\ RowsAreDrawn' /\ \A t : Valid(t)' <=> Valid(t)
  BY StutterStep DEF ServiceInv, vars, RowsAreDrawn, Valid

(* A request comes in with a token that has been drawn, the static one or none.*)
LEMMA RequestStep ==
  ASSUME ServiceInv, NEW c \in Clients, NEW t \in Bearers, Request(c, t)
  PROVE  ServiceInv'
  <1>0. PICK first \in At :
           /\ \/ t = None /\ first \in {"401", "validate"}
              \/ t = Static /\ first \in ParsePath
              \/ t \in 1..drawn /\ first = "validate"
           /\ at' = [at EXCEPT ![c] = first]
    BY DEF Request
  <1> USE DEF Request
  <1>1. IInv' /\ RowsAreDrawn' /\ \A s : Valid(s)' <=> Valid(s)
    BY TokensStay
  <1>2. HttpTypeOK'
    BY <1>0 DEF ServiceInv, HttpTypeOK, Valid
  <1>3. BearersAreDrawn'
    BY <1>0 DEF ServiceInv, HttpTypeOK, BearersAreDrawn, vars, None, Static, IInv, TypeOK
  <1>4. DeadStaysDead'
    BY <1>1 DEF ServiceInv, HttpTypeOK, DeadStaysDead
  <1>5. ASSUME NEW d \in Clients
        PROVE  (Admitted(d) => live[d])' /\ (Refused(d) => ~Valid(bearer[d]))'
    <2>1. CASE d = c
      BY <1>0, <1>1, <2>1 DEF ServiceInv, HttpTypeOK, Admitted, Refused, Valid, None,
                              Static, ParsePath, IInv, TypeOK
    <2>2. CASE d # c
      BY <1>0, <1>1, <2>2 DEF ServiceInv, HttpTypeOK, TokenDecides, Admitted, Refused
    <2> QED
      BY <2>1, <2>2
  <1>6. TokenDecides'
    BY <1>5 DEF TokenDecides
  <1> QED
    BY <1>1, <1>2, <1>3, <1>4, <1>6 DEF ServiceInv

(* A request that moves on keeps its token; if it is admitted the token is     *)
(* valid or was admitted before, and if it is refused it is no user's.         *)
LEMMA MoveStep ==
  ASSUME ServiceInv, NEW c \in Clients, NEW to \in At, Move(c, to),
         to \in {"check", "400"} => Valid(bearer[c]),
         to \in {"200", "500"} => at[c] = "check",
         to = "401" => ~Valid(bearer[c])
  PROVE  ServiceInv'
  <1> USE DEF Move
  <1>1. IInv' /\ RowsAreDrawn' /\ \A s : Valid(s)' <=> Valid(s)
    BY TokensStay
  <1>2. HttpTypeOK'
    BY DEF ServiceInv, HttpTypeOK
  <1>3. BearersAreDrawn' /\ DeadStaysDead'
    BY <1>1 DEF ServiceInv, BearersAreDrawn, DeadStaysDead, vars
  <1>4. TokenDecides'
    BY <1>1 DEF ServiceInv, HttpTypeOK, DeadStaysDead, TokenDecides, Admitted, Refused
  <1> QED
    BY <1>1, <1>2, <1>3, <1>4 DEF ServiceInv

(* No request is under way.                                                   *)
LEMMA NoRequests ==
  ASSUME at = [c \in Clients |-> "none"], bearer = [c \in Clients |-> None],
         live = [c \in Clients |-> FALSE]
  PROVE  /\ HttpTypeOK
         /\ drawn \in Nat => BearersAreDrawn
         /\ DeadStaysDead
         /\ TokenDecides
  <1>1. None \in Bearers
    BY MaxTokensAssumption DEF None, Static, Bearers
  <1>2. HttpTypeOK
    BY <1>1 DEF HttpTypeOK, At
  <1>3. drawn \in Nat => BearersAreDrawn
    BY DEF BearersAreDrawn, None
  <1>4. DeadStaysDead
    BY DEF DeadStaysDead, Valid
  <1>5. TokenDecides
    BY DEF TokenDecides, Admitted, Refused
  <1> QED
    BY <1>2, <1>3, <1>4, <1>5

(* Nobody has asked, and no token is drawn.                                    *)
LEMMA ServiceInitInv == ServiceInit => ServiceInv
  <1> SUFFICES ASSUME ServiceInit PROVE ServiceInv
    OBVIOUS
  <1>1. IInv
    BY InitIInv DEF ServiceInit
  <1>2. RowsAreDrawn /\ drawn \in Nat
    BY DEF ServiceInit, Init, RowsAreDrawn
  <1> QED
    BY <1>1, <1>2, NoRequests DEF ServiceInit, ServiceInv

(* A crash empties the requests; what the table holds was drawn.               *)
LEMMA ServiceCrashStep ==
  ASSUME ServiceInv, ServiceCrash
  PROVE  ServiceInv'
  <1>1. IInv'
    BY CrashStep DEF ServiceInv, ServiceCrash
  <1>2. RowsAreDrawn' /\ drawn' \in Nat
    BY <1>1 DEF ServiceInv, ServiceCrash, Crash, RowsAreDrawn, IInv, TypeOK
  <1>3. None \in Bearers
    BY MaxTokensAssumption DEF None, Static, Bearers
  <1>4. HttpTypeOK'
    BY <1>3 DEF ServiceCrash, HttpTypeOK, At
  <1>5. BearersAreDrawn'
    BY <1>2 DEF ServiceCrash, BearersAreDrawn, None
  <1>6. DeadStaysDead'
    BY DEF ServiceCrash, DeadStaysDead, Valid
  <1>7. TokenDecides'
    BY DEF ServiceCrash, TokenDecides, Admitted, Refused
  <1> QED
    BY <1>1, <1>2, <1>4, <1>5, <1>6, <1>7 DEF ServiceInv

(* The inductive step, action by action.                                       *)
LEMMA ServiceNextInv == ServiceInv /\ [ServiceNext]_serviceVars => ServiceInv'
  <1> SUFFICES ASSUME ServiceInv, [ServiceNext]_serviceVars PROVE ServiceInv'
    OBVIOUS
  <1>1. CASE Handle /\ UNCHANGED http
    BY <1>1, TokensStep DEF Next
  <1>2. ASSUME NEW c \in Clients, NEW t \in Bearers, Request(c, t)
        PROVE  ServiceInv'
    BY <1>2, RequestStep
  <1>3. ASSUME NEW c \in Clients, Validate(c)
        PROVE  ServiceInv'
    <2>1. PICK to \in {"401 unchecked"}
                         \union (IF Valid(bearer[c]) THEN ParsePath ELSE {"401"}) :
             Move(c, to)
      BY <1>3 DEF Validate
    <2> QED
      BY <2>1, MoveStep DEF ParsePath, At, Pending, Statuses
  <1>4. ASSUME NEW c \in Clients, Checked(c)
        PROVE  ServiceInv'
    BY <1>4, MoveStep DEF Checked, At, Pending, Statuses
  <1>5. ASSUME NEW c \in Clients, Disconnect(c)
        PROVE  ServiceInv'
    BY <1>5, MoveStep DEF Disconnect, At, Pending, Statuses
  <1>6. CASE ServiceCrash
    BY <1>6, ServiceCrashStep
  <1>7. CASE UNCHANGED serviceVars
    BY <1>7, TokensStep DEF serviceVars
  <1> QED
    BY <1>1, <1>2, <1>3, <1>4, <1>5, <1>6, <1>7 DEF ServiceNext, HttpStep

(* Every reachable state of the service satisfies the inductive invariant.     *)
THEOREM ServiceInductive == ServiceSpec => []ServiceInv
  BY ServiceInitInv, ServiceNextInv, PTL DEF ServiceSpec

(* Who is let in with a user's token held a valid one when asking, and who is  *)
(* refused after a look at the table holds none, whatever resets, deliveries   *)
(* and restarts happen while the requests are under way.                       *)
THEOREM TableDecides == ServiceSpec => []TokenDecides
  <1>1. ServiceInv => TokenDecides
    BY DEF ServiceInv
  <1> QED
    BY <1>1, ServiceInductive, PTL

(* The service is an implementation of Tokens: the requests never get in the   *)
(* way of the handlers, and every theorem about Spec holds of the service.     *)
THEOREM ServiceImplementsTokens == ServiceSpec => Spec
  <1>1. ServiceInit => Init
    BY DEF ServiceInit
  <1>2. [ServiceNext]_serviceVars => [Next]_vars
    BY DEF ServiceNext, HttpStep, Request, Validate, Checked, Disconnect, Move,
           ServiceCrash, Next, serviceVars
  <1> QED
    BY <1>1, <1>2, PTL DEF ServiceSpec, Spec
================================================================================
