------------------------------ MODULE TokensProofs -----------------------------
(* Proofs about Tokens, for any users, chats and number of UUIDs: IInv is      *)
(* inductive, what get_or_create_token returns was stored for its user, and    *)
(* only a reset of its own user replaces a token.                              *)
EXTENDS Tokens, TLAPS

USE NoUserAssumption, MaxTokensAssumption

(* No handler runs and api_tokens is empty.                                    *)
LEMMA InitIInv == Init => IInv
  BY DEF Init, IInv, TypeOK, HandlerHasUser, SelectFindsARow, RowsAreStored,
         DeliveredTokenWasStored, Stages

(* A new handler has a user, and has not come to the SELECT.                   *)
LEMMA TakeStep ==
  ASSUME IInv, NEW c \in Chats, NEW u \in Users, NEW stage \in {"insert", "update"},
         Take(c, u, stage)
  PROVE  IInv'
  <1> USE DEF Take
  <1>1. TypeOK'
    BY DEF IInv, TypeOK, Stages
  <1>2. HandlerHasUser'
    BY DEF IInv, TypeOK, HandlerHasUser
  <1>3. SelectFindsARow'
    BY DEF IInv, TypeOK, SelectFindsARow
  <1>4. RowsAreStored'
    BY DEF IInv, RowsAreStored
  <1>5. DeliveredTokenWasStored'
    BY DEF IInv, TypeOK, DeliveredTokenWasStored
  <1> QED
    BY <1>1, <1>2, <1>3, <1>4, <1>5 DEF IInv

(* The next UUID is a token. *)
LEMMA DrawnToken ==
  ASSUME IInv, Draw
  PROVE  drawn' \in 1..MaxTokens /\ drawn' \in 0..MaxTokens /\ drawn' # 0
  BY DEF IInv, TypeOK, Draw

(* Storing a token takes no row away and keeps what was ever stored.           *)
LEMMA StoreStep ==
  ASSUME IInv, NEW u \in Users, Draw, Store(u)
  PROVE  /\ row' \in [Users -> 0..MaxTokens]
         /\ stored' \subseteq Users \X (1..MaxTokens)
         /\ stored \subseteq stored'
         /\ row'[u] # 0
         /\ \A v \in Users : row[v] # 0 => row'[v] # 0
         /\ RowsAreStored'
  BY DrawnToken DEF IInv, TypeOK, Store, RowsAreStored

(* After the INSERT, whether it was ignored or not, the user has a row.        *)
LEMMA InsertStep ==
  ASSUME IInv, NEW c \in Chats, Insert(c)
  PROVE  IInv'
  <1> USE DEF Insert, Goto
  <1>1. user[c] \in Users /\ pc[c] = "insert"
    BY DEF IInv, HandlerHasUser
  <1>2. /\ row' \in [Users -> 0..MaxTokens]
        /\ drawn' \in 0..MaxTokens
        /\ stored' \subseteq Users \X (1..MaxTokens)
        /\ stored \subseteq stored'
        /\ row'[user[c]] # 0
        /\ \A v \in Users : row[v] # 0 => row'[v] # 0
        /\ RowsAreStored'
    <2>1. CASE Draw /\ Store(user[c])
      BY <1>1, <2>1, StoreStep, DrawnToken
    <2>2. CASE row[user[c]] # 0 /\ UNCHANGED <<row, drawn, stored>>
      BY <1>1, <2>2 DEF IInv, TypeOK, RowsAreStored
    <2> QED
      BY <2>1, <2>2
  <1>3. TypeOK'
    BY <1>2 DEF IInv, TypeOK, Stages
  <1>4. HandlerHasUser'
    BY <1>1 DEF IInv, TypeOK, HandlerHasUser
  <1>5. SelectFindsARow'
    BY <1>1, <1>2 DEF IInv, TypeOK, HandlerHasUser, SelectFindsARow
  <1>6. DeliveredTokenWasStored'
    BY <1>2 DEF IInv, TypeOK, DeliveredTokenWasStored
  <1> QED
    BY <1>2, <1>3, <1>4, <1>5, <1>6 DEF IInv

(* The SELECT finds a row, whose token was stored.                             *)
LEMMA SelectStep ==
  ASSUME IInv, NEW c \in Chats, Select(c)
  PROVE  IInv'
  <1> USE DEF Select, Goto
  <1>1. user[c] \in Users /\ row[user[c]] # 0
    BY DEF IInv, HandlerHasUser, SelectFindsARow
  <1>2. TypeOK'
    BY <1>1 DEF IInv, TypeOK, Stages
  <1>3. HandlerHasUser'
    BY <1>1 DEF IInv, TypeOK, HandlerHasUser
  <1>4. SelectFindsARow'
    BY DEF IInv, TypeOK, SelectFindsARow
  <1>5. RowsAreStored'
    BY DEF IInv, RowsAreStored
  <1>6. DeliveredTokenWasStored'
    BY <1>1 DEF IInv, TypeOK, DeliveredTokenWasStored, RowsAreStored
  <1> QED
    BY <1>2, <1>3, <1>4, <1>5, <1>6 DEF IInv

(* The UPDATE replaces the row of the user of the handler, if there is one.    *)
LEMMA RotateStep ==
  ASSUME IInv, NEW c \in Chats, Rotate(c)
  PROVE  IInv'
  <1> USE DEF Rotate, Goto
  <1>1. user[c] \in Users
    BY DEF IInv, HandlerHasUser
  <1>2. /\ row' \in [Users -> 0..MaxTokens]
        /\ stored' \subseteq Users \X (1..MaxTokens)
        /\ stored \subseteq stored'
        /\ \A v \in Users : row[v] # 0 => row'[v] # 0
        /\ RowsAreStored'
    <2>1. CASE Store(user[c])
      BY <1>1, <2>1, StoreStep
    <2>2. CASE UNCHANGED <<row, stored>>
      BY <2>2 DEF IInv, TypeOK, RowsAreStored
    <2> QED
      BY <2>1, <2>2
  <1>3. TypeOK'
    BY <1>2, DrawnToken DEF IInv, TypeOK, Stages
  <1>4. HandlerHasUser'
    BY <1>1 DEF IInv, TypeOK, HandlerHasUser
  <1>5. SelectFindsARow'
    BY <1>2 DEF IInv, TypeOK, HandlerHasUser, SelectFindsARow
  <1>6. DeliveredTokenWasStored'
    BY <1>2 DEF IInv, TypeOK, DeliveredTokenWasStored
  <1> QED
    BY <1>2, <1>3, <1>4, <1>5, <1>6 DEF IInv

(* Sending the assets and answering the callback change nothing but the stage. *)
LEMMA StageStep ==
  ASSUME IInv, NEW c \in Chats, SendAssets(c) \/ AnswerCallback(c)
  PROVE  IInv'
  <1> USE DEF SendAssets, AnswerCallback, Goto
  <1>1. TypeOK'
    BY DEF IInv, TypeOK, Stages
  <1>2. HandlerHasUser'
    BY DEF IInv, TypeOK, HandlerHasUser
  <1>3. SelectFindsARow'
    BY DEF IInv, TypeOK, SelectFindsARow
  <1>4. RowsAreStored'
    BY DEF IInv, RowsAreStored
  <1>5. DeliveredTokenWasStored'
    BY DEF IInv, TypeOK, DeliveredTokenWasStored
  <1> QED
    BY <1>1, <1>2, <1>3, <1>4, <1>5 DEF IInv

(* A handler that ends, having sent its token or not, leaves the table alone.  *)
LEMMA DoneStep ==
  ASSUME IInv, NEW c \in Chats, Done(c), UNCHANGED <<row, drawn, stored>>,
         sent' \in [Users -> 0..MaxTokens]
  PROVE  IInv'
  <1> USE DEF Done
  <1>1. TypeOK'
    BY DEF IInv, TypeOK, Stages
  <1>2. HandlerHasUser'
    BY DEF IInv, TypeOK, HandlerHasUser
  <1>3. SelectFindsARow'
    BY DEF IInv, TypeOK, SelectFindsARow
  <1>4. RowsAreStored'
    BY DEF IInv, RowsAreStored
  <1>5. DeliveredTokenWasStored'
    BY DEF IInv, TypeOK, DeliveredTokenWasStored
  <1> QED
    BY <1>1, <1>2, <1>3, <1>4, <1>5 DEF IInv

(* After a restart no handler runs.                                            *)
LEMMA CrashStep == IInv /\ Crash => IInv'
  BY DEF Crash, IInv, TypeOK, Stages, HandlerHasUser, SelectFindsARow,
         RowsAreStored, DeliveredTokenWasStored

(* The invariant is about the variables of Tokens only.                        *)
LEMMA StutterStep == IInv /\ UNCHANGED vars => IInv'
  BY DEF vars, IInv, TypeOK, HandlerHasUser, SelectFindsARow, RowsAreStored,
         DeliveredTokenWasStored

(* The inductive step, action by action.                                       *)
LEMMA NextIInv == IInv /\ [Next]_vars => IInv'
  <1> SUFFICES ASSUME IInv, [Next]_vars PROVE IInv'
    OBVIOUS
  <1>1. ASSUME NEW c \in Chats, NEW u \in Users,
               RequestToken(c, u) \/ RequestReset(c, u)
        PROVE  IInv'
    BY <1>1, TakeStep DEF RequestToken, RequestReset
  <1>2. ASSUME NEW c \in Chats, SendToken(c)
        PROVE  IInv'
    <2>1. sent' \in [Users -> 0..MaxTokens]
      BY <1>2 DEF SendToken, IInv, TypeOK, HandlerHasUser
    <2> QED
      BY <1>2, <2>1, DoneStep DEF SendToken
  <1>3. ASSUME NEW c \in Chats, Fail(c)
        PROVE  IInv'
    BY <1>3, DoneStep DEF Fail, GiveUp, IInv, TypeOK
  <1>4. ASSUME NEW c \in Chats,
               \/ Insert(c) \/ Select(c) \/ SendAssets(c)
               \/ Rotate(c) \/ AnswerCallback(c)
        PROVE  IInv'
    BY <1>4, InsertStep, SelectStep, StageStep, RotateStep
  <1>5. CASE Crash \/ UNCHANGED vars
    BY <1>5, CrashStep, StutterStep
  <1> QED
    BY <1>1, <1>2, <1>3, <1>4, <1>5 DEF Next, Handle

(* Every reachable state satisfies the inductive invariant.                    *)
THEOREM Inductive == Spec => []IInv
  BY InitIInv, NextIInv, PTL DEF Spec

(* What get_or_create_token returns was stored for its user, whoever won the   *)
(* race of the INSERTs.                                                        *)
THEOREM TokensAreStored == Spec => []DeliveredTokenWasStored
  <1>1. IInv => DeliveredTokenWasStored
    BY DEF IInv
  <1> QED
    BY <1>1, Inductive, PTL

(* A valid token is replaced by a reset of its own user and by nothing else.   *)
THEOREM ResetsAreOwn == Spec => OnlyOwnResetRevokes
  <1> DEFINE OwnReset ==
        \A u \in Users : row[u] # 0 /\ row'[u] # row[u]
            => \E c \in Chats : pc[c] = "update" /\ user[c] = u
  <1>1. ASSUME IInv, Next, NEW u \in Users, row[u] # 0, row'[u] # row[u]
        PROVE  \E c \in Chats : pc[c] = "update" /\ user[c] = u
    <2>1. PICK c \in Chats : Insert(c) \/ Rotate(c)
      BY <1>1 DEF Next, Handle, RequestToken, RequestReset, Take, Select, SendAssets,
                  SendToken, AnswerCallback, Fail, GiveUp, Crash
    <2>2. user[c] \in Users
      BY <2>1, <1>1 DEF Insert, Rotate, IInv, HandlerHasUser
    <2>3. CASE Insert(c)
      BY <1>1, <2>2, <2>3 DEF Insert, Store, IInv, TypeOK
    <2>4. CASE Rotate(c)
      BY <1>1, <2>2, <2>4 DEF Rotate, Store, IInv, TypeOK
    <2> QED
      BY <2>1, <2>3, <2>4
  <1>2. IInv /\ [Next]_vars => [OwnReset]_vars
    BY <1>1
  <1> QED
    BY <1>2, Inductive, PTL DEF Spec, OnlyOwnResetRevokes
================================================================================
