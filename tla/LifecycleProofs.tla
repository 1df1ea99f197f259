----------------------------- MODULE LifecycleProofs ---------------------------
(* Proofs about Lifecycle, for any requests and users and any number of        *)
(* peppers: pseudonyms come from one pepper, the schema is complete where it   *)
(* is used, and a server that has drained loses no request.                    *)
EXTENDS Lifecycle, TLAPS

USE KeysAssumption

(* The process has the pepper that is in the key file.                         *)
SaltIsLoaded == phase \in Configured => file /\ salt = text

(* While the pepper is being written no row has been, and every row comes from *)
(* the pepper in the key file.                                                 *)
KeyBeforeRows == phase = "writing" => file /\ pseudonyms = {}
OnePepper == \A p \in pseudonyms : file /\ p[2] = text

(* The tables that init_db has come to exist, and it starts from the first.    *)
CreatedExist == SchemaUpTo(created) \subseteq tables
CreatedByPhase == /\ phase \in {"down", "config", "writing", "environment"} => created = 0
                  /\ phase \in {"auth", "scheduler", "serving", "stopping"}
                        => created = Len(Schema)

(* Updates are handled by a process that serves or is about to end, and the    *)
(* server decides only the end of one that served.                             *)
HandlingWhileUp == handling => phase \in {"serving", "stopping"}
ServerEndsServing == by = "server" => phase \in {"stopping", "down"}

(* Nothing is cut off before the end.                                          *)
CutAtTheEnd == phase # "down" => cut = {}

IInv == /\ TypeOK
        /\ SaltIsLoaded
        /\ KeyBeforeRows
        /\ OnePepper
        /\ CreatedExist
        /\ CreatedByPhase
        /\ HandlingWhileUp
        /\ ServerEndsServing
        /\ CutAtTheEnd
        /\ DrainedServerLosesNothing

--------------------------------------------------------------------------------
(* init_db goes through the tables one by one.                                 *)
LEMMA SchemaFacts ==
  /\ Len(Schema) = 6
  /\ SchemaUpTo(0) = {}
  /\ \A n \in 0..5 : /\ SchemaUpTo(n + 1) = SchemaUpTo(n) \union {Schema[n + 1]}
                     /\ SchemaUpTo(n) \subseteq SchemaUpTo(6)
                     /\ SchemaUpTo(n + 1) \subseteq SchemaUpTo(6)
  <1>1. Len(Schema) = 6
    BY DEF Schema
  <1>2. SchemaUpTo(0) = {}
    BY DEF SchemaUpTo
  <1>3. ASSUME NEW n \in 0..5
        PROVE  /\ SchemaUpTo(n + 1) = SchemaUpTo(n) \union {Schema[n + 1]}
               /\ SchemaUpTo(n) \subseteq SchemaUpTo(6)
               /\ SchemaUpTo(n + 1) \subseteq SchemaUpTo(6)
    BY DEF SchemaUpTo
  <1> QED
    BY <1>1, <1>2, <1>3

(* A container that has never been started.                                    *)
LEMMA InitIInv == Init => IInv
  <1> SUFFICES ASSUME Init PROVE IInv
    OBVIOUS
  <1> USE DEF Init
  <1>1. PICK n \in 0..Len(Schema) : tables = SchemaUpTo(n)
    OBVIOUS
  <1>2. tables \subseteq SchemaUpTo(Len(Schema))
    BY <1>1, SchemaFacts
  <1>3. TypeOK
    <2>1. FlagsOK
      BY Zenon DEF TypeOK, FlagsOK
    <2>2. ValuesOK
      BY <1>2, SchemaFacts DEF TypeOK, ValuesOK, Phases, Booting, Places, Causes
    <2> QED
      BY <2>1, <2>2 DEF TypeOK
  <1>4. CreatedExist /\ CreatedByPhase
    BY SchemaFacts DEF CreatedExist, CreatedByPhase
  <1>5. SaltIsLoaded /\ KeyBeforeRows /\ OnePepper
    BY DEF SaltIsLoaded, Configured, KeyBeforeRows, OnePepper
  <1>6. HandlingWhileUp /\ ServerEndsServing /\ CutAtTheEnd
        /\ DrainedServerLosesNothing
    BY DEF HandlingWhileUp, ServerEndsServing, CutAtTheEnd, DrainedServerLosesNothing
  <1> QED
    BY <1>3, <1>4, <1>5, <1>6 DEF IInv

(* The process ends: the rows, the tables and the key file stay.               *)
LEMMA DownStep ==
  ASSUME IInv, NEW cause \in Causes, Down(cause),
         cause = "server" => phase = "stopping" /\ by = "server"
  PROVE  IInv'
  <1> USE DEF IInv, Down
  <1>1. TypeOK'
    <2>1. FlagsOK'
      BY Zenon DEF TypeOK, FlagsOK
    <2>2. ValuesOK'
      BY DEF TypeOK, ValuesOK, Phases
    <2> QED
      BY <2>1, <2>2 DEF TypeOK
  <1>2. SaltIsLoaded' /\ KeyBeforeRows' /\ OnePepper'
    BY DEF SaltIsLoaded, Configured, KeyBeforeRows, OnePepper
  <1>3. CreatedExist' /\ CreatedByPhase'
    BY SchemaFacts DEF CreatedExist, CreatedByPhase
  <1>4. HandlingWhileUp' /\ ServerEndsServing' /\ CutAtTheEnd'
    BY DEF HandlingWhileUp, ServerEndsServing, CutAtTheEnd
  <1>5. DrainedServerLosesNothing'
    BY DEF DrainedServerLosesNothing
  <1> QED
    BY <1>1, <1>2, <1>3, <1>4, <1>5

(* The ways a process ends: a failing start, main's return, a kill.            *)
LEMMA EndStep ==
  ASSUME IInv, StartUpFails \/ Exit \/ Kill
  PROVE  IInv'
  <1>1. CASE StartUpFails
    BY <1>1, DownStep DEF StartUpFails, Causes
  <1>2. CASE Exit
    BY <1>2, DownStep DEF Exit, IInv, TypeOK, ValuesOK
  <1>3. CASE Kill
    BY <1>3, DownStep DEF Kill, Causes
  <1> QED
    BY <1>1, <1>2, <1>3

(* A new container has the rows only if it has the pepper they come from.      *)
LEMMA RedeployStep ==
  ASSUME IInv, Redeploy
  PROVE  IInv'
  <1> USE DEF IInv, Redeploy, KeyPlace, signals, work
  <1>1. TypeOK'
    <2>1. FlagsOK'
      BY Zenon DEF TypeOK, FlagsOK
    <2>2. ValuesOK'
      BY DEF TypeOK, ValuesOK, Places
    <2> QED
      BY <2>1, <2>2 DEF TypeOK
  <1>2. SaltIsLoaded' /\ KeyBeforeRows'
    BY DEF SaltIsLoaded, Configured, KeyBeforeRows
  <1>3. OnePepper'
    BY DEF OnePepper
  <1>4. CreatedExist' /\ CreatedByPhase'
    BY SchemaFacts DEF CreatedExist, CreatedByPhase
  <1>5. HandlingWhileUp' /\ ServerEndsServing' /\ CutAtTheEnd'
        /\ DrainedServerLosesNothing'
    BY DEF HandlingWhileUp, ServerEndsServing, CutAtTheEnd, DrainedServerLosesNothing
  <1> QED
    BY <1>1, <1>2, <1>3, <1>4, <1>5

(* The pepper is loaded, or generated where no row can be from another one.    *)
LEMMA KeyStep ==
  ASSUME IInv, Boot \/ LoadSalt \/ CreateKeyFile \/ WriteKey
  PROVE  IInv'
  <1> USE DEF IInv, Boot, LoadSalt, CreateKeyFile, WriteKey, key, db, signals, work
  <1>1. TypeOK'
    <2>1. FlagsOK'
      BY Zenon DEF TypeOK, FlagsOK
    <2>2. ValuesOK'
      <3>1. text' \in 0..MaxKeys /\ drawn' \in 0..MaxKeys /\ salt' \in 0..MaxKeys
        BY DEF TypeOK, ValuesOK
      <3>2. phase' \in Phases /\ by' \in Causes /\ cut' \subseteq {"request", "update", "scan"}
        BY DEF TypeOK, ValuesOK, Phases, Booting, Causes
      <3> QED
        BY <3>1, <3>2 DEF TypeOK, ValuesOK
    <2> QED
      BY <2>1, <2>2 DEF TypeOK
  <1>2. SaltIsLoaded' /\ KeyBeforeRows'
    BY DEF SaltIsLoaded, Configured, KeyBeforeRows, OnePepper
  <1>3. OnePepper'
    BY DEF OnePepper, KeyBeforeRows
  <1>4. CreatedExist' /\ CreatedByPhase'
    BY DEF CreatedExist, CreatedByPhase
  <1>5. HandlingWhileUp' /\ ServerEndsServing' /\ CutAtTheEnd'
        /\ DrainedServerLosesNothing'
    BY DEF HandlingWhileUp, ServerEndsServing, CutAtTheEnd, DrainedServerLosesNothing
  <1> QED
    BY <1>1, <1>2, <1>3, <1>4, <1>5

(* One table more.                                                             *)
LEMMA InitDbStep ==
  ASSUME IInv, InitDb
  PROVE  IInv'
  <1> USE DEF IInv, InitDb, key, signals, work
  <1>1. created \in 0..5 /\ created' = created + 1
    BY SchemaFacts DEF TypeOK, ValuesOK
  <1>2. /\ tables' = tables \union {Schema[created + 1]}
        /\ tables' \subseteq SchemaUpTo(Len(Schema))
        /\ SchemaUpTo(created + 1) \subseteq tables'
    BY <1>1, SchemaFacts DEF TypeOK, ValuesOK, CreatedExist
  <1>3. TypeOK'
    <2>1. FlagsOK'
      BY Zenon DEF TypeOK, FlagsOK
    <2>2. ValuesOK'
      BY <1>1, <1>2, SchemaFacts DEF TypeOK, ValuesOK
    <2> QED
      BY <2>1, <2>2 DEF TypeOK
  <1>4. CreatedExist' /\ CreatedByPhase'
    BY <1>1, <1>2 DEF CreatedExist, CreatedByPhase
  <1>5. SaltIsLoaded' /\ KeyBeforeRows' /\ OnePepper'
    BY DEF SaltIsLoaded, KeyBeforeRows, OnePepper
  <1>6. HandlingWhileUp' /\ ServerEndsServing' /\ CutAtTheEnd'
        /\ DrainedServerLosesNothing'
    BY DEF HandlingWhileUp, ServerEndsServing, CutAtTheEnd, DrainedServerLosesNothing
  <1> QED
    BY <1>3, <1>4, <1>5, <1>6

(* main goes on, and the select! ends, with key and tables as they are.        *)
LEMMA PhaseStep ==
  ASSUME IInv,
         \/ ReadEnvironment \/ StartUp
         \/ Bind \/ ServerExits \/ Interrupted \/ DispatcherExits
  PROVE  IInv'
  <1> USE DEF IInv, ReadEnvironment, StartUp, Bind, ServerExits, Interrupted,
              DispatcherExits, Finish, key, db, signals, work
  <1>1. TypeOK'
    <2>1. FlagsOK'
      BY Zenon DEF TypeOK, FlagsOK
    <2>2. ValuesOK'
      BY DEF TypeOK, ValuesOK, Phases, Booting, Causes
    <2> QED
      BY <2>1, <2>2 DEF TypeOK
  <1>2. SaltIsLoaded' /\ KeyBeforeRows' /\ OnePepper'
    BY DEF SaltIsLoaded, Configured, KeyBeforeRows, OnePepper
  <1>3. CreatedExist' /\ CreatedByPhase'
    BY DEF CreatedExist, CreatedByPhase
  <1>4. HandlingWhileUp' /\ ServerEndsServing' /\ CutAtTheEnd'
    BY DEF HandlingWhileUp, ServerEndsServing, CutAtTheEnd
  <1>5. DrainedServerLosesNothing'
    BY DEF DrainedServerLosesNothing, ServerEndsServing, CutAtTheEnd
  <1> QED
    BY <1>1, <1>2, <1>3, <1>4, <1>5

(* A row gets the pepper that the process has, which is the file's.            *)
LEMMA FinishUpdateStep ==
  ASSUME IInv, FinishUpdate
  PROVE  IInv'
  <1> USE DEF IInv, FinishUpdate, key, signals
  <1>1. PICK u \in Users : pseudonyms' = pseudonyms \union {<<u, salt>>}
    BY DEF Pseudonym
  <1>2. file /\ salt = text /\ phase # "writing"
    BY DEF HandlingWhileUp, SaltIsLoaded, Configured
  <1>3. TypeOK'
    <2>1. FlagsOK'
      BY Zenon DEF TypeOK, FlagsOK
    <2>2. ValuesOK'
      BY <1>1 DEF TypeOK, ValuesOK
    <2> QED
      BY <2>1, <2>2 DEF TypeOK
  <1>4. OnePepper'
    BY <1>1, <1>2 DEF OnePepper
  <1>5. SaltIsLoaded' /\ KeyBeforeRows'
    BY <1>2 DEF SaltIsLoaded, KeyBeforeRows
  <1>6. CreatedExist' /\ CreatedByPhase'
    BY DEF CreatedExist, CreatedByPhase
  <1>7. HandlingWhileUp' /\ ServerEndsServing' /\ CutAtTheEnd'
        /\ DrainedServerLosesNothing'
    BY DEF HandlingWhileUp, ServerEndsServing, CutAtTheEnd, DrainedServerLosesNothing
  <1> QED
    BY <1>3, <1>4, <1>5, <1>6, <1>7

(* The other work of a process that serves, and its signals.                   *)
LEMMA WorkStep ==
  ASSUME IInv,
         \/ TakeUpdate \/ Scan \/ Signal \/ BeginDrain
         \/ \E r \in Requests : Accept(r) \/ Answer(r)
  PROVE  IInv'
  <1> USE DEF IInv, TakeUpdate, Scan, Signal, BeginDrain, Accept, Answer, key, db,
              signals, work
  <1>1. TypeOK'
    <2>1. FlagsOK'
      BY Zenon DEF TypeOK, FlagsOK
    <2>2. ValuesOK'
      BY DEF TypeOK, ValuesOK
    <2> QED
      BY <2>1, <2>2 DEF TypeOK
  <1>2. SaltIsLoaded' /\ KeyBeforeRows' /\ OnePepper'
    BY DEF SaltIsLoaded, KeyBeforeRows, OnePepper
  <1>3. CreatedExist' /\ CreatedByPhase'
    BY DEF CreatedExist, CreatedByPhase
  <1>4. HandlingWhileUp' /\ ServerEndsServing' /\ CutAtTheEnd'
    BY DEF HandlingWhileUp, ServerEndsServing, CutAtTheEnd
  <1>5. DrainedServerLosesNothing'
    BY DEF DrainedServerLosesNothing, ServerEndsServing
  <1> QED
    BY <1>1, <1>2, <1>3, <1>4, <1>5

(* Every step keeps the invariant.                                             *)
LEMMA NextIInv == IInv /\ [Next]_vars => IInv'
  <1>1. IInv /\ Next => IInv'
    BY EndStep, RedeployStep, KeyStep, InitDbStep, PhaseStep, FinishUpdateStep, WorkStep
       DEF Next
  <1>2. IInv /\ UNCHANGED vars => IInv'
    BY DEF vars, key, db, signals, work, IInv, TypeOK, FlagsOK, ValuesOK, SaltIsLoaded, KeyBeforeRows, OnePepper,
           CreatedExist, CreatedByPhase, HandlingWhileUp, ServerEndsServing, CutAtTheEnd,
           DrainedServerLosesNothing
  <1> QED
    BY <1>1, <1>2

(* Every reachable state satisfies the invariant.                              *)
THEOREM Inductive == Spec => []IInv
  BY InitIInv, NextIInv, PTL DEF Spec

(* Type correctness.                                                           *)
THEOREM TypeCorrect == Spec => []TypeOK
  <1>1. IInv => TypeOK
    BY DEF IInv
  <1> QED
    BY <1>1, Inductive, PTL

(* One person has one pseudonym, over restarts and new containers.             *)
THEOREM PseudonymsAreStable == Spec => []StablePseudonyms
  <1>1. IInv => StablePseudonyms
    BY DEF IInv, TypeOK, ValuesOK, OnePepper, StablePseudonyms
  <1> QED
    BY <1>1, Inductive, PTL

(* No part that uses the database runs before it has every table.              *)
THEOREM SchemaIsReady == Spec => []SchemaIsComplete
  <1>1. IInv => SchemaIsComplete
    BY DEF IInv, TypeOK, ValuesOK, CreatedExist, CreatedByPhase, SchemaIsComplete
  <1> QED
    BY <1>1, Inductive, PTL

(* A process that ends because its server has drained leaves no request.       *)
THEOREM DrainingLosesNothing == Spec => []DrainedServerLosesNothing
  <1>1. IInv => DrainedServerLosesNothing
    BY DEF IInv
  <1> QED
    BY <1>1, Inductive, PTL

(* No step draws a pepper beside rows, for there is a key file.                *)
LEMMA PepperStep ==
  IInv /\ IInv' /\ [Next]_vars =>
     [pseudonyms # {} /\ pseudonyms' # {} => KeepsPepper]_vars
  <1> SUFFICES ASSUME IInv, IInv', [Next]_vars, pseudonyms # {}, pseudonyms' # {}
               PROVE  KeepsPepper
    OBVIOUS
  <1> USE DEF IInv
  <1>1. file /\ file'
    BY DEF OnePepper
  <1>2. phase # "writing"
    BY DEF KeyBeforeRows
  <1>3. text' = text
    <2>1. CASE Redeploy
      BY <1>1, <2>1 DEF Redeploy
    <2>2. CASE CreateKeyFile \/ WriteKey
      BY <1>1, <1>2, <2>2 DEF CreateKeyFile, WriteKey
    <2>3. CASE StartUpFails \/ Exit \/ Kill
      BY <2>3 DEF StartUpFails, Exit, Kill, Down
    <2>4. CASE \/ Boot \/ LoadSalt \/ ReadEnvironment \/ InitDb \/ StartUp
               \/ Bind \/ TakeUpdate \/ FinishUpdate \/ Scan
               \/ \E r \in Requests : Accept(r) \/ Answer(r)
               \/ Signal \/ BeginDrain
               \/ ServerExits \/ Interrupted \/ DispatcherExits
               \/ UNCHANGED vars
      BY <2>4 DEF Boot, LoadSalt, ReadEnvironment, InitDb, StartUp, Bind, TakeUpdate,
                  FinishUpdate, Scan, Accept, Answer, Signal, BeginDrain, ServerExits,
                  Interrupted, DispatcherExits, Finish, key, vars
    <2> QED
      BY <2>1, <2>2, <2>3, <2>4 DEF Next
  <1>4. phase' \in Configured => salt' = text
    BY <1>3 DEF SaltIsLoaded, Configured
  <1> QED
    BY <1>1, <1>3, <1>4 DEF KeepsPepper

(* A pepper that rows come from is never replaced while they are kept.         *)
THEOREM PepperOutlivesStarts == Spec => PepperIsKept
  BY PepperStep, Inductive, PTL DEF Spec, PepperIsKept
================================================================================
