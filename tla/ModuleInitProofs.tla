--------------------------- MODULE ModuleInitProofs ---------------------------
(***************************************************************************)
(* Proofs about ModuleInit, for any number of threads: the global lock is  *)
(* initialized once and before its use, and ids are not given twice.       *)
(***************************************************************************)
EXTENDS ModuleInit, FiniteSetTheorems, TLAPS

Initializing == {"init", "publish"}
Outside == {"run", "open", "claim"}
AfterInit == {"lock", "register", "lockclose", "closing"}

(* Where the threads are at each stage. *)
StagesAgree ==
  /\ mutexInits \in {0, 1}
  /\ initStage = 0 => mutexInits = 0 /\ \A t \in Threads : pc[t] \in Outside
  /\ initStage = 2 => mutexInits = 1 /\ \A t \in Threads : pc[t] \notin Initializing
  /\ \A t \in Threads :
       /\ pc[t] = "init" => initStage = 1 /\ mutexInits = 0
       /\ pc[t] = "publish" => initStage = 1 /\ mutexInits = 1
       /\ pc[t] \in AfterInit => initStage = 2
       /\ t \in sentinel => initStage = 2

(* The thread that has claimed the initialization is the only one. *)
OneInitializes ==
  \A t, u \in Threads :
    pc[t] \in Initializing /\ pc[u] \in Initializing => t = u

LockIsHeld == \A t \in Threads : pc[t] \in {"register", "closing"} => globalLock = t

CountIsExact ==
  /\ IsFiniteSet(sentinel) /\ stateCounter = Cardinality(sentinel)
  /\ \A t \in Threads : pc[t] \in {"lockclose", "closing"} => t \in sentinel

IdsStartOnce == ~initialized => idCounter = 0 /\ sentinel = {}

IInv == TypeOK /\ StagesAgree /\ OneInitializes /\ LockIsHeld /\ CountIsExact /\ IdsStartOnce

-----------------------------------------------------------------------------

LEMMA InitIInv == Init => IInv
<1> SUFFICES ASSUME Init PROVE IInv
  OBVIOUS
<1>1. TypeOK
  <2>1. initialized \in BOOLEAN
    BY Zenon DEF Init
  <2> QED
    BY <2>1, InitAssumption DEF InitAssumption, Init, TypeOK, PCs
<1>2. StagesAgree /\ OneInitializes /\ LockIsHeld /\ IdsStartOnce
  BY DEF Init, StagesAgree, OneInitializes, LockIsHeld, IdsStartOnce, Initializing,
         Outside, AfterInit
<1>3. CountIsExact
  BY FS_EmptySet DEF Init, CountIsExact
<1> QED
  BY <1>1, <1>2, <1>3 DEF IInv

(* A step before the lock leaves what it protects alone. *)
LEMMA StageSteps ==
  ASSUME IInv, NEW t \in Threads,
         Open(t) \/ LookAtStage(t) \/ Claim(t) \/ InitMutex(t) \/ Publish(t) \/ Poll(t)
         \/ CloseInterpreter(t)
  PROVE  IInv'
<1> USE DEF IInv, From
<1>0. TypeOK /\ UNCHANGED registryVars
  BY DEF Open, LookAtStage, Claim, InitMutex, Publish, Poll, CloseInterpreter
<1>1. TypeOK'
  BY <1>0 DEF TypeOK, PCs, Open, LookAtStage, Claim, MayClaim, InitMutex, Publish, StageReady,
         Poll, CloseInterpreter, stageVars, registryVars
<1>2. StagesAgree' /\ OneInitializes'
  <2> USE <1>0 DEF TypeOK, StagesAgree, OneInitializes, Initializing, Outside, AfterInit,
                   stageVars, registryVars
  <2>1. CASE Open(t) \/ LookAtStage(t) \/ Poll(t) \/ CloseInterpreter(t)
    BY <2>1 DEF Open, LookAtStage, Poll, CloseInterpreter
  <2>2. CASE Claim(t)
    BY <2>2 DEF Claim, MayClaim
  <2>3. CASE InitMutex(t)
    BY <2>3 DEF InitMutex
  <2>4. CASE Publish(t)
    BY <2>4 DEF Publish, StageReady
  <2> QED
    BY <2>1, <2>2, <2>3, <2>4
<1>3. LockIsHeld'
  <2> USE <1>0 DEF TypeOK, StagesAgree, LockIsHeld, AfterInit, stageVars
  <2>1. CASE InitMutex(t)
    BY <2>1 DEF InitMutex
  <2>2. CASE ~InitMutex(t)
    BY <2>2 DEF Open, LookAtStage, Claim, Publish, Poll, CloseInterpreter
  <2> QED
    BY <2>1, <2>2
<1>4. CountIsExact' /\ IdsStartOnce'
  BY <1>0 DEF CountIsExact, IdsStartOnce, TypeOK, registryVars,
         Open, LookAtStage, Claim, InitMutex, Publish, Poll, CloseInterpreter
<1> QED
  BY <1>1, <1>2, <1>3, <1>4

(* The steps around and inside of the critical sections. *)
LEMMA LockSteps ==
  ASSUME IInv, NEW t \in Threads,
         Lock(t) \/ Register(t) \/ HandleClosingLuaState(t) \/ TakeId(t)
  PROVE  IInv' /\ idCounter' >= idCounter
<1> USE DEF IInv, From
<1>0. UNCHANGED stageVars
  BY DEF Lock, Register, HandleClosingLuaState, TakeId
<1>1. StagesAgree' /\ OneInitializes'
  BY <1>0 DEF TypeOK, StagesAgree, OneInitializes, Initializing, Outside, AfterInit,
         stageVars, registryVars, Lock, Register, HandleClosingLuaState, TakeId
<1>2. LockIsHeld'
  BY InitAssumption DEF InitAssumption, TypeOK, LockIsHeld, Lock, Register, HandleClosingLuaState, TakeId
<1>3. CountIsExact'
  <2> USE DEF TypeOK, CountIsExact
  <2>1. CASE Register(t)
    BY <2>1, FS_AddElement DEF Register, Counted
  <2>2. CASE HandleClosingLuaState(t)
    BY <2>2, FS_RemoveElement DEF HandleClosingLuaState
  <2>3. CASE Lock(t) \/ TakeId(t)
    BY <2>3 DEF Lock, TakeId, registryVars
  <2> QED
    BY <2>1, <2>2, <2>3
<1>4. idCounter' \in 0 .. MaxId /\ idCounter' >= idCounter
  <2>1. CASE Register(t) /\ initialized
    BY <2>1 DEF Register, StartId, TypeOK
  <2>2. CASE Register(t) /\ ~initialized
    <3>1. idCounter = 0
      BY <2>2, Zenon DEF IdsStartOnce
    <3>2. idCounter' \in StartIds
      BY <2>2, Zenon DEF Register, StartId
    <3> QED
      BY <3>1, <3>2, InitAssumption DEF InitAssumption
  <2>3. CASE Lock(t) \/ HandleClosingLuaState(t) \/ TakeId(t)
    BY <2>3, InitAssumption
    DEF InitAssumption, TypeOK, registryVars, Lock, HandleClosingLuaState, TakeId
  <2> QED
    BY <2>1, <2>2, <2>3, Zenon
<1>6. IdsStartOnce'
  <2>1. CASE Register(t)
    BY <2>1, Zenon DEF Register, IdsStartOnce
  <2>2. CASE Lock(t) \/ HandleClosingLuaState(t)
    BY <2>2 DEF IdsStartOnce, registryVars, Lock, HandleClosingLuaState
  <2>3. CASE TakeId(t)
    <3>1. initialized
      BY <2>3, Zenon DEF TakeId, IdsStartOnce
    <3> QED
      BY <2>3, <3>1, Zenon DEF TakeId, IdsStartOnce
  <2> QED
    BY <2>1, <2>2, <2>3, Zenon
<1>5. TypeOK'
  <2>1. stateCounter' \in Nat
    BY <1>3, FS_CardinalityType DEF CountIsExact
  <2> QED
    BY <1>0, <1>4, <2>1
    DEF TypeOK, PCs, stageVars, registryVars, Lock, Register, HandleClosingLuaState, TakeId
<1> QED
  BY <1>1, <1>2, <1>3, <1>4, <1>5, <1>6

LEMMA NextIInv == IInv /\ [Next]_vars => IInv'
<1> SUFFICES ASSUME IInv, [Next]_vars PROVE IInv'
  OBVIOUS
<1>1. ASSUME NEW t \in Threads, Request(t) \/ Step(t) \/ Lock(t) PROVE IInv'
  BY <1>1, StageSteps, LockSteps DEF Request, Step
<1>2. CASE UNCHANGED vars
  BY <1>2 DEF vars, stageVars, registryVars, IInv, TypeOK, StagesAgree, OneInitializes,
              LockIsHeld, CountIsExact, IdsStartOnce
<1> QED
  BY <1>1, <1>2 DEF Next

(* The invariant that relates the stages of the initialization with the    *)
(* places of all threads, the lock, the sentinels and the counters.        *)
THEOREM Invariance == Spec => []IInv
  BY InitIInv, NextIInv, PTL DEF Spec

(* The variables have their types. *)
THEOREM TypeCorrect == Spec => []TypeOK
<1>1. IInv => TypeOK
  BY DEF IInv
<1> QED
  BY Invariance, <1>1, PTL

(* luaopen_mtstates() initializes the global lock once, before it is used, *)
(* and never under a thread that has it, however many threads load it.     *)
THEOREM InitializedOnce == Spec => []LockIsInitializedOnce
<1>1. IInv => LockIsInitializedOnce
  BY DEF IInv, TypeOK, StagesAgree, LockIsHeld, LockIsInitializedOnce, Outside, Initializing,
         AfterInit
<1> QED
  BY Invariance, <1>1, PTL

(* The id counter never goes back, so newstate() does not give an id again *)
(* (below the bound of the model, that is, before 32 bits are used up).    *)
THEOREM IdsGoUp == Spec => IdsAreNotReused
<1>1. IInv /\ [Next]_vars => [idCounter' >= idCounter]_vars
  <2> SUFFICES ASSUME IInv, Next PROVE idCounter' >= idCounter
    BY DEF vars
  <2>1. PICK t \in Threads : Request(t) \/ Step(t) \/ Lock(t)
    BY DEF Next
  <2>2. CASE Lock(t) \/ Register(t) \/ HandleClosingLuaState(t) \/ TakeId(t)
    BY <2>2, LockSteps
  <2>3. CASE UNCHANGED registryVars
    BY <2>3 DEF registryVars, IInv, TypeOK
  <2> QED
    BY <2>1, <2>2, <2>3
    DEF Request, Step, Open, CloseInterpreter, LookAtStage, Claim, InitMutex, Publish, Poll
<1> QED
  BY Invariance, <1>1, PTL DEF Spec, IdsAreNotReused

=============================================================================
