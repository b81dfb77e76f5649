------------------------------ MODULE ModuleInit ------------------------------
(***************************************************************************)
(* luaopen_mtstates() (src/main.c): any number of threads load the module  *)
(* into their interpreters at the same time.  The first one initializes    *)
(* the global lock, which the others await by polling, then each registers *)
(* its interpreter under that lock.  An interpreter that is closed takes   *)
(* its registration back.  Memory is assumed to suffice.                   *)
(***************************************************************************)
EXTENDS Naturals, FiniteSets

CONSTANTS
  Threads,   \* each has one interpreter at a time
  NoThread,
  StartIds,  \* what the clock and an address give for the first id
  MaxId      \* bound on the id counter

ASSUME InitAssumption ==
  /\ NoThread \notin Threads
  /\ MaxId \in Nat /\ StartIds \subseteq 1 .. MaxId

VARIABLES
  initStage,    \* 0, 1 while the global lock is initialized, then 2
  mutexInits,   \* the calls of async_mutex_init(&global_mutex)
  globalLock,   \* owner of the global lock
  initialized,  \* the id counter has its start value
  idCounter,    \* mtstates_id_counter
  stateCounter, \* the interpreters that have loaded the module
  sentinel,     \* threads whose interpreter has the sentinel
  pc

stageVars == <<initStage, mutexInits>>
registryVars == <<initialized, idCounter, stateCounter, sentinel>>
vars == <<stageVars, globalLock, registryVars, pc>>

PCs == {"run", "open", "claim", "poll", "init", "publish", "lock", "register",
        "lockclose", "closing"}

From(t, p, q) == pc[t] = p /\ pc' = [pc EXCEPT ![t] = q]

-----------------------------------------------------------------------------
(* The race for initStage *)

Open(t) == From(t, "run", "open") /\ UNCHANGED <<stageVars, globalLock, registryVars>>

LookAtStage(t) ==
  /\ From(t, "open", IF initStage = 2 THEN "lock" ELSE "claim")
  /\ UNCHANGED <<stageVars, globalLock, registryVars>>

(* atomic_set_if_equal(&initStage, 0, 1) *)
MayClaimUnlessReady == initStage # 2
MayClaim == initStage = 0
Claim(t) ==
  /\ From(t, "claim", IF MayClaim THEN "init" ELSE "poll")
  /\ initStage' = IF MayClaim THEN 1 ELSE initStage
  /\ UNCHANGED <<mutexInits, globalLock, registryVars>>

InitMutex(t) ==
  /\ From(t, "init", "publish")
  /\ mutexInits' = mutexInits + 1 /\ globalLock' = NoThread
  /\ UNCHANGED <<initStage, registryVars>>

StageKept == initStage
StageReady == 2
Publish(t) ==
  /\ From(t, "publish", "lock")
  /\ initStage' = StageReady
  /\ UNCHANGED <<mutexInits, globalLock, registryVars>>

(* look again after a millisecond, in a mutex of its own *)
Poll(t) ==
  /\ initStage = 2
  /\ From(t, "poll", "lock")
  /\ UNCHANGED <<stageVars, globalLock, registryVars>>

-----------------------------------------------------------------------------
(* The registration of an interpreter *)

Lock(t) ==
  /\ globalLock = NoThread
  /\ globalLock' = t
  /\ \/ From(t, "lock", "register")
     \/ From(t, "lockclose", "closing")
  /\ UNCHANGED <<stageVars, registryVars>>

StartIdAlways == StartIds
StartId == IF initialized THEN {idCounter} ELSE StartIds
CountedNever(t) == stateCounter
Counted(t) == IF t \in sentinel THEN stateCounter ELSE stateCounter + 1

Register(t) ==
  /\ From(t, "register", "run")
  /\ globalLock' = NoThread
  /\ initialized' = TRUE /\ idCounter' \in StartId
  /\ stateCounter' = Counted(t)
  /\ sentinel' = sentinel \cup {t}
  /\ UNCHANGED stageVars

(* lua_close() runs the finalizer of the sentinel; the thread can open an- *)
(* other interpreter after that                                            *)
CloseInterpreter(t) ==
  /\ t \in sentinel
  /\ From(t, "run", "lockclose")
  /\ UNCHANGED <<stageVars, globalLock, registryVars>>

HandleClosingLuaState(t) ==
  /\ From(t, "closing", "run")
  /\ globalLock' = NoThread
  /\ stateCounter' = stateCounter - 1
  /\ sentinel' = sentinel \ {t}
  /\ UNCHANGED <<stageVars, initialized, idCounter>>

(* newstate() takes an id under the global lock *)
TakeId(t) ==
  /\ t \in sentinel /\ pc[t] = "run"
  /\ globalLock = NoThread
  /\ idCounter < MaxId
  /\ idCounter' = idCounter + 1
  /\ UNCHANGED <<stageVars, globalLock, initialized, stateCounter, sentinel, pc>>

-----------------------------------------------------------------------------

Init ==
  /\ initStage = 0 /\ mutexInits = 0 /\ globalLock = NoThread
  /\ initialized = FALSE /\ idCounter = 0 /\ stateCounter = 0 /\ sentinel = {}
  /\ pc = [t \in Threads |-> "run"]

Request(t) == Open(t) \/ CloseInterpreter(t) \/ TakeId(t)

Step(t) ==
  \/ LookAtStage(t) \/ Claim(t) \/ InitMutex(t) \/ Publish(t) \/ Poll(t)
  \/ Register(t) \/ HandleClosingLuaState(t)

Next == \E t \in Threads : Request(t) \/ Step(t) \/ Lock(t)

Spec == Init /\ [][Next]_vars

(***************************************************************************)
(* A thread inside of luaopen_mtstates() or of lua_close() goes on, and    *)
(* gets the global lock when that is free again and again.                 *)
(***************************************************************************)
FairSpec == Spec /\ \A t \in Threads : WF_vars(Step(t)) /\ SF_vars(Lock(t))

-----------------------------------------------------------------------------

(* The variables have their types. *)
TypeOK ==
  /\ initStage \in 0 .. 2 /\ mutexInits \in Nat
  /\ globalLock \in Threads \cup {NoThread}
  /\ initialized \in BOOLEAN /\ idCounter \in 0 .. MaxId
  /\ stateCounter \in Nat /\ sentinel \subseteq Threads
  /\ pc \in [Threads -> PCs]

(* The global lock is initialized once, before anybody uses it, and a      *)
(* thread that is in its critical section has it: it is not initialized    *)
(* again under that thread.                                                *)
LockIsInitializedOnce ==
  /\ mutexInits <= 1
  /\ \A t \in Threads :
       /\ pc[t] \in {"lock", "register", "lockclose", "closing"} => mutexInits = 1
       /\ pc[t] \in {"register", "closing"} => globalLock = t

(* Ids are not given twice: the counter never goes back, in particular not *)
(* to a start value when another interpreter loads the module.             *)
IdsAreNotReused == [][idCounter' >= idCounter]_vars

(* Loading the module returns, and so does closing an interpreter. *)
LoadReturns == \A t \in Threads : pc[t] # "run" ~> pc[t] = "run"

=============================================================================
