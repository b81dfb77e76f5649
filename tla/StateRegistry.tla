---------------------------- MODULE StateRegistry ----------------------------
(***************************************************************************)
(* The life of MtState objects (src/state.c): mtstates.newstate(),         *)
(* mtstates.state() and mtstates.singleton() create and find them under    *)
(* the global lock, references to them are counted, collected by the Lua   *)
(* garbage collector and retained by native code, and the last reference   *)
(* frees them.  Calls are followed as far as they hold a state busy.       *)
(*                                                                         *)
(* All mutexes are recursive.  A critical section in which nothing can     *)
(* block is one step.  Where a thread blocks while it holds a mutex (for   *)
(* stateMutex under the global lock, for the global lock in a finalizer    *)
(* that lua_close() runs under stateMutex) the mutex stays locked between  *)
(* two steps.  Invocations that only raise an error change nothing and are *)
(* left out, unless they have locked something before.                     *)
(***************************************************************************)
EXTENDS Naturals, FiniteSets

CONSTANTS
  Threads,   \* operating system threads, each with a Lua state of its own
  States,    \* the MtState objects that are ever allocated, and their ids
  Refs,      \* userdata objects and native handles, those that exist at a time
  Names,     \* state names
  NoThread, NoState, NoRef, NoName,
  Modes,     \* what is invoked: "new", "find", "singleton"
  Features   \* what else happens in a run

AllModes == {"new", "find", "singleton"}
AllFeatures == {"retain",   \* native code retains handles and notifies
                "module",   \* setup functions require "mtstates"
                "fail",     \* creating a state and setup functions may fail
                "findFails", \* memory may run short when an object was found
                "gcInFind", \* a find may collect references to what it found
                "gcInCall"} \* a call may collect the reference it was made with

ASSUME RegistryAssumption ==
  /\ NoThread \notin Threads /\ NoState \notin States
  /\ NoRef \notin Refs /\ IsFiniteSet(Refs) /\ NoName \notin Names
  /\ Names \cap States = {}
  /\ Modes \subseteq AllModes /\ Features \subseteq AllFeatures

VARIABLES
  globalLock, \* owner of mtstates_global_lock
  stateMutex, \* owner of each MtState.stateMutex
  obj,        \* the MtState objects
  ref,        \* the references
  pc,         \* where each thread is
  op          \* the invocation a thread is in

vars == <<globalLock, stateMutex, obj, ref, pc, op>>

(* alloc and listed stand for the memory and for membership in a bucket,  *)
(* L2 for an open interpreter, loaded for one that holds the sentinel     *)
(* whose finalizer locks the global lock when the interpreter is closed   *)
Objects == [alloc : {"unused", "live", "freed"}, listed : BOOLEAN,
            name : Names \cup {NoName}, initialized : BOOLEAN,
            closed : BOOLEAN, isBusy : BOOLEAN, L2 : BOOLEAN,
            loaded : BOOLEAN, used : Nat, owned : Nat]

Unused == [alloc |-> "unused", listed |-> FALSE, name |-> NoName,
           initialized |-> FALSE, closed |-> FALSE, isBusy |-> FALSE,
           L2 |-> FALSE, loaded |-> FALSE, used |-> 0, owned |-> 0]

(* "owner" and "plain" are StateUserData with and without isOwner, "lost" *)
(* is the owning one that a failed newstate() leaves to the collector     *)
References == [state : States, kind : {"owner", "plain", "lost", "native"},
               holder : Threads]

ASSUME ReferenceAssumption == NoRef \notin References

PCs == {"run", "lookup", "examine", "waiting", "relock", "makeref", "failed",
        "create", "setup", "require", "release", "free", "closing", "callwait", "callrelock",
        "calling", "ending"}

Operations == [mode : AllModes \cup {"none"},
               want : Names \cup States \cup {NoName},
               state : States \cup {NoState}, ref : Refs \cup {NoRef}]

NoOp == [mode |-> "none", want |-> NoName, state |-> NoState, ref |-> NoRef]

-----------------------------------------------------------------------------
(* Helpers *)

GlobalFree(t) == globalLock \in {NoThread, t}
MutexFree(t, s) == stateMutex[s] \in {NoThread, t}

Goto(t, p) == pc' = [pc EXCEPT ![t] = p]

(* the invocation of t ends; newState1 writes to its object once more, to   *)
(* which t has a reference then, if it did not fail at "makeref"           *)
Finish(t) == Goto(t, "run") /\ op' = [op EXCEPT ![t] = NoOp]

(* r is neither a reference nor about to become one *)
Fresh(r) == ref[r] = NoRef /\ \A t \in Threads : op[t].ref # r

IsRef(r) == ref[r] # NoRef
IsOwner(r) == ref[r].kind \in {"owner", "lost"}

(* r is a reference that code of t can use *)
Usable(t, r) == IsRef(r) /\ ref[r].holder = t /\ ref[r].kind # "lost"

(* t starts an operation on the object of r *)
Use(t, r, p) ==
  /\ Goto(t, p)
  /\ op' = [op EXCEPT ![t].state = ref[r].state, ![t].ref = r]

Waiting(s) == {t \in Threads : pc[t] \in {"waiting", "callwait"} /\ op[t].state = s}
Awake(t) == IF pc[t] = "waiting" THEN "relock" ELSE "callrelock"

(* async_mutex_notify by t, which goes on at p *)
NotifyNobody(t, s, p) == Goto(t, p)
Notify(t, s, p) ==
  IF Waiting(s) = {} THEN Goto(t, p)
  ELSE \E w \in Waiting(s) : pc' = [pc EXCEPT ![t] = p, ![w] = Awake(w)]

(* MtState_free: the object leaves its bucket, its interpreter is closed *)
Freed(o) == [o EXCEPT !.alloc = "freed", !.listed = FALSE, !.L2 = FALSE,
                      !.loaded = FALSE, !.used = 0]

(* the part of MtState_release under stateMutex *)
DisownedIdle(o) ==
  LET closes == o.owned = 1 /\ ~o.isBusy
  IN  [o EXCEPT !.owned = @ - 1,
                !.closed = @ \/ closes,
                !.L2 = @ /\ ~closes,
                !.loaded = @ /\ ~closes]
Disowned(o) ==
  LET last == o.owned = 1
      closes == last /\ ~o.isBusy
  IN  [o EXCEPT !.owned = @ - 1,
                !.closed = @ \/ last,
                !.L2 = @ /\ ~closes,
                !.loaded = @ /\ ~closes]

(* the object after MtState_release of r *)
ReleasedListed(r, o) ==
  LET d == IF IsOwner(r) THEN Disowned(o) ELSE o
  IN  IF d.used = 1 /\ d.listed THEN Freed(d) ELSE [d EXCEPT !.used = @ - 1]
ReleasedByOwner(r, o) ==
  LET d == IF IsOwner(r) THEN Disowned(o) ELSE o
  IN  IF d.owned = 0 THEN Freed(d) ELSE [d EXCEPT !.used = @ - 1]
Released(r, o) ==
  LET d == IF IsOwner(r) THEN Disowned(o) ELSE o
  IN  IF d.used = 1 THEN Freed(d) ELSE [d EXCEPT !.used = @ - 1]

Release(r) ==
  /\ obj' = [obj EXCEPT ![ref[r].state] = Released(r, @)]
  /\ ref' = [ref EXCEPT ![r] = NoRef]

-----------------------------------------------------------------------------
(* newstate(), state() and singleton() *)

(* the names and ids that m can be invoked with *)
Wants(m) ==
  IF m = "new" THEN Names \cup {NoName} ELSE Names \cup States

(* t invokes m for a name or an id, r becomes the reference that results *)
Start(t, m, w, r) ==
  /\ pc[t] = "run"
  /\ Fresh(r)
  /\ w \in Wants(m)
  /\ Goto(t, IF m = "new" THEN "create" ELSE "lookup")
  /\ op' = [op EXCEPT ![t] = [mode |-> m, want |-> w, state |-> NoState, ref |-> r]]
  /\ UNCHANGED <<globalLock, stateMutex, obj, ref>>

(* findStateWithName and findStateWithId; only singleton() considers *)
(* objects that are not initialized                                  *)
MatchesInitialized(t) ==
  {s \in States :
    /\ obj[s].listed /\ ~obj[s].closed /\ obj[s].initialized
    /\ op[t].want \in {obj[s].name, s}}
Matches(t) ==
  {s \in States :
    /\ obj[s].listed /\ ~obj[s].closed
    /\ \/ op[t].want = obj[s].name /\ (obj[s].initialized \/ op[t].mode = "singleton")
       \/ op[t].want = s /\ obj[s].initialized}

Creates(t) == op[t].mode = "singleton" /\ op[t].want \in Names

(* the lookup under the global lock, which stays locked when it goes on *)
Lookup(t) ==
  LET found == Matches(t) IN
  /\ pc[t] = "lookup" /\ GlobalFree(t)
  /\ \/ \E s \in States :
          /\ found = {s}
          /\ globalLock' = t
          /\ Goto(t, "examine")
          /\ op' = [op EXCEPT ![t].state = s]
     \/ /\ found = {} /\ Creates(t)
        /\ globalLock' = t
        /\ Goto(t, "create")
        /\ UNCHANGED op
     \/ (* unknown_object or ambiguous_name *)
        /\ (found = {} /\ ~Creates(t)) \/ Cardinality(found) > 1
        /\ globalLock' = NoThread
        /\ Finish(t)
  /\ UNCHANGED <<stateMutex, obj, ref>>

(* async_mutex_wait: t sleeps and stateMutex is free, the global lock stays *)
(* locked                                                                   *)
Sleep(t, s) == Goto(t, "waiting") /\ UNCHANGED stateMutex

(* t goes on to make the reference, with both mutexes locked *)
Take(t, s) ==
  /\ stateMutex' = [stateMutex EXCEPT ![s] = t]
  /\ Goto(t, "makeref")
  /\ UNCHANGED obj

(* what singleton() does with an object that was not initialized when it *)
(* was found: wait, then take a state that is ready or take the name     *)
(* away from one that was given up and look again                        *)
Await(t, s) ==
  IF obj[s].isBusy THEN Sleep(t, s) /\ UNCHANGED obj
  ELSE IF obj[s].initialized THEN Take(t, s)
  ELSE /\ obj' = [obj EXCEPT ![s].name = NoName]
       /\ Goto(t, "lookup")
       /\ UNCHANGED stateMutex

(* only singleton() can find an object that is not initialized *)
ReadyAlways(s) == TRUE
Ready(s) == obj[s].initialized

Examine(t) ==
  LET s == op[t].state IN
  /\ pc[t] = "examine" /\ MutexFree(t, s)
  /\ IF Ready(s) THEN Take(t, s) ELSE Await(t, s)
  /\ UNCHANGED <<globalLock, ref, op>>

Relock(t) ==
  /\ pc[t] = "relock" /\ MutexFree(t, op[t].state)
  /\ Await(t, op[t].state)
  /\ UNCHANGED <<globalLock, ref, op>>

(* lua_newuserdata() before the reference is counted: the collector may *)
(* run MtState_release for a reference that t has dropped               *)
CollectInFind(t, r) ==
  /\ pc[t] = "makeref"
  /\ IsRef(r) /\ ref[r].kind # "native" /\ ref[r].holder = t
  /\ (ref[r].state = op[t].state) => ("gcInFind" \in Features)
  /\ MutexFree(t, ref[r].state)
  /\ Release(r)
  /\ UNCHANGED <<globalLock, stateMutex, pc, op>>

CountedPlain(o, owner) == [o EXCEPT !.used = @ + 1]
Counted(o, owner) == [o EXCEPT !.used = @ + 1, !.owned = IF owner THEN @ + 1 ELSE @]

MakeRef(t) ==
  LET s == op[t].state
      owner == op[t].mode = "singleton"
  IN
  /\ pc[t] = "makeref"
  /\ ref' = [ref EXCEPT ![op[t].ref] =
               [state |-> s, kind |-> IF owner THEN "owner" ELSE "plain", holder |-> t]]
  /\ obj' = [obj EXCEPT ![s] = Counted(@, owner)]
  /\ globalLock' = NoThread
  /\ stateMutex' = [stateMutex EXCEPT ![s] = NoThread]
  /\ Finish(t)

(* there is no memory for the userdata or its metatable: newState1 unlocks *)
(* both mutexes, then it writes to the object, which t has no reference to *)
MakeRefFails(t) ==
  /\ "findFails" \in Features
  /\ pc[t] = "makeref"
  /\ globalLock' = NoThread
  /\ stateMutex' = [stateMutex EXCEPT ![op[t].state] = NoThread]
  /\ Goto(t, "failed")
  /\ UNCHANGED <<obj, ref, op>>

FindFailed(t) ==
  /\ pc[t] = "failed"
  /\ Finish(t)
  /\ UNCHANGED <<globalLock, stateMutex, obj, ref>>

(* nothing has been allocated when the arguments turn out to be wrong or *)
(* memory to be short, as it is when States is used up; singleton() has   *)
(* locked the global lock before                                         *)
CreateFails(t) ==
  /\ "fail" \in Features \/ \A s \in States : obj[s].alloc # "unused"
  /\ pc[t] = "create" /\ GlobalFree(t)
  /\ globalLock' = NoThread
  /\ Finish(t)
  /\ UNCHANGED <<stateMutex, obj, ref>>

(* memory can run short between the allocation of the object and its *)
(* entry in a bucket: then its reference is left to the collector    *)
Create(t, s) ==
  /\ pc[t] = "create" /\ GlobalFree(t)
  /\ obj[s].alloc = "unused"
  /\ \E listed \in (IF "fail" \in Features THEN BOOLEAN ELSE {TRUE}) :
       /\ obj' = [obj EXCEPT ![s] =
                    [Unused EXCEPT !.alloc = "live", !.listed = listed,
                                   !.name = op[t].want, !.isBusy = TRUE,
                                   !.used = 1, !.owned = 1]]
       /\ ref' = [ref EXCEPT ![op[t].ref] =
                    [state |-> s, kind |-> "lost", holder |-> t]]
       /\ IF listed
          THEN Goto(t, "setup") /\ op' = [op EXCEPT ![t].state = s]
          ELSE Finish(t)
  /\ globalLock' = NoThread
  /\ UNCHANGED stateMutex

(* the setup function, which holds no lock, loads mtstates into the new *)
(* interpreter: luaopen_mtstates() wants the global lock                 *)
Require(t) ==
  /\ "module" \in Features
  /\ pc[t] = "setup" /\ ~obj[op[t].state].loaded
  /\ Goto(t, "require")
  /\ UNCHANGED <<globalLock, stateMutex, obj, ref, op>>

Required(t) ==
  /\ pc[t] = "require" /\ GlobalFree(t)
  /\ obj' = [obj EXCEPT ![op[t].state].loaded = TRUE]
  /\ Goto(t, "setup")
  /\ UNCHANGED <<globalLock, stateMutex, ref, op>>

Initialize(t) ==
  LET s == op[t].state IN
  /\ pc[t] = "setup" /\ MutexFree(t, s)
  /\ obj' = [obj EXCEPT ![s].L2 = TRUE, ![s].isBusy = FALSE, ![s].initialized = TRUE]
  /\ ref' = [ref EXCEPT ![op[t].ref].kind = "owner"]
  /\ Notify(t, s, "run")
  /\ op' = [op EXCEPT ![t] = NoOp]
  /\ UNCHANGED <<globalLock, stateMutex>>

(* the setup function fails: its interpreter is closed, the object stays *)
SetupFails(t) ==
  LET s == op[t].state IN
  /\ "fail" \in Features
  /\ pc[t] = "setup"
  /\ obj[s].loaded => GlobalFree(t)
  /\ obj' = [obj EXCEPT ![s].loaded = FALSE]
  /\ Finish(t)
  /\ UNCHANGED <<globalLock, stateMutex, ref>>

-----------------------------------------------------------------------------
(* Collection of a reference: MtState_release *)

Collect(t, r) ==
  /\ pc[t] = "run"
  /\ IsRef(r) /\ ref[r].kind # "native" /\ ref[r].holder = t
  /\ GlobalFree(t)
  /\ globalLock' = t
  /\ Use(t, r, "release")
  /\ UNCHANGED <<stateMutex, obj, ref>>

Collected(t) ==
  /\ pc[t] = "release" /\ MutexFree(t, op[t].state)
  /\ Release(op[t].ref)
  /\ globalLock' = NoThread
  /\ Finish(t)
  /\ UNCHANGED stateMutex

-----------------------------------------------------------------------------
(* Native handles: the Notify and Receiver C APIs *)

(* retainNotifier, retainReceiver: t passes a handle n to code of u *)
Retain(t, r, n, u) ==
  /\ "retain" \in Features
  /\ pc[t] = "run" /\ Usable(t, r) /\ Fresh(n)
  /\ obj' = [obj EXCEPT ![ref[r].state].used = @ + 1]
  /\ ref' = [ref EXCEPT ![n] = [state |-> ref[r].state, kind |-> "native", holder |-> u]]
  /\ UNCHANGED <<globalLock, stateMutex, pc, op>>

(* releaseNotifier, releaseReceiver: the count is decremented outside of *)
(* the global lock, the thread that gets it to 0 frees the object        *)
NativeFrees(s) == obj[s].used = 1

ReleaseNative(t, n) ==
  LET s == ref[n].state IN
  /\ pc[t] = "run" /\ Usable(t, n) /\ ref[n].kind = "native"
  /\ obj' = [obj EXCEPT ![s].used = @ - 1]
  /\ ref' = [ref EXCEPT ![n] = NoRef]
  /\ IF NativeFrees(s)
     THEN Goto(t, "free") /\ op' = [op EXCEPT ![t].state = s]
     ELSE UNCHANGED <<pc, op>>
  /\ UNCHANGED <<globalLock, stateMutex>>

Free(t) ==
  LET s == op[t].state IN
  /\ pc[t] = "free" /\ GlobalFree(t)
  /\ obj' = [obj EXCEPT ![s] = Freed(@)]
  /\ Finish(t)
  /\ UNCHANGED <<globalLock, stateMutex, ref>>

-----------------------------------------------------------------------------
(* state:close() and the calls of a state *)

(* the finalizer of the sentinel in s, run by t, gets the global lock *)
Finalized(t, s) == obj[s].loaded => GlobalFree(t)

Close(t, r) ==
  LET s == ref[r].state IN
  /\ pc[t] = "run" /\ Usable(t, r) /\ ref[r].kind # "native"
  /\ MutexFree(t, s)
  /\ ~obj[s].isBusy
  /\ stateMutex' = [stateMutex EXCEPT ![s] = t]
  /\ Use(t, r, "closing")
  /\ UNCHANGED <<globalLock, obj, ref>>

Closed(t) ==
  LET s == op[t].state IN
  /\ pc[t] = "closing" /\ Finalized(t, s)
  /\ obj' = [obj EXCEPT ![s].L2 = FALSE, ![s].loaded = FALSE, ![s].closed = TRUE]
  /\ stateMutex' = [stateMutex EXCEPT ![s] = NoThread]
  /\ Finish(t)
  /\ UNCHANGED <<globalLock, ref>>

(* t enters the state of r, or sleeps until a call of it ends *)
Call(t, r) ==
  LET s == ref[r].state IN
  /\ pc[t] = "run" /\ Usable(t, r)
  /\ MutexFree(t, s)
  /\ obj[s].L2
  /\ Use(t, r, IF obj[s].isBusy THEN "callwait" ELSE "calling")
  /\ obj' = [obj EXCEPT ![s].isBusy = TRUE]
  /\ UNCHANGED <<globalLock, stateMutex, ref>>

CallRelock(t) ==
  LET s == op[t].state IN
  /\ pc[t] = "callrelock" /\ MutexFree(t, s)
  /\ Goto(t, IF obj[s].isBusy THEN "callwait" ELSE "calling")
  /\ obj' = [obj EXCEPT ![s].isBusy = TRUE]
  /\ UNCHANGED <<globalLock, stateMutex, ref, op>>

(* the results are pushed into the caller's Lua state, whose collector *)
(* finds that nothing refers to the userdata the call was made with    *)
CollectInCall(t) ==
  LET r == op[t].ref IN
  /\ pc[t] = "calling"
  /\ "gcInCall" \in Features
  /\ IsRef(r) /\ ref[r].kind # "native"
  /\ GlobalFree(t) /\ MutexFree(t, op[t].state)
  /\ Release(r)
  /\ UNCHANGED <<globalLock, stateMutex, pc, op>>

EndCall(t) ==
  LET s == op[t].state IN
  /\ pc[t] = "calling" /\ MutexFree(t, s)
  /\ stateMutex' = [stateMutex EXCEPT ![s] = t]
  /\ Goto(t, "ending")
  /\ UNCHANGED <<globalLock, obj, ref, op>>

Ended(t) ==
  LET s == op[t].state
      closes == obj[s].owned = 0
  IN
  /\ pc[t] = "ending"
  /\ closes => Finalized(t, s)
  /\ obj' = [obj EXCEPT ![s].isBusy = FALSE,
                        ![s].L2 = @ /\ ~closes, ![s].loaded = @ /\ ~closes]
  /\ stateMutex' = [stateMutex EXCEPT ![s] = NoThread]
  /\ Notify(t, s, "run")
  /\ op' = [op EXCEPT ![t] = NoOp]
  /\ UNCHANGED <<globalLock, ref>>

SpuriousWakeup(t) ==
  /\ pc[t] \in {"waiting", "callwait"}
  /\ Goto(t, Awake(t))
  /\ UNCHANGED <<globalLock, stateMutex, obj, ref, op>>

-----------------------------------------------------------------------------

Init ==
  /\ globalLock = NoThread
  /\ stateMutex = [s \in States |-> NoThread]
  /\ obj = [s \in States |-> Unused]
  /\ ref = [r \in Refs |-> NoRef]
  /\ pc = [t \in Threads |-> "run"]
  /\ op = [t \in Threads |-> NoOp]

(* what user code, the collector and the environment decide to do *)
Request(t) ==
  \/ \E m \in Modes, w \in Names \cup States \cup {NoName}, r \in Refs : Start(t, m, w, r)
  \/ \E r \in Refs :
       \/ Collect(t, r)
       \/ CollectInFind(t, r)
       \/ \E n \in Refs, u \in Threads : Retain(t, r, n, u)
       \/ ReleaseNative(t, r)
       \/ Close(t, r)
       \/ Call(t, r)
  \/ CollectInCall(t)
  \/ MakeRefFails(t)
  \/ Require(t)
  \/ SetupFails(t)
  \/ SpuriousWakeup(t)

(* what the C functions do then *)
Step(t) ==
  \/ Lookup(t)
  \/ Examine(t)
  \/ Relock(t)
  \/ MakeRef(t)
  \/ FindFailed(t)
  \/ CreateFails(t)
  \/ \E s \in States : Create(t, s)
  \/ Required(t)
  \/ Initialize(t)
  \/ Collected(t)
  \/ Free(t)
  \/ Closed(t)
  \/ CallRelock(t)
  \/ EndCall(t)
  \/ Ended(t)

Next == \E t \in Threads : Request(t) \/ Step(t)

Spec == Init /\ [][Next]_vars

(***************************************************************************)
(* A thread that is inside the C functions keeps running, gets a mutex     *)
(* that is free again and again, and setup functions and callbacks end.    *)
(***************************************************************************)
FairSpec == Spec /\ \A t \in Threads : SF_vars(Step(t))

-----------------------------------------------------------------------------
(* Safety *)

RefsOf(s) == {r \in Refs : IsRef(r) /\ ref[r].state = s}

(* The variables have their types. *)
TypeOK ==
  /\ globalLock \in Threads \cup {NoThread}
  /\ stateMutex \in [States -> Threads \cup {NoThread}]
  /\ obj \in [States -> Objects]
  /\ ref \in [Refs -> References \cup {NoRef}]
  /\ pc \in [Threads -> PCs]
  /\ op \in [Threads -> Operations]

(* The counters used and owned of a living object are the numbers of its   *)
(* references and of its owning references, although native handles are    *)
(* counted outside of the global lock.                                     *)
CountsAreExact ==
  \A s \in States : obj[s].alloc = "live" =>
    /\ obj[s].used = Cardinality(RefsOf(s))
    /\ obj[s].owned = Cardinality({r \in RefsOf(s) : IsOwner(r)})

(* No reference is left behind by the object it refers to. *)
ReferencesAreLive ==
  \A r \in Refs : IsRef(r) => obj[ref[r].state].alloc = "live"

(* No thread works on an object that has been freed, wherever it is in the *)
(* C functions: waiting for a mutex or in the condition variable, setting  *)
(* the state up, calling it, or about to free it.                          *)
WorkIsOnLiveObjects ==
  \A t \in Threads : op[t].state # NoState => obj[op[t].state].alloc = "live"

(* Every object is freed in the end: one without references is on its way. *)
NothingLeaks ==
  \A s \in States : obj[s].alloc = "live" /\ RefsOf(s) = {} =>
    \E t \in Threads : pc[t] = "free" /\ op[t].state = s

(* README, state:isowner(): what mtstates.state() can find has an owner,   *)
(* so it cannot be closed or freed by a collection that has begun already. *)
FoundIsOwned ==
  \A s \in States : obj[s].listed /\ ~obj[s].closed => obj[s].owned > 0

(* README, mtstates.singleton(): a globally named state is constructed     *)
(* atomically from different threads, there are never two of one name      *)
(* (when newstate() is not used with that name).                           *)
SingletonIsUnique ==
  \A s, u \in States :
    /\ obj[s].listed /\ ~obj[s].closed /\ obj[s].name # NoName
    /\ obj[u].listed /\ ~obj[u].closed /\ obj[u].name = obj[s].name
    => s = u

(* A state is referred to by its creator alone until its setup function    *)
(* has returned, and stays busy: nobody calls, closes or renames it before.*)
SetupIsPrivate ==
  \A s \in States : obj[s].alloc = "live" /\ ~obj[s].initialized =>
    obj[s].isBusy /\ ~obj[s].L2 /\ Cardinality(RefsOf(s)) = 1

(* A thread that sleeps in a state that is not busy is woken by a thread   *)
(* that is awake already: the notification of a setup or a call that has   *)
(* ended is not lost.                                                      *)
NoLostWakeup ==
  \A s \in States : Waiting(s) # {} /\ ~obj[s].isBusy =>
    \E t \in Threads : op[t].state = s /\ pc[t] \in {"relock", "callrelock"}

(* Two threads never wait for each other: one that has the global lock and *)
(* wants a stateMutex, one that has the stateMutex and runs the finalizers *)
(* of the interpreter that it closes.                                      *)
LocksAreOrdered ==
  \A t, u \in Threads :
    ~ /\ globalLock = t /\ pc[t] \in {"examine", "relock", "release"}
      /\ stateMutex[op[t].state] = u /\ t # u
      /\ \/ pc[u] = "closing"
         \/ pc[u] = "ending" /\ obj[op[t].state].owned = 0
      /\ obj[op[t].state].loaded

-----------------------------------------------------------------------------
(* Liveness, under FairSpec *)

(* README, mtstates.singleton(): the second invocation waits until the     *)
(* first invocation is finished or fails.                                  *)
SetupIsAwaited ==
  \A t \in Threads : \A s \in States :
    (pc[t] \in {"waiting", "relock"} /\ op[t].state = s)
      ~> (obj[s].initialized \/ pc[t] \notin {"waiting", "relock"})

=============================================================================
