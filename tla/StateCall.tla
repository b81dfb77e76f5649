------------------------------ MODULE StateCall ------------------------------
(***************************************************************************)
(* The monitor that every MtState carries: state:call(), state:tcall(),    *)
(* the Notify and Receiver C APIs, state:close() and the owner part of the *)
(* garbage collection of a reference (src/state.c).  All states here have  *)
(* been set up; how a state is created, found and freed is the registry's  *)
(* business.                                                               *)
(*                                                                         *)
(* A thread is at pc "run" while it executes code of its own: outside of   *)
(* any state when its stack is empty, else the callback of the state on    *)
(* top of its stack.  Every other pc is a place inside the C functions.    *)
(* A critical section takes two steps, one that locks the mutex and one    *)
(* that does the body and unlocks, so that other threads find it locked.   *)
(***************************************************************************)
EXTENDS Naturals, Sequences

CONSTANTS
  Threads,   \* operating system threads
  States,    \* the MtState objects
  NoThread,  \* calledByThread of a fresh MtState, owner of a free mutex
  NoState,   \* target of a thread that is in no C function
  Kinds,     \* the ways of calling a state that a run looks at
  MaxDepth   \* bound on the states a thread is inside of at the same time

AllKinds == {"call",    \* state:call(), notify(), msgToReceiver()
             "tcall",   \* state:tcall() with a positive timeout
             "poll",    \* state:tcall() with a timeout <= 0
             "nonblock"}\* msgToReceiver() with nonblock # 0

ASSUME CallAssumption ==
  /\ NoThread \notin Threads
  /\ NoState \notin States
  /\ Kinds \subseteq AllKinds
  /\ MaxDepth \in Nat

VARIABLES
  stateMutex,     \* owner of MtState.stateMutex
  waiting,        \* threads blocked in the condition variable of stateMutex
  isBusy,         \* MtState.isBusy
  calledByThread, \* MtState.calledByThread
  L2,             \* MtState.L2 # NULL: the interpreter is open
  owned,          \* MtState.owned, as the set of threads whose Lua state
                  \* holds an owning reference
  closed,         \* MtState.closed
  pc,             \* where each thread is
  target,         \* the MtState that the C function works on
  kind,           \* which of Kinds a call is
  stack,          \* the calls a thread is inside of, innermost last
  crashed         \* the process died: a NULL interpreter was dereferenced

threadVars == <<pc, target, kind>>
vars == <<stateMutex, waiting, isBusy, calledByThread, L2, owned, closed,
          pc, target, kind, stack, crashed>>

PCs == {"run", "lock", "check", "wait", "relock", "recheck", "entered",
        "endlock", "ending", "closelock", "closing", "droplock", "dropping"}

(* CallStateVars and isSelfCall of one active mtstates_state_call() *)
Frames == [state : States, isSelfCall : BOOLEAN]

Top(t) == stack[t][Len(stack[t])]
Pop(t) == SubSeq(stack[t], 1, Len(stack[t]) - 1)

-----------------------------------------------------------------------------
(* Control of a thread *)

Goto(t, p) == pc' = [pc EXCEPT ![t] = p]

(* t calls a C function of s *)
EnterC(t, s, k, p) ==
  /\ pc[t] = "run" /\ ~crashed
  /\ pc' = [pc EXCEPT ![t] = p]
  /\ target' = [target EXCEPT ![t] = s]
  /\ kind' = [kind EXCEPT ![t] = k]

(* t returns from the C function *)
LeaveC(t) ==
  /\ pc' = [pc EXCEPT ![t] = "run"]
  /\ target' = [target EXCEPT ![t] = NoState]
  /\ kind' = [kind EXCEPT ![t] = "call"]

(* async_mutex_lock: from pc p to pc q once the mutex of s is free *)
LockMutex(t, s, p, q) ==
  /\ pc[t] = p /\ ~crashed
  /\ stateMutex[s] = NoThread
  /\ stateMutex' = [stateMutex EXCEPT ![s] = t]
  /\ Goto(t, q)
  /\ UNCHANGED <<waiting, isBusy, calledByThread, L2, owned, closed, target,
                 kind, stack, crashed>>

UnlockMutex(s) == stateMutex' = [stateMutex EXCEPT ![s] = NoThread]

(* t is at pc p, in a critical section of s *)
Holding(t, s, p) == pc[t] = p /\ ~crashed /\ stateMutex[s] = t

(* async_mutex_notify: whom pthread_cond_signal() may wake *)
NotifyChoicesNone(s) == {{}}
NotifyChoices(s) == IF waiting[s] = {} THEN {{}} ELSE {{w} : w \in waiting[s]}

-----------------------------------------------------------------------------
(* mtstates_state_call *)

StartCall(t, s, k) ==
  /\ Len(stack[t]) < MaxDepth
  /\ EnterC(t, s, k, "lock")
  /\ UNCHANGED <<stateMutex, waiting, isBusy, calledByThread, L2, owned,
                 closed, stack, crashed>>

LockCall(t) == LockMutex(t, target[t], "lock", "check")

(* a timeout <= 0 does not even wait for the mutex *)
TrylockFails(t) ==
  /\ pc[t] = "lock" /\ ~crashed
  /\ kind[t] = "poll"
  /\ stateMutex[target[t]] # NoThread
  /\ LeaveC(t)
  /\ UNCHANGED <<stateMutex, waiting, isBusy, calledByThread, L2, owned,
                 closed, stack, crashed>>

ObjectClosed(t) ==
  LET s == target[t] IN
  /\ Holding(t, s, "check")
  /\ ~L2[s]
  /\ UnlockMutex(s)
  /\ LeaveC(t)
  /\ UNCHANGED <<waiting, isBusy, calledByThread, L2, owned, closed, stack,
                 crashed>>

(* t holds the mutex to look at the state, for the first time or again *)
Looking(t, s) == Holding(t, s, "check") \/ Holding(t, s, "recheck")

IsSelfCallAnyThread(t, s) == isBusy[s]
IsSelfCall(t, s) == isBusy[s] /\ calledByThread[s] = t

(* before the first wait a busy state is no obstacle to its own thread; *)
(* afterwards only isBusy counts, and L2 is not looked at again         *)
MayEnterAlways(t, s) == pc[t] = "check" => L2[s]
MayEnter(t, s) ==
  \/ pc[t] = "check" /\ L2[s] /\ (isBusy[s] => IsSelfCall(t, s))
  \/ pc[t] = "recheck" /\ ~isBusy[s]

MustWait(t, s) ==
  \/ pc[t] = "check" /\ L2[s] /\ isBusy[s] /\ ~IsSelfCall(t, s)
  \/ pc[t] = "recheck" /\ isBusy[s]

Enter(t) ==
  LET s == target[t] IN
  /\ Looking(t, s)
  /\ MayEnter(t, s)
  /\ isBusy' = [isBusy EXCEPT ![s] = TRUE]
  /\ calledByThread' = [calledByThread EXCEPT ![s] = t]
  /\ stack' = [stack EXCEPT ![t] =
                 Append(@, [state |-> s, isSelfCall |-> IsSelfCall(t, s)])]
  /\ UnlockMutex(s)
  /\ pc' = [pc EXCEPT ![t] = "entered"]
  /\ target' = [target EXCEPT ![t] = NoState]
  /\ kind' = [kind EXCEPT ![t] = "call"]
  /\ UNCHANGED <<waiting, L2, owned, closed, crashed>>

(* async_mutex_wait and async_mutex_wait_millis release the mutex; msgTo- *)
(* Receiver() does not hand on its nonblock argument, so it waits as well *)
Waits(k) == k # "poll"
CanTimeOutNever(k) == FALSE
CanTimeOut(k) == k \in {"tcall", "poll"}

Wait(t) ==
  LET s == target[t] IN
  /\ Looking(t, s)
  /\ MustWait(t, s)
  /\ Waits(kind[t])
  /\ waiting' = [waiting EXCEPT ![s] = @ \cup {t}]
  /\ UnlockMutex(s)
  /\ Goto(t, "wait")
  /\ UNCHANGED <<isBusy, calledByThread, L2, owned, closed, target, kind,
                 stack, crashed>>

(* the deadline has passed while the state is busy: tcall() gives false *)
TimeOut(t) ==
  LET s == target[t] IN
  /\ Looking(t, s)
  /\ MustWait(t, s)
  /\ CanTimeOut(kind[t])
  /\ UnlockMutex(s)
  /\ LeaveC(t)
  /\ UNCHANGED <<waiting, isBusy, calledByThread, L2, owned, closed, stack,
                 crashed>>

StopWaiting(t) ==
  /\ pc[t] = "wait" /\ ~crashed
  /\ waiting' = [waiting EXCEPT ![target[t]] = @ \ {t}]
  /\ Goto(t, "relock")
  /\ UNCHANGED <<stateMutex, isBusy, calledByThread, L2, owned, closed,
                 target, kind, stack, crashed>>

(* POSIX allows a wait to return although nobody signalled *)
SpuriousWakeup(t) == StopWaiting(t)

(* pthread_cond_timedwait() gives ETIMEDOUT *)
WaitTimesOut(t) == CanTimeOut(kind[t]) /\ StopWaiting(t)

Relock(t) == LockMutex(t, target[t], "relock", "recheck")

(* the first access to the interpreter, outside the mutex: lua_gettop(L2) *)
Invoke(t) ==
  /\ pc[t] = "entered" /\ ~crashed
  /\ IF L2[Top(t).state]
     THEN Goto(t, "run") /\ UNCHANGED crashed
     ELSE crashed' = TRUE /\ UNCHANGED pc
  /\ UNCHANGED <<stateMutex, waiting, isBusy, calledByThread, L2, owned,
                 closed, target, kind, stack>>

(* the callback has ended, with results or with an error; a call of a     *)
(* state by itself leaves the monitor to the call it is nested in         *)
Return(t) ==
  /\ pc[t] = "run" /\ ~crashed
  /\ stack[t] # <<>>
  /\ IF Top(t).isSelfCall
     THEN stack' = [stack EXCEPT ![t] = Pop(t)] /\ UNCHANGED pc
     ELSE Goto(t, "endlock") /\ UNCHANGED stack
  /\ UNCHANGED <<stateMutex, waiting, isBusy, calledByThread, L2, owned,
                 closed, target, kind, crashed>>

LockEnd(t) ==
  /\ stack[t] # <<>>
  /\ LockMutex(t, Top(t).state, "endlock", "ending")

(* the call that ends closes the interpreter if the last owner has gone *)
L2AfterEndKept(s) == L2[s]
L2AfterEnd(s) == L2[s] /\ owned[s] # {}
BusyAfterEndKept(s) == TRUE
BusyAfterEnd(s) == FALSE

End(t) ==
  LET s == Top(t).state IN
  /\ stack[t] # <<>>
  /\ Holding(t, s, "ending")
  /\ isBusy' = [isBusy EXCEPT ![s] = BusyAfterEnd(s)]
  /\ L2' = [L2 EXCEPT ![s] = L2AfterEnd(s)]
  /\ stack' = [stack EXCEPT ![t] = Pop(t)]
  /\ UnlockMutex(s)
  /\ \E woken \in NotifyChoices(s) :
       /\ waiting' = [waiting EXCEPT ![s] = @ \ woken]
       /\ pc' = [u \in Threads |-> IF u = t THEN "run"
                                   ELSE IF u \in woken THEN "relock"
                                   ELSE pc[u]]
  /\ UNCHANGED <<calledByThread, owned, closed, target, kind, crashed>>

-----------------------------------------------------------------------------
(* MtState_close *)

StartClose(t, s) ==
  /\ EnterC(t, s, "call", "closelock")
  /\ UNCHANGED <<stateMutex, waiting, isBusy, calledByThread, L2, owned,
                 closed, stack, crashed>>

LockClose(t) == LockMutex(t, target[t], "closelock", "closing")

(* a busy state is not closed: mtstates.error.concurrent_access *)
CloseRefusedNever(s) == FALSE
CloseRefused(s) == isBusy[s]

Close(t) ==
  LET s == target[t] IN
  /\ Holding(t, s, "closing")
  /\ IF CloseRefused(s)
     THEN UNCHANGED <<L2, closed>>
     ELSE /\ L2' = [L2 EXCEPT ![s] = FALSE]
          /\ closed' = [closed EXCEPT ![s] = TRUE]
  /\ UnlockMutex(s)
  /\ LeaveC(t)
  /\ UNCHANGED <<waiting, isBusy, calledByThread, owned, stack, crashed>>

-----------------------------------------------------------------------------
(* MtState_release, the part under stateMutex, for an owning reference *)

StartDrop(t, s) ==
  /\ t \in owned[s]
  /\ EnterC(t, s, "call", "droplock")
  /\ UNCHANGED <<stateMutex, waiting, isBusy, calledByThread, L2, owned,
                 closed, stack, crashed>>

LockDrop(t) == LockMutex(t, target[t], "droplock", "dropping")

(* what the last owner leaves: the interpreter of a busy state is left to *)
(* the call that is running in it                                         *)
L2AfterDrop(t, s) == L2[s] /\ (owned[s] # {t} \/ isBusy[s])
ClosedAfterDrop(t, s) == closed[s] \/ owned[s] = {t}

Drop(t) ==
  LET s == target[t] IN
  /\ Holding(t, s, "dropping")
  /\ owned' = [owned EXCEPT ![s] = @ \ {t}]
  /\ L2' = [L2 EXCEPT ![s] = L2AfterDrop(t, s)]
  /\ closed' = [closed EXCEPT ![s] = ClosedAfterDrop(t, s)]
  /\ UnlockMutex(s)
  /\ LeaveC(t)
  /\ UNCHANGED <<waiting, isBusy, calledByThread, stack, crashed>>

-----------------------------------------------------------------------------

Init ==
  /\ stateMutex = [s \in States |-> NoThread]
  /\ waiting = [s \in States |-> {}]
  /\ isBusy = [s \in States |-> FALSE]
  /\ calledByThread = [s \in States |-> NoThread]
  /\ L2 = [s \in States |-> TRUE]
  /\ owned \in [States -> (SUBSET Threads) \ {{}}]
  /\ closed = [s \in States |-> FALSE]
  /\ pc = [t \in Threads |-> "run"]
  /\ target = [t \in Threads |-> NoState]
  /\ kind = [t \in Threads |-> "call"]
  /\ stack = [t \in Threads |-> <<>>]
  /\ crashed = FALSE

(* what user code decides to do *)
Request(t) ==
  \E s \in States :
    \/ \E k \in Kinds : StartCall(t, s, k)
    \/ StartClose(t, s)
    \/ StartDrop(t, s)

(* taking a mutex *)
Lock(t) ==
  \/ LockCall(t) \/ Relock(t) \/ LockEnd(t) \/ LockClose(t) \/ LockDrop(t)

(* everything else that happens inside the C functions *)
Step(t) ==
  \/ TrylockFails(t)
  \/ ObjectClosed(t)
  \/ Enter(t)
  \/ Wait(t)
  \/ TimeOut(t)
  \/ WaitTimesOut(t)
  \/ Invoke(t)
  \/ End(t)
  \/ Close(t)
  \/ Drop(t)

Next ==
  \E t \in Threads :
    \/ Request(t)
    \/ Return(t)
    \/ SpuriousWakeup(t)
    \/ Lock(t)
    \/ Step(t)

Spec == Init /\ [][Next]_vars

(***************************************************************************)
(* A thread inside the C functions keeps running, and a mutex that is free *)
(* again and again is got in the end.  Time goes on: a timed wait comes to *)
(* its deadline, and a call that looks at the clock again and again finds  *)
(* in the end that the deadline has passed.  Nothing is assumed of user    *)
(* code: a callback may run for ever, no thread has to call, and spurious  *)
(* wakeups need not happen.                                                *)
(***************************************************************************)
Fairness ==
  \A t \in Threads : WF_vars(Step(t)) /\ SF_vars(Lock(t)) /\ SF_vars(TimeOut(t))

FairSpec == Spec /\ Fairness

-----------------------------------------------------------------------------
(* Safety *)

(* t has an active call of s, self calls included *)
Inside(t, s) == \E i \in 1 .. Len(stack[t]) : stack[t][i].state = s

VarTypes ==
  /\ stateMutex \in [States -> Threads \cup {NoThread}]
  /\ waiting \in [States -> SUBSET Threads]
  /\ isBusy \in [States -> BOOLEAN]
  /\ calledByThread \in [States -> Threads \cup {NoThread}]
  /\ L2 \in [States -> BOOLEAN]
  /\ owned \in [States -> SUBSET Threads]
  /\ closed \in [States -> BOOLEAN]
  /\ pc \in [Threads -> PCs]
  /\ target \in [Threads -> States \cup {NoState}]
  /\ kind \in [Threads -> AllKinds]
  /\ stack \in [Threads -> Seq(Frames)]
  /\ crashed \in BOOLEAN

(* a thread has a target exactly while it is in a C function that has not *)
(* entered a state, and sleeps exactly in the condition variable of that  *)
Placed(t) ==
  /\ target[t] = NoState <=> pc[t] \in {"run", "entered", "endlock", "ending"}
  /\ \A s \in States : t \in waiting[s] <=> pc[t] = "wait" /\ target[t] = s

(* The variables have their types, and pc, target and waiting agree on *)
(* where a thread is.                                                  *)
TypeOK == VarTypes /\ \A t \in Threads : Placed(t)

(* README: concurrently running threads cannot be in a state's callback at *)
(* the same time, whatever the calls, self calls, timeouts and wakeups.    *)
MutualExclusion ==
  \A s \in States : \A t, u \in Threads :
    Inside(t, s) /\ Inside(u, s) => t = u

(* A call leaves isBusy and the notification to another call (isSelfCall)  *)
(* exactly when it is nested in a call of the same state by its thread     *)
(* that is not itself a self call.                                         *)
SelfCallsAreNested ==
  \A t \in Threads : \A i \in 1 .. Len(stack[t]) :
    stack[t][i].isSelfCall <=>
      \E j \in 1 .. i - 1 : /\ stack[t][j].state = stack[t][i].state
                            /\ ~stack[t][j].isSelfCall

(* isBusy names a call that will clear it: calledByThread has a call of    *)
(* the state on its stack that is no self call.                            *)
BusyHasRunner ==
  \A s \in States : isBusy[s] =>
    /\ calledByThread[s] \in Threads
    /\ \E i \in 1 .. Len(stack[calledByThread[s]]) :
         /\ stack[calledByThread[s]][i].state = s
         /\ ~stack[calledByThread[s]][i].isSelfCall

(* When threads sleep on a state that nobody is inside of, one of those    *)
(* that slept is awake already and will look at isBusy: the single         *)
(* async_mutex_notify() of a call's end is never lost, although timeouts   *)
(* and spurious wakeups compete with it.                                   *)
NoLostWakeup ==
  \A s \in States : waiting[s] # {} /\ ~isBusy[s] =>
    \E t \in Threads : target[t] = s /\ pc[t] \in {"relock", "recheck"}

(* The interpreter is never closed under a callback that uses it, neither  *)
(* by state:close(), nor by the last owner's collection, nor by the end of *)
(* another call.                                                           *)
RunningIsOpen ==
  \A t \in Threads : \A i \in 1 .. Len(stack[t]) :
    i < Len(stack[t]) \/ pc[t] # "entered" => L2[stack[t][i].state]

(* README, state:isowner(): when the last owning reference has gone the    *)
(* state is closed, at once or by the call that runs in it when it ends.   *)
OrphanIsClosed ==
  \A s \in States : owned[s] = {} /\ ~isBusy[s] => ~L2[s]

(* The flag by which mtstates.state() skips closed states never lags       *)
(* behind: no closed interpreter and no state without owner can be found.  *)
ClosedCannotBeFound ==
  \A s \in States : ~L2[s] \/ owned[s] = {} => closed[s]

(* every active call keeps its state busy on behalf of its thread *)
FramesAreBusy ==
  \A t \in Threads : \A i \in 1 .. Len(stack[t]) :
    /\ isBusy[stack[t][i].state]
    /\ calledByThread[stack[t][i].state] = t

(* only an outermost call of a state takes the mutex when it ends *)
EndingIsOuter ==
  \A t \in Threads :
    /\ pc[t] \in {"entered", "endlock", "ending"} => stack[t] # <<>>
    /\ pc[t] \in {"endlock", "ending"} => ~Top(t).isSelfCall

(* The inductive invariant: what has to be known about the stacks of all  *)
(* threads, isBusy and calledByThread for a step to keep the above.        *)
IInv ==
  /\ TypeOK
  /\ FramesAreBusy
  /\ SelfCallsAreNested
  /\ BusyHasRunner
  /\ EndingIsOuter
  /\ RunningIsOpen
  /\ OrphanIsClosed
  /\ ClosedCannotBeFound
  /\ NoLostWakeup

(* What the monitor promises: see ExclusiveState. *)
Exclusive == INSTANCE ExclusiveState WITH
  inside <- [s \in States |-> {t \in Threads : Inside(t, s)}],
  open <- L2

(* Every step of the monitor is a step of ExclusiveState or stutters. *)
ImplementsExclusive == Exclusive!Spec

(* README, state:close(): every operation from any referencing object on a *)
(* closed state raises object_closed, so no call enters one.  The code     *)
(* does not look at L2 again after it has waited.                          *)
EntersOnlyOpen ==
  \A t \in Threads : pc[t] = "entered" => L2[Top(t).state]

-----------------------------------------------------------------------------
(* Liveness, under FairSpec *)

(* Sleepers on an idle state do not stay: one of them, or a newcomer, gets *)
(* into the state, or all of them give up.                                 *)
IdleIsTaken ==
  \A s \in States :
    (waiting[s] # {} /\ ~isBusy[s]) ~> (isBusy[s] \/ waiting[s] = {} \/ crashed)

(* state:tcall() enters or gives up, even when the callback that runs in   *)
(* the state never ends, as when threads call each other's states.         *)
TimedCallReturns ==
  \A t \in Threads :
    kind[t] \in {"tcall", "poll"} ~> (target[t] = NoState \/ crashed)

=============================================================================
