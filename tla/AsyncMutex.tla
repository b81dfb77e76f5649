------------------------------ MODULE AsyncMutex ------------------------------
(***************************************************************************)
(* The mutex with a condition variable of src/async_util.c and             *)
(* src/async_util.h, under the calls of one state that sleep on it         *)
(* (mtstates_state_call, src/state.c 1039-1083).  On POSIX and with C11    *)
(* threads the condition variable is that of the system.  On Windows it is *)
(* an auto-reset event, which a signal sets only when waitingCounter is    *)
(* positive, and which stays set until one thread has found it set.        *)
(*                                                                         *)
(* Time is counted in ticks, relative to the present: of the clock only    *)
(* its place in the current second is kept, of the end of a timed call the *)
(* time that is left.  The conversions to milliseconds and to a timespec   *)
(* are those of the code, with TicksPerMilli for the nanoseconds of a      *)
(* millisecond and MillisPerSecond for 1000.  The clock is never set.      *)
(***************************************************************************)
EXTENDS Integers, FiniteSets

CONSTANTS
  Threads, NoThread,
  Platforms,        \* some of "posix" (and C11 threads), "windows"
  Timeouts,         \* the timeouts of tcall(), in ticks
  TicksPerMilli, MillisPerSecond,
  MaxInt,           \* the largest int
  MaxTimed          \* bound on the timed calls at one time

ASSUME MutexAssumption ==
  /\ NoThread \notin Threads /\ IsFiniteSet(Threads)
  /\ Platforms \subseteq {"posix", "windows"} /\ Timeouts \subseteq Int
  /\ TicksPerMilli \in Nat \ {0} /\ TicksPerMilli % 2 = 0
  /\ MillisPerSecond \in Nat \ {0} /\ {MaxInt, MaxTimed} \subseteq Nat

VARIABLES
  platform,
  pc,
  owner,          \* of the mutex
  isBusy,
  waitingCounter, \* of the Mutex, on Windows
  event,          \* on Windows, whether it is set
  clock,          \* the ticks of the current second
  timed, left,    \* per thread: has the call a timeout, and endTime - clock
  need,           \* endTime - now, as the loop has found it
  sleep,          \* the ticks until a timed wait ends
  aborted         \* async_util_abort() has been called

mutexVars == <<owner, waitingCounter, event>>
timeVars == <<clock, left, need, sleep>>
vars == <<platform, pc, mutexVars, isBusy, timed, timeVars, aborted>>

TicksPerSecond == TicksPerMilli * MillisPerSecond
Half == TicksPerMilli \div 2

(* where a thread has been put to sleep, and where it waits for the mutex  *)
(* to leave async_mutex_wait() or async_mutex_wait_millis()                *)
Asleep == {t \in Threads : pc[t] = "asleep"}
Awake == {t \in Threads : pc[t] = "awake"}

Goto(t, p) == pc' = [pc EXCEPT ![t] = p]
Abs(n) == IF n < 0 THEN -n ELSE n
DownTo0(n) == IF n > 0 THEN n ELSE 0

-----------------------------------------------------------------------------
(* Arithmetic of C *)

Quot(a, b) == IF a >= 0 THEN a \div b ELSE -((-a) \div b)
Rem(a, b) == a - b * Quot(a, b)

(* (int)(d * 1000 + 0.5); what does not fit an int is undefined, compilers *)
(* give the largest or the smallest one                                    *)
Rounded(d) == (d + Half) \div TicksPerMilli
ToMillis(d) ==
  IF Rounded(d) <= MaxInt THEN {Rounded(d)} ELSE {MaxInt, -MaxInt - 1}

(* abstime, in seconds from the current one *)
AbsTimeUncarried(millis) ==
  [sec |-> Quot(millis, MillisPerSecond),
   nsec |-> clock + TicksPerMilli * Rem(millis, MillisPerSecond)]
AbsTime(millis) ==
  LET nsec == clock + TicksPerMilli * Rem(millis, MillisPerSecond)
  IN  [sec |-> Quot(millis, MillisPerSecond) + Quot(nsec, TicksPerSecond),
       nsec |-> Rem(nsec, TicksPerSecond)]

(* the system refuses others with EINVAL *)
IsTimespec(time) == time.nsec \in 0 .. TicksPerSecond - 1
FromNow(time) == time.sec * TicksPerSecond + time.nsec - clock

(* the timeout of WaitForSingleObject() is a DWORD *)
AsDWord(millis) == IF millis < 0 THEN millis + 2 * (MaxInt + 1) ELSE millis

-----------------------------------------------------------------------------
(* Calls *)

StartCall(t) ==
  /\ pc[t] = "out" /\ Goto(t, "lock")
  /\ UNCHANGED <<platform, mutexVars, isBusy, timed, timeVars, aborted>>

StartTimed(t, waitSeconds) ==
  /\ Cardinality({u \in Threads : timed[u]}) < MaxTimed
  /\ pc[t] = "out" /\ Goto(t, IF waitSeconds > 0 THEN "lock" ELSE "try")
  /\ timed' = [timed EXCEPT ![t] = TRUE]
  /\ left' = [left EXCEPT ![t] = DownTo0(waitSeconds)]
  /\ UNCHANGED <<platform, mutexVars, isBusy, clock, need, sleep, aborted>>

(* the call is over, or in the callback, and has no use for its times *)
Forget(t) ==
  /\ timed' = [timed EXCEPT ![t] = FALSE]
  /\ left' = [left EXCEPT ![t] = 0]
  /\ need' = [need EXCEPT ![t] = 0]
  /\ sleep' = [sleep EXCEPT ![t] = 0]
  /\ UNCHANGED clock

(* async_mutex_lock(), and trylock when the mutex is free *)
Lock(t) ==
  /\ pc[t] \in {"lock", "try", "end"} /\ owner = NoThread
  /\ owner' = t
  /\ Goto(t, IF pc[t] = "end" THEN "ending" ELSE "check")
  /\ UNCHANGED <<platform, waitingCounter, event, isBusy, timed, timeVars, aborted>>

TrylockFails(t) ==
  /\ pc[t] = "try" /\ owner # NoThread
  /\ Goto(t, "out") /\ Forget(t)
  /\ UNCHANGED <<platform, mutexVars, isBusy, aborted>>

(* the loop ends when the state is idle, also after the deadline *)
Enter(t) ==
  /\ pc[t] = "check" /\ ~isBusy
  /\ isBusy' = TRUE /\ owner' = NoThread
  /\ Goto(t, "run") /\ Forget(t)
  /\ UNCHANGED <<platform, waitingCounter, event, aborted>>

(* not (now < endTime) *)
ExpiredNever(t) == FALSE
Expired(t) == left[t] = 0

GiveUp(t) ==
  /\ pc[t] = "check" /\ isBusy /\ timed[t] /\ Expired(t)
  /\ owner' = NoThread
  /\ Goto(t, "out") /\ Forget(t)
  /\ UNCHANGED <<platform, waitingCounter, event, isBusy, aborted>>

LookAtClock(t) ==
  /\ pc[t] = "check" /\ isBusy /\ (timed[t] => ~Expired(t))
  /\ need' = [need EXCEPT ![t] = left[t]]
  /\ Goto(t, "wait")
  /\ UNCHANGED <<platform, mutexVars, isBusy, timed, clock, left, sleep, aborted>>

-----------------------------------------------------------------------------
(* async_mutex_wait() and async_mutex_wait_millis() *)

(* the mutex is released, on Windows after the thread has counted itself; *)
(* a signal between that and the wait is kept by the event                *)
CountedIn == IF platform = "windows" THEN waitingCounter + 1 ELSE waitingCounter
FallAsleep(t) ==
  /\ pc[t] = "wait" /\ Goto(t, "asleep")
  /\ owner' = NoThread
  /\ waitingCounter' = CountedIn
  /\ need' = [need EXCEPT ![t] = 0]
  /\ UNCHANGED <<platform, event, isBusy, timed, clock, left>>

Wait(t) ==
  /\ ~timed[t]
  /\ FallAsleep(t) /\ UNCHANGED <<sleep, aborted>>

WaitMillis(t, millis) ==
  /\ timed[t] /\ millis \in ToMillis(need[t])
  /\ FallAsleep(t)
  /\ sleep' = [sleep EXCEPT ![t] =
       DownTo0(IF platform = "posix" THEN FromNow(AbsTime(millis))
               ELSE AsDWord(millis) * TicksPerMilli)]
  /\ aborted' = (platform = "posix" /\ ~IsTimespec(AbsTime(millis)))

Wakeup(t) ==
  /\ pc[t] = "asleep" /\ Goto(t, "awake")
  /\ sleep' = [sleep EXCEPT ![t] = 0]
  /\ UNCHANGED <<platform, owner, waitingCounter, isBusy, timed, clock, left, need, aborted>>

(* WaitForSingleObject() resets the event of one thread *)
EventWakes(t) ==
  /\ platform = "windows" /\ event
  /\ event' = FALSE
  /\ Wakeup(t)

SpuriousWakeup(t) ==
  /\ platform = "posix"
  /\ Wakeup(t) /\ UNCHANGED event

TimesOut(t) ==
  /\ timed[t] /\ sleep[t] = 0
  /\ Wakeup(t) /\ UNCHANGED event

(* the mutex is taken again before the thread counts itself out *)
CountedOut == IF platform = "windows" THEN waitingCounter - 1 ELSE waitingCounter
Relock(t) ==
  /\ pc[t] = "awake" /\ owner = NoThread
  /\ owner' = t /\ Goto(t, "check")
  /\ waitingCounter' = CountedOut
  /\ UNCHANGED <<platform, event, isBusy, timed, timeVars, aborted>>

-----------------------------------------------------------------------------
(* async_mutex_notify(), by the end of a call *)

EventAfterNotifyOfTwo == event \/ waitingCounter > 1
EventAfterNotify == event \/ waitingCounter > 0

(* what the system may wake on POSIX, one thread at least if there is one *)
Signalled == IF platform = "posix" /\ Asleep # {} THEN {{t} : t \in Asleep} ELSE {{}}

CallbackReturns(t) ==
  /\ pc[t] = "run" /\ Goto(t, "end")
  /\ UNCHANGED <<platform, mutexVars, isBusy, timed, timeVars, aborted>>

End(t, woken) ==
  /\ pc[t] = "ending" /\ woken \in Signalled
  /\ isBusy' = FALSE /\ owner' = NoThread
  /\ event' = IF platform = "windows" THEN EventAfterNotify ELSE event
  /\ pc' = [u \in Threads |-> IF u = t THEN "out"
                              ELSE IF u \in woken THEN "awake" ELSE pc[u]]
  /\ sleep' = [u \in Threads |-> IF u \in woken THEN 0 ELSE sleep[u]]
  /\ UNCHANGED <<platform, waitingCounter, timed, clock, left, need, aborted>>

Tick ==
  /\ clock' = (clock + 1) % TicksPerSecond
  /\ left' = [t \in Threads |-> DownTo0(left[t] - 1)]
  /\ sleep' = [t \in Threads |-> DownTo0(sleep[t] - 1)]
  /\ UNCHANGED <<platform, pc, mutexVars, isBusy, timed, need, aborted>>

-----------------------------------------------------------------------------

Init ==
  /\ platform \in Platforms
  /\ pc = [t \in Threads |-> "out"]
  /\ owner = NoThread /\ isBusy = FALSE
  /\ waitingCounter = 0 /\ event = FALSE
  /\ clock = 0
  /\ timed = [t \in Threads |-> FALSE]
  /\ left = [t \in Threads |-> 0] /\ need = left /\ sleep = left
  /\ aborted = FALSE

Millis == 0 .. MaxInt \cup {-MaxInt - 1}

(* the steps of the C code that do not wait for the mutex *)
Step(t) ==
  \/ TrylockFails(t) \/ Enter(t) \/ GiveUp(t) \/ LookAtClock(t)
  \/ Wait(t) \/ \E millis \in Millis : WaitMillis(t, millis)
  \/ EventWakes(t) \/ TimesOut(t)
  \/ \E woken \in SUBSET Threads : End(t, woken)

Next ==
  /\ ~aborted
  /\ \/ Tick
     \/ \E t \in Threads :
          \/ StartCall(t) \/ (\E w \in Timeouts : StartTimed(t, w))
          \/ Lock(t) \/ Relock(t) \/ Step(t)
          \/ SpuriousWakeup(t) \/ CallbackReturns(t)

Spec == Init /\ [][Next]_vars

(* Time passes, the C code goes on and gets a mutex that is free again and *)
(* again; callbacks need not return.                                       *)
Fairness ==
  /\ WF_vars(Next /\ Tick)
  /\ \A t \in Threads : WF_vars(~aborted /\ Step(t)) /\ SF_vars(~aborted /\ (Lock(t) \/ Relock(t)))

FairSpec == Spec /\ Fairness

-----------------------------------------------------------------------------

(* A thread that sleeps while the state is idle is not left behind by      *)
(* async_mutex_notify(): the event is set, or another thread is on its way *)
(* to look at isBusy and will notify in turn when its call ends.  On       *)
(* Windows signals that meet a set event are lost, and a set event may     *)
(* wake a thread that began to wait after the signal.                      *)
NoLostWakeup ==
  ~isBusy /\ Asleep # {} =>
    \/ platform = "windows" /\ event
    \/ \E t \in Threads : pc[t] \in {"awake", "check"}

(* async_mutex_wait_millis() accepts every remaining time of a tcall(),    *)
(* and the wait ends half a millisecond from that time at most, whatever   *)
(* the clock shows: it neither polls nor oversleeps.                       *)
TimeoutIsKept ==
  [][\A t \in Threads :
       pc[t] = "wait" /\ timed[t] =>
         \/ pc'[t] = "wait"
         \/ pc'[t] = "asleep" /\ ~aborted' /\ Abs(sleep'[t] - need[t]) <= Half]_vars

(* A tcall() comes back, with the state or without it, also when the       *)
(* callback of another thread never ends.                                  *)
TimedCallReturns ==
  \A t \in Threads : timed[t] ~> pc[t] \in {"out", "run"}

=============================================================================
