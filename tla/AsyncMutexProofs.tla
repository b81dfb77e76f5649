--------------------------- MODULE AsyncMutexProofs ---------------------------
(***************************************************************************)
(* Proofs about AsyncMutex, for any number of threads, on any platform and *)
(* with any timeouts: async_mutex_notify() never leaves a sleeper behind,  *)
(* and for any clock and lengths of a millisecond and a second: timed      *)
(* waits end when they should.                                             *)
(***************************************************************************)
EXTENDS AsyncMutex, FiniteSetTheorems, TLAPS

PCs == {"out", "lock", "try", "check", "wait", "asleep", "awake", "run", "end", "ending"}
Holding == {"check", "wait", "ending"}
Waiting == Asleep \cup Awake

Types ==
  /\ platform \in {"posix", "windows"} /\ pc \in [Threads -> PCs]
  /\ isBusy \in BOOLEAN /\ event \in BOOLEAN

(* The mutex is held from the lock to the unlock, but for the wait. *)
MutexIsHeld == \A t \in Threads : pc[t] \in Holding => owner = t

(* Who begins to wait has seen the state busy, and still holds the mutex. *)
WaitersSawBusy == \A t \in Threads : pc[t] = "wait" => isBusy

(* On Windows the counter counts who has released the mutex to wait and    *)
(* does not have it again.                                                 *)
CountIsExact == platform = "windows" => waitingCounter = Cardinality(Waiting)

IInv == Types /\ MutexIsHeld /\ WaitersSawBusy /\ CountIsExact /\ NoLostWakeup

-----------------------------------------------------------------------------

LEMMA InitIInv == Init => IInv
<1> SUFFICES ASSUME Init PROVE IInv
  OBVIOUS
<1>1. isBusy \in BOOLEAN /\ event \in BOOLEAN
  BY Zenon DEF Init
<1>2. /\ platform \in {"posix", "windows"} /\ pc = [t \in Threads |-> "out"]
      /\ waitingCounter = 0
  BY MutexAssumption DEF Init, MutexAssumption
<1>3. Waiting = {}
  BY <1>2 DEF Waiting, Asleep, Awake
<1> QED
  BY <1>1, <1>2, <1>3, FS_EmptySet
     DEF IInv, Types, PCs, MutexIsHeld, Holding, WaitersSawBusy, CountIsExact, NoLostWakeup,
         Waiting

(* A step of a thread moves it, and nobody else, in and out of the sets. *)
LEMMA Moved ==
  ASSUME Types, NEW t \in Threads, NEW p \in PCs, Goto(t, p)
  PROVE  /\ pc' = [pc EXCEPT ![t] = p] /\ pc' \in [Threads -> PCs]
         /\ pc'[t] = p /\ \A u \in Threads \ {t} : pc'[u] = pc[u]
         /\ Asleep' = IF p = "asleep" THEN Asleep \cup {t} ELSE Asleep \ {t}
         /\ Waiting' = IF p \in {"asleep", "awake"} THEN Waiting \cup {t} ELSE Waiting \ {t}
BY DEF Types, Goto, Asleep, Awake, Waiting

LEMMA WaitingIsFinite == IsFiniteSet(Waiting) /\ Cardinality(Waiting) \in Nat
<1>1. Waiting \subseteq Threads
  BY DEF Waiting, Asleep, Awake
<1> QED
  BY <1>1, FS_Subset, FS_CardinalityType, MutexAssumption DEF MutexAssumption

(* A thread that neither sleeps nor holds the mutex to wait or to notify   *)
(* does not matter to the others.                                          *)
LEMMA Elsewhere ==
  ASSUME IInv, NEW t \in Threads, NEW p \in PCs \ {"asleep", "awake"}, Goto(t, p),
         UNCHANGED <<platform, waitingCounter, event>>,
         pc[t] \notin {"asleep", "awake"},
         p \in Holding => owner' = t,
         \/ owner' = owner
         \/ owner = NoThread
         \/ pc[t] \in Holding /\ owner' = NoThread,
         \/ isBusy' = isBusy /\ p # "wait" /\ (pc[t] = "check" => isBusy)
         \/ isBusy' = TRUE
  PROVE  IInv'
<1> USE DEF IInv
<1>1. /\ pc' \in [Threads -> PCs] /\ pc'[t] = p /\ \A u \in Threads \ {t} : pc'[u] = pc[u]
      /\ Asleep' = Asleep /\ Waiting' = Waiting
  <2>1. t \notin Waiting /\ t \notin Asleep
    BY DEF Waiting, Asleep, Awake
  <2> QED
    BY <2>1, Moved
<1>2. Types'
  BY <1>1 DEF Types
<1>3. MutexIsHeld'
  <2> SUFFICES ASSUME NEW u \in Threads, pc'[u] \in Holding PROVE owner' = u
    BY DEF MutexIsHeld
  <2>1. CASE u = t
    BY <1>1, <2>1
  <2>2. CASE u # t
    <3>1. owner = u
      BY <1>1, <2>2 DEF MutexIsHeld
    <3>2. u # NoThread
      BY MutexAssumption DEF MutexAssumption
    <3> QED
      BY <2>2, <3>1, <3>2 DEF MutexIsHeld
  <2> QED
    BY <2>1, <2>2
<1>4. WaitersSawBusy'
  BY <1>1 DEF WaitersSawBusy
<1>5. CountIsExact'
  BY <1>1 DEF CountIsExact
<1>6. NoLostWakeup'
  BY <1>1 DEF NoLostWakeup
<1> QED
  BY <1>2, <1>3, <1>4, <1>5, <1>6

LEMMA CallSteps ==
  ASSUME IInv, NEW t \in Threads, NEW w,
         StartCall(t) \/ StartTimed(t, w) \/ TrylockFails(t) \/ CallbackReturns(t)
  PROVE  IInv'
<1>1. \E p \in {"lock", "try", "out", "end"} : Goto(t, p)
  BY DEF StartCall, StartTimed, TrylockFails, CallbackReturns
<1>2. PICK p \in {"lock", "try", "out", "end"} : Goto(t, p)
  BY <1>1
<1>3. /\ pc[t] \in {"out", "try", "run"}
      /\ UNCHANGED <<platform, waitingCounter, event, owner, isBusy>>
  BY DEF StartCall, StartTimed, TrylockFails, CallbackReturns, mutexVars
<1> QED
  BY <1>2, <1>3, Elsewhere DEF PCs, Holding

LEMMA LockStep == ASSUME IInv, NEW t \in Threads, Lock(t) PROVE IInv'
<1>1. PICK p \in {"ending", "check"} : Goto(t, p)
  BY DEF Lock
<1>2. /\ pc[t] \in {"lock", "try", "end"} /\ owner = NoThread /\ owner' = t
      /\ UNCHANGED <<platform, waitingCounter, event, isBusy>>
  BY DEF Lock
<1> QED
  BY <1>1, <1>2, Elsewhere DEF PCs, Holding

LEMMA CheckSteps ==
  ASSUME IInv, NEW t \in Threads, Enter(t) \/ GiveUp(t) \/ LookAtClock(t)
  PROVE  IInv'
<1>1. CASE Enter(t)
  <2>1. isBusy' = TRUE
    BY <1>1, Zenon DEF Enter
  <2>2. /\ pc[t] = "check" /\ owner' = NoThread /\ Goto(t, "run")
        /\ UNCHANGED <<platform, waitingCounter, event>>
    BY <1>1 DEF Enter
  <2> QED
    BY <2>1, <2>2, Elsewhere DEF PCs, Holding
<1>2. CASE GiveUp(t)
  <2>1. /\ pc[t] = "check" /\ isBusy /\ owner' = NoThread /\ Goto(t, "out")
        /\ UNCHANGED <<platform, waitingCounter, event, isBusy>>
    BY <1>2 DEF GiveUp
  <2> QED
    BY <2>1, Elsewhere DEF PCs, Holding
<1>3. CASE LookAtClock(t)
  <2>1. /\ pc[t] = "check" /\ isBusy /\ Goto(t, "wait")
        /\ UNCHANGED <<platform, waitingCounter, event, owner, isBusy>>
    BY <1>3 DEF LookAtClock, mutexVars
  <2>2. owner' = t /\ isBusy' = TRUE
    BY <2>1 DEF IInv, Types, MutexIsHeld, Holding
  <2> QED
    BY <2>1, <2>2, Elsewhere DEF PCs, Holding
<1> QED
  BY <1>1, <1>2, <1>3

(* Who falls asleep leaves a busy state, and is counted. *)
LEMMA FallAsleepStep == ASSUME IInv, NEW t \in Threads, FallAsleep(t) PROVE IInv'
<1> USE DEF IInv
<1>1. /\ pc[t] = "wait" /\ Goto(t, "asleep") /\ owner' = NoThread
      /\ UNCHANGED <<platform, event, isBusy>>
      /\ waitingCounter' = IF platform = "windows" THEN waitingCounter + 1 ELSE waitingCounter
  BY DEF FallAsleep, CountedIn
<1>2. isBusy /\ owner = t
  BY <1>1 DEF WaitersSawBusy, MutexIsHeld, Holding
<1>3. /\ pc' \in [Threads -> PCs] /\ pc'[t] = "asleep"
      /\ \A u \in Threads \ {t} : pc'[u] = pc[u]
      /\ Waiting' = Waiting \cup {t}
  BY <1>1, Moved DEF PCs
<1>4. Types'
  BY <1>1, <1>3 DEF Types
<1>5. MutexIsHeld' /\ WaitersSawBusy' /\ NoLostWakeup'
  BY <1>1, <1>2, <1>3 DEF MutexIsHeld, Holding, WaitersSawBusy, NoLostWakeup
<1>6. CountIsExact'
  <2>1. t \notin Waiting
    BY <1>1 DEF Waiting, Asleep, Awake
  <2>2. Cardinality(Waiting \cup {t}) = Cardinality(Waiting) + 1
    BY <2>1, WaitingIsFinite, FS_AddElement
  <2> QED
    BY <1>1, <1>3, <2>2 DEF CountIsExact
<1> QED
  BY <1>4, <1>5, <1>6

(* Who wakes up takes the place of the event that has woken it. *)
LEMMA WakeupStep ==
  ASSUME IInv, NEW t \in Threads, Wakeup(t), event' \in BOOLEAN
  PROVE  IInv'
<1> USE DEF IInv
<1>1. /\ pc[t] = "asleep" /\ Goto(t, "awake")
      /\ UNCHANGED <<platform, owner, waitingCounter, isBusy>>
  BY DEF Wakeup
<1>2. /\ pc' \in [Threads -> PCs] /\ pc'[t] = "awake"
      /\ \A u \in Threads \ {t} : pc'[u] = pc[u]
      /\ Waiting' = Waiting \cup {t}
  BY <1>1, Moved DEF PCs
<1>3. t \in Waiting
  BY <1>1 DEF Waiting, Asleep
<1>4. Types'
  BY <1>1, <1>2 DEF Types
<1>5. MutexIsHeld' /\ WaitersSawBusy' /\ NoLostWakeup'
  BY <1>1, <1>2 DEF MutexIsHeld, Holding, WaitersSawBusy, NoLostWakeup
<1>6. CountIsExact'
  <2>1. Waiting' = Waiting
    BY <1>2, <1>3
  <2> QED
    BY <1>1, <2>1 DEF CountIsExact
<1> QED
  BY <1>4, <1>5, <1>6

LEMMA RelockStep == ASSUME IInv, NEW t \in Threads, Relock(t) PROVE IInv'
<1> USE DEF IInv
<1>1. /\ pc[t] = "awake" /\ Goto(t, "check") /\ owner = NoThread /\ owner' = t
      /\ UNCHANGED <<platform, event, isBusy>>
      /\ waitingCounter' = IF platform = "windows" THEN waitingCounter - 1 ELSE waitingCounter
  BY DEF Relock, CountedOut
<1>2. /\ pc' \in [Threads -> PCs] /\ pc'[t] = "check"
      /\ \A u \in Threads \ {t} : pc'[u] = pc[u]
      /\ Waiting' = Waiting \ {t}
  BY <1>1, Moved DEF PCs
<1>3. Types'
  BY <1>1, <1>2 DEF Types
<1>4. MutexIsHeld'
  BY <1>1, <1>2, MutexAssumption DEF MutexAssumption, MutexIsHeld, Holding
<1>5. WaitersSawBusy' /\ NoLostWakeup'
  BY <1>1, <1>2 DEF WaitersSawBusy, NoLostWakeup
<1>6. CountIsExact'
  <2>1. t \in Waiting
    BY <1>1 DEF Waiting, Awake
  <2>2. Cardinality(Waiting \ {t}) = Cardinality(Waiting) - 1
    BY <2>1, WaitingIsFinite, FS_RemoveElement
  <2> QED
    BY <1>1, <1>2, <2>2 DEF CountIsExact
<1> QED
  BY <1>3, <1>4, <1>5, <1>6

(* The end of a call: on Windows somebody is counted if somebody sleeps,   *)
(* so the event is set; on POSIX the signal wakes a sleeper.               *)
LEMMA EndStep ==
  ASSUME IInv, NEW t \in Threads, NEW woken \in SUBSET Threads, End(t, woken)
  PROVE  IInv'
<1> USE DEF IInv
<1>1. /\ pc[t] = "ending" /\ woken \in Signalled /\ owner' = NoThread
      /\ event' = IF platform = "windows" THEN EventAfterNotify ELSE event
      /\ pc' = [u \in Threads |-> IF u = t THEN "out"
                                  ELSE IF u \in woken THEN "awake" ELSE pc[u]]
      /\ UNCHANGED <<platform, waitingCounter>>
  BY Zenon DEF End
<1>2. isBusy' \in BOOLEAN
  BY Zenon DEF End
<1>3. owner = t
  BY <1>1 DEF MutexIsHeld, Holding
<1>4. woken \subseteq Asleep
  BY <1>1 DEF Signalled
<1>5. Types'
  <2>1. event' \in BOOLEAN
    BY <1>1, Zenon DEF Types, EventAfterNotify
  <2> QED
    BY <1>1, <1>2, <2>1 DEF Types, PCs
<1>6. MutexIsHeld' /\ WaitersSawBusy'
  <2> SUFFICES ASSUME NEW u \in Threads, pc'[u] \in Holding PROVE FALSE
    BY DEF MutexIsHeld, WaitersSawBusy, Holding
  <2> QED
    BY <1>1, <1>3 DEF MutexIsHeld, Holding
<1>7. Waiting' = Waiting
  BY <1>1, <1>4 DEF Waiting, Asleep, Awake
<1>8. CountIsExact'
  BY <1>1, <1>7 DEF CountIsExact
<1>9. NoLostWakeup'
  <2> SUFFICES ASSUME Asleep' # {}
               PROVE  (platform' = "windows" /\ event') \/ \E u \in Threads : pc'[u] = "awake"
    BY DEF NoLostWakeup
  <2>1. Asleep # {}
    BY <1>1 DEF Asleep
  <2>2. CASE platform = "windows"
    <3>1. waitingCounter > 0
      <4>1. Waiting # {}
        BY <2>1 DEF Waiting
      <4>2. Cardinality(Waiting) > 0
        BY <4>1, WaitingIsFinite, FS_EmptySet
      <4> QED
        BY <2>2, <4>2 DEF CountIsExact
    <3> QED
      BY <1>1, <2>2, <3>1 DEF EventAfterNotify
  <2>3. CASE platform = "posix"
    <3>1. PICK u \in Asleep : woken = {u}
      BY <1>1, <2>1, <2>3 DEF Signalled
    <3>2. u \in Threads /\ u # t
      BY <1>1, <3>1 DEF Asleep
    <3> QED
      BY <1>1, <3>1, <3>2
  <2> QED
    BY <2>2, <2>3 DEF Types
<1> QED
  BY <1>5, <1>6, <1>8, <1>9

-----------------------------------------------------------------------------

LEMMA StutterStep ==
  ASSUME IInv, UNCHANGED <<platform, pc, mutexVars, isBusy>>
  PROVE  IInv'
BY DEF IInv, mutexVars, Types, MutexIsHeld, WaitersSawBusy, CountIsExact, NoLostWakeup, Waiting,
       Asleep, Awake

LEMMA NextIInv == ASSUME IInv, [Next]_vars PROVE IInv'
<1>1. CASE Tick
  BY <1>1, StutterStep DEF Tick
<1>2. CASE UNCHANGED vars
  BY <1>2, StutterStep DEF vars
<1>3. ASSUME NEW t \in Threads,
             \/ StartCall(t) \/ (\E w \in Timeouts : StartTimed(t, w))
             \/ Lock(t) \/ Relock(t) \/ Step(t)
             \/ SpuriousWakeup(t) \/ CallbackReturns(t)
      PROVE  IInv'
  <2>1. CASE StartCall(t) \/ (\E w \in Timeouts : StartTimed(t, w)) \/ TrylockFails(t)
             \/ CallbackReturns(t)
    BY <2>1, CallSteps
  <2>2. CASE Lock(t)
    BY <2>2, LockStep
  <2>3. CASE Relock(t)
    BY <2>3, RelockStep
  <2>4. CASE Enter(t) \/ GiveUp(t) \/ LookAtClock(t)
    BY <2>4, CheckSteps
  <2>5. CASE Wait(t) \/ \E millis \in Millis : WaitMillis(t, millis)
    BY <2>5, FallAsleepStep DEF Wait, WaitMillis
  <2>6. CASE EventWakes(t) \/ SpuriousWakeup(t) \/ TimesOut(t)
    <3>1. Wakeup(t)
      BY <2>6 DEF EventWakes, SpuriousWakeup, TimesOut
    <3>2. event' \in BOOLEAN
      BY <2>6, Zenon DEF EventWakes, SpuriousWakeup, TimesOut, IInv, Types
    <3> QED
      BY <3>1, <3>2, WakeupStep
  <2>7. CASE \E woken \in SUBSET Threads : End(t, woken)
    BY <2>7, EndStep
  <2> QED
    BY <1>3, <2>1, <2>2, <2>3, <2>4, <2>5, <2>6, <2>7 DEF Step
<1> QED
  BY <1>1, <1>2, <1>3 DEF Next

(* Whatever sleeps, times out, wakes for no reason or comes too late: when *)
(* the state is idle, no thread that waits for it is left behind.          *)
THEOREM WakeupsAreKept == Spec => []NoLostWakeup
<1>1. IInv => NoLostWakeup
  BY DEF IInv
<1> QED
  BY InitIInv, NextIInv, <1>1, PTL DEF Spec

-----------------------------------------------------------------------------
(* Timed waits.  Timeouts above MaxInt milliseconds overflow the int of    *)
(* async_mutex_wait_millis(); what follows is about the others.            *)

MaxTime == MaxInt * TicksPerMilli
TimeoutsFit == \A w \in Timeouts : w <= MaxTime

TimeTypes ==
  /\ platform \in {"posix", "windows"} /\ pc \in [Threads -> PCs]
  /\ clock \in 0 .. TicksPerSecond - 1
  /\ left \in [Threads -> 0 .. MaxTime] /\ need \in [Threads -> 0 .. MaxTime]
  /\ sleep \in [Threads -> Nat]

LEMMA Division ==
  ASSUME NEW a \in Int, NEW b \in Nat \ {0}
  PROVE  a \div b \in Int /\ a - b * (a \div b) \in 0 .. b - 1
OBVIOUS

LEMMA Times ==
  ASSUME NEW a \in Int, NEW b \in Int PROVE a * b \in Int /\ a * b = b * a
OBVIOUS

LEMMA TimesNat ==
  ASSUME NEW a \in Nat, NEW b \in Nat PROVE a * b \in Nat
OBVIOUS

LEMMA TimesSum ==
  ASSUME NEW a \in Int, NEW b \in Int, NEW c \in Int PROVE a * (b + c) = a * b + a * c
OBVIOUS

LEMMA TimesTimes ==
  ASSUME NEW a \in Int, NEW b \in Int, NEW c \in Int PROVE a * (b * c) = (a * b) * c
OBVIOUS

LEMMA Cancelled ==
  ASSUME NEW a \in Nat \ {0}, NEW x \in Int, NEW y \in Int, a * x < a * y
  PROVE  x < y
OBVIOUS

(* C divides numbers that are not negative as TLA+ does. *)
LEMMA CDivision ==
  ASSUME NEW a \in Nat, NEW b \in Nat \ {0}
  PROVE  Quot(a, b) \in Nat /\ Rem(a, b) \in 0 .. b - 1 /\ a = b * Quot(a, b) + Rem(a, b)
<1>1. Quot(a, b) = a \div b /\ a \div b \in Int
  BY Division DEF Quot
<1>2. a - b * (a \div b) \in 0 .. b - 1
  BY Division
<1>3. b * (a \div b) \in Int
  BY <1>1, Times
<1>4. a \div b \in Nat
  OBVIOUS
<1> QED
  BY <1>1, <1>2, <1>3, <1>4 DEF Rem

LEMMA Ticks ==
  /\ TicksPerMilli \in Nat \ {0} /\ MillisPerSecond \in Nat \ {0} /\ MaxInt \in Nat
  /\ TicksPerSecond \in Nat \ {0} /\ MaxTime \in Nat
  /\ Half \in Nat /\ TicksPerMilli = 2 * Half
<1>1. /\ TicksPerMilli \in Nat \ {0} /\ MillisPerSecond \in Nat \ {0} /\ MaxInt \in Nat
      /\ TicksPerMilli % 2 = 0
  BY MutexAssumption DEF MutexAssumption
<1>2. TicksPerSecond \in Nat \ {0}
  BY <1>1 DEF TicksPerSecond
<1>3. MaxTime \in Nat
  BY <1>1, TimesNat DEF MaxTime
<1>4. Half \in Nat /\ TicksPerMilli = 2 * Half
  BY <1>1 DEF Half
<1> QED
  BY <1>1, <1>2, <1>3, <1>4

(* (int)(d * 1000 + 0.5) is the nearest number of milliseconds. *)
LEMMA RoundedToNearest ==
  ASSUME NEW d \in 0 .. MaxTime
  PROVE  \A millis \in ToMillis(d) :
           millis \in Nat /\ Abs(TicksPerMilli * millis - d) <= Half
<1> DEFINE q == Rounded(d)
<1>1. /\ q \in Int
      /\ d + Half - TicksPerMilli * q \in 0 .. TicksPerMilli - 1
  <2>1. d + Half \in Int /\ q = (d + Half) \div TicksPerMilli
    BY Ticks DEF Rounded
  <2> HIDE DEF q
  <2>2. PICK a \in Int : a = d + Half
    BY <2>1
  <2>3. q \in Int /\ a - TicksPerMilli * q \in 0 .. TicksPerMilli - 1
    BY <2>1, <2>2, Ticks, Division
  <2> QED
    BY <2>2, <2>3, Ticks
<1>2. TicksPerMilli * q \in Int
  BY <1>1, Ticks, Times
<1> HIDE DEF q
<1>3. Abs(TicksPerMilli * q - d) <= Half
  BY <1>1, <1>2, Ticks DEF Abs
<1>4. q <= MaxInt
  <2>1. TicksPerMilli * q <= MaxTime + Half
    BY <1>1, <1>2, Ticks
  <2>2. MaxTime = TicksPerMilli * MaxInt
    BY Ticks, Times DEF MaxTime
  <2>3. TicksPerMilli * (MaxInt + 1) = MaxTime + TicksPerMilli
    BY <2>2, TimesSum, Ticks
  <2>4. TicksPerMilli * q < TicksPerMilli * (MaxInt + 1)
    BY <2>1, <2>3, <1>2, Ticks
  <2> QED
    BY <2>4, <1>1, Cancelled, Ticks
<1>5. q \in Nat
  <2>1. TicksPerMilli * q > TicksPerMilli * (-1)
    <3>1. TicksPerMilli * (-1) = -TicksPerMilli
      BY Ticks
    <3> QED
      BY <1>1, <1>2, <3>1, Ticks
  <2> QED
    BY <2>1, <1>1, Cancelled, Ticks
<1>6. ToMillis(d) = {q}
  BY <1>4 DEF ToMillis, q
<1> QED
  BY <1>3, <1>5, <1>6

(* abstime is a proper timespec, and lies as many milliseconds from now as *)
(* it should, also when the second is carried.                             *)
LEMMA Carried ==
  ASSUME clock \in 0 .. TicksPerSecond - 1, NEW millis \in Nat
  PROVE  /\ IsTimespec(AbsTime(millis))
         /\ FromNow(AbsTime(millis)) = TicksPerMilli * millis
<1> DEFINE s == Quot(millis, MillisPerSecond)
           m == Rem(millis, MillisPerSecond)
           n == clock + TicksPerMilli * m
           c == Quot(n, TicksPerSecond)
           r == Rem(n, TicksPerSecond)
<1>1. s \in Nat /\ m \in Nat /\ millis = MillisPerSecond * s + m
  BY Ticks, CDivision
<1>2. TicksPerMilli * m \in Nat
  BY <1>1, Ticks, TimesNat
<1>3. n \in Nat
  BY <1>2, Ticks
<1>4. c \in Nat /\ r \in 0 .. TicksPerSecond - 1 /\ n = TicksPerSecond * c + r
  <2> HIDE DEF n
  <2> QED
    BY <1>3, Ticks, CDivision
<1>5. AbsTime(millis) = [sec |-> s + c, nsec |-> r]
  BY DEF AbsTime
<1>6. n = clock + TicksPerMilli * m
  OBVIOUS
<1> HIDE DEF s, m, n, c, r
<1>7. IsTimespec(AbsTime(millis))
  BY <1>4, <1>5 DEF IsTimespec
<1>8. FromNow(AbsTime(millis)) = (s + c) * TicksPerSecond + r - clock
  BY <1>5 DEF FromNow
<1>9. (s + c) * TicksPerSecond = TicksPerSecond * s + TicksPerSecond * c
  BY <1>1, <1>4, Ticks, Times, TimesSum
<1>10. TicksPerSecond * s = TicksPerMilli * (MillisPerSecond * s)
  BY <1>1, Ticks, TimesTimes DEF TicksPerSecond
<1>11. MillisPerSecond * s \in Nat
  BY <1>1, Ticks, TimesNat
<1>12. TicksPerMilli * millis = TicksPerMilli * (MillisPerSecond * s) + TicksPerMilli * m
  BY <1>1, <1>11, Ticks, TimesSum
<1>13. TicksPerSecond * s \in Nat /\ TicksPerSecond * c \in Nat
  BY <1>1, <1>4, Ticks, TimesNat
<1>14. FromNow(AbsTime(millis)) = TicksPerMilli * millis
  <2>1. FromNow(AbsTime(millis)) = TicksPerSecond * s + (n - clock)
    BY <1>3, <1>4, <1>8, <1>9, <1>13, Ticks
  <2>2. n - clock = TicksPerMilli * m
    BY <1>2, <1>6, Ticks
  <2> QED
    BY <2>1, <2>2, <1>10, <1>12
<1> QED
  BY <1>7, <1>14

-----------------------------------------------------------------------------

(* A timed wait takes the time that was left, to the nearest millisecond.  *)
LEMMA WaitMillisKeeps ==
  ASSUME TimeTypes, NEW t \in Threads, NEW millis, WaitMillis(t, millis)
  PROVE  /\ pc'[t] = "asleep" /\ ~aborted'
         /\ sleep' \in [Threads -> Nat] /\ Abs(sleep'[t] - need[t]) <= Half
<1>1. /\ millis \in ToMillis(need[t]) /\ pc' = [pc EXCEPT ![t] = "asleep"]
      /\ sleep' = [sleep EXCEPT ![t] =
           DownTo0(IF platform = "posix" THEN FromNow(AbsTime(millis))
                   ELSE AsDWord(millis) * TicksPerMilli)]
  BY DEF WaitMillis, FallAsleep, Goto
<1>2. aborted' <=> platform = "posix" /\ ~IsTimespec(AbsTime(millis))
  BY Zenon DEF WaitMillis
<1>3. millis \in Nat /\ Abs(TicksPerMilli * millis - need[t]) <= Half
  <2>1. need[t] \in 0 .. MaxTime
    BY DEF TimeTypes
  <2> QED
    BY <1>1, <2>1, RoundedToNearest
<1>4. /\ IsTimespec(AbsTime(millis))
      /\ FromNow(AbsTime(millis)) = TicksPerMilli * millis
  BY <1>3, Carried DEF TimeTypes
<1>5. AsDWord(millis) * TicksPerMilli = TicksPerMilli * millis
  BY <1>3, Ticks, Times DEF AsDWord
<1>6. TicksPerMilli * millis \in Nat
  BY <1>3, Ticks, TimesNat
<1>7. sleep' = [sleep EXCEPT ![t] = TicksPerMilli * millis]
  <2>1. DownTo0(TicksPerMilli * millis) = TicksPerMilli * millis
    BY <1>6 DEF DownTo0
  <2> QED
    BY <1>1, <1>4, <1>5, <2>1, Zenon
<1>8. ~aborted'
  BY <1>2, <1>4
<1> QED
  BY <1>1, <1>3, <1>6, <1>7, <1>8 DEF TimeTypes

LEMMA InitTimeTypes == Init => TimeTypes
<1> SUFFICES ASSUME Init PROVE TimeTypes
  OBVIOUS
<1>1. /\ platform \in {"posix", "windows"} /\ pc = [t \in Threads |-> "out"]
      /\ clock = 0 /\ left = [t \in Threads |-> 0] /\ need = left /\ sleep = left
  BY MutexAssumption DEF Init, MutexAssumption
<1> QED
  BY <1>1, Ticks DEF TimeTypes, PCs

LEMMA NextTimeTypes ==
  ASSUME TimeTypes, TimeoutsFit, [Next]_vars
  PROVE  TimeTypes'
<1>1. CASE Tick
  <2>1. /\ clock' = (clock + 1) % TicksPerSecond
        /\ left' = [t \in Threads |-> DownTo0(left[t] - 1)]
        /\ sleep' = [t \in Threads |-> DownTo0(sleep[t] - 1)]
        /\ UNCHANGED <<platform, pc, need>>
    BY <1>1 DEF Tick
  <2>2. clock' \in 0 .. TicksPerSecond - 1
    BY <2>1, Ticks DEF TimeTypes
  <2>3. \A t \in Threads :
          DownTo0(left[t] - 1) \in 0 .. MaxTime /\ DownTo0(sleep[t] - 1) \in Nat
    BY Ticks DEF TimeTypes, DownTo0
  <2> QED
    BY <2>1, <2>2, <2>3 DEF TimeTypes
<1>2. CASE UNCHANGED vars
  BY <1>2 DEF vars, timeVars, TimeTypes
<1>3. ASSUME NEW t \in Threads,
             \/ StartCall(t) \/ (\E w \in Timeouts : StartTimed(t, w))
             \/ Lock(t) \/ Relock(t) \/ Step(t)
             \/ SpuriousWakeup(t) \/ CallbackReturns(t)
      PROVE  TimeTypes'
  <2>1. platform' = platform /\ clock' = clock
    BY <1>3 DEF Step, StartCall, StartTimed, Lock, Relock, TrylockFails, Enter, GiveUp,
                LookAtClock, Wait, WaitMillis, FallAsleep, EventWakes, SpuriousWakeup, TimesOut,
                Wakeup, CallbackReturns, End, Forget, timeVars
  <2>2. pc' \in [Threads -> PCs]
    <3>1. CASE \E woken \in SUBSET Threads : End(t, woken)
      BY <3>1 DEF End, TimeTypes, PCs
    <3>2. CASE \E p \in PCs : Goto(t, p)
      BY <3>2 DEF Goto, TimeTypes
    <3> QED
      BY <1>3, <3>1, <3>2
         DEF Step, StartCall, StartTimed, Lock, Relock, TrylockFails, Enter, GiveUp, LookAtClock,
             Wait, WaitMillis, FallAsleep, EventWakes, SpuriousWakeup, TimesOut, Wakeup,
             CallbackReturns, PCs
  <2>3. left' \in [Threads -> 0 .. MaxTime]
    <3>1. CASE \E w \in Timeouts : StartTimed(t, w)
      <4>1. PICK w \in Timeouts : left' = [left EXCEPT ![t] = DownTo0(w)]
        BY <3>1 DEF StartTimed
      <4>2. w \in Int /\ w <= MaxTime
        BY MutexAssumption DEF MutexAssumption, TimeoutsFit
      <4>3. DownTo0(w) \in 0 .. MaxTime
        BY <4>2, Ticks DEF DownTo0
      <4> QED
        BY <4>1, <4>3 DEF TimeTypes
    <3>2. CASE left' = left \/ left' = [left EXCEPT ![t] = 0]
      BY <3>2, Ticks DEF TimeTypes
    <3> QED
      BY <1>3, <3>1, <3>2
         DEF Step, StartCall, Lock, Relock, TrylockFails, Enter, GiveUp, LookAtClock,
             Wait, WaitMillis, FallAsleep, EventWakes, SpuriousWakeup, TimesOut, Wakeup,
             CallbackReturns, End, Forget, timeVars
  <2>4. need' \in [Threads -> 0 .. MaxTime]
    <3>1. \/ need' = need \/ need' = [need EXCEPT ![t] = 0]
          \/ need' = [need EXCEPT ![t] = left[t]]
      BY <1>3
         DEF Step, StartCall, StartTimed, Lock, Relock, TrylockFails, Enter, GiveUp, LookAtClock,
             Wait, WaitMillis, FallAsleep, EventWakes, SpuriousWakeup, TimesOut, Wakeup,
             CallbackReturns, End, Forget, timeVars
    <3> QED
      BY <3>1, Ticks DEF TimeTypes
  <2>5. sleep' \in [Threads -> Nat]
    <3>1. CASE \E millis \in Millis : WaitMillis(t, millis)
      BY <3>1, WaitMillisKeeps
    <3>2. CASE \E woken \in SUBSET Threads : End(t, woken)
      BY <3>2 DEF End, TimeTypes
    <3>3. CASE sleep' = sleep \/ sleep' = [sleep EXCEPT ![t] = 0]
      BY <3>3 DEF TimeTypes
    <3> QED
      BY <1>3, <3>1, <3>2, <3>3
         DEF Step, StartCall, StartTimed, Lock, Relock, TrylockFails, Enter, GiveUp, LookAtClock,
             Wait, EventWakes, SpuriousWakeup, TimesOut, Wakeup, CallbackReturns, Forget, timeVars
  <2> QED
    BY <2>1, <2>2, <2>3, <2>4, <2>5 DEF TimeTypes
<1> QED
  BY <1>1, <1>2, <1>3 DEF Next

(* Nobody else moves a thread that is about to wait. *)
LEMMA WaitersStay ==
  ASSUME TimeTypes, NEW t \in Threads, pc[t] = "wait", timed[t], [Next]_vars,
         ~\E millis \in Millis : WaitMillis(t, millis)
  PROVE  pc'[t] = "wait"
<1>1. CASE Tick \/ UNCHANGED vars
  BY <1>1 DEF Tick, vars
<1>2. ASSUME NEW u \in Threads,
             \/ StartCall(u) \/ (\E w \in Timeouts : StartTimed(u, w))
             \/ Lock(u) \/ Relock(u) \/ Step(u)
             \/ SpuriousWakeup(u) \/ CallbackReturns(u)
      PROVE  pc'[t] = "wait"
  <2>1. CASE \E woken \in SUBSET Threads : End(u, woken)
    <3>1. PICK woken \in SUBSET Threads : End(u, woken)
      BY <2>1
    <3>2. t \notin woken /\ t # u
      BY <3>1 DEF End, Signalled, Asleep
    <3> QED
      BY <3>1, <3>2 DEF End
  <2>2. CASE ~\E woken \in SUBSET Threads : End(u, woken)
    <3>1. u # t /\ \E p \in PCs : Goto(u, p)
      BY <1>2, <2>2
         DEF Step, StartCall, StartTimed, Lock, Relock, TrylockFails, Enter, GiveUp, LookAtClock,
             Wait, WaitMillis, FallAsleep, EventWakes, SpuriousWakeup, TimesOut, Wakeup,
             CallbackReturns, PCs
    <3> QED
      BY <3>1 DEF Goto, TimeTypes
  <2> QED
    BY <2>1, <2>2
<1> QED
  BY <1>1, <1>2 DEF Next

LEMMA StepKeepsTimeout == ASSUME TimeTypes, [Next]_vars PROVE
  \A t \in Threads :
    pc[t] = "wait" /\ timed[t] =>
      \/ pc'[t] = "wait"
      \/ pc'[t] = "asleep" /\ ~aborted' /\ Abs(sleep'[t] - need[t]) <= Half
BY WaitersStay, WaitMillisKeeps

(* However long a millisecond and a second are, and wherever the clock is  *)
(* in its second: with timeouts that fit an int, every timed wait is       *)
(* accepted by the system and lasts for the time that was left.            *)
THEOREM TimeoutsAreKept == ASSUME TimeoutsFit PROVE Spec => TimeoutIsKept
<1>1. Spec => []TimeTypes
  BY InitTimeTypes, NextTimeTypes, TimeoutsFit, PTL DEF Spec
<1>2. TimeTypes /\ [Next]_vars =>
        [\A t \in Threads :
           pc[t] = "wait" /\ timed[t] =>
             \/ pc'[t] = "wait"
             \/ pc'[t] = "asleep" /\ ~aborted' /\ Abs(sleep'[t] - need[t]) <= Half]_vars
  BY StepKeepsTimeout
<1> QED
  BY <1>1, <1>2, PTL DEF Spec, TimeoutIsKept

=============================================================================
