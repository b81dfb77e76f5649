# A TLA+ model of lua-mtstates

mtstates lets several Lua interpreters live in one process and be called from
any of its threads. This directory models the C code that makes that safe: the
monitor around each interpreter, the registry that creates, finds, counts
and frees them, the way of values, errors and interrupts between interpreters,
and the mutexes and condition variables below. TLC checks the models on small
instances, TLAPS proves the main safety properties for every size. Line numbers refer to
`src/src/state.c` unless another file is named.

## The system

| part | state it keeps | operations | who it interacts with |
| --- | --- | --- | --- |
| state monitor (`state.c` 819-838, 890-918, 966-1368) | `isBusy`, `calledByThread`, `L2`, `owned`, `closed`, `stateMutex` with its condition variable | `call`, `tcall`, `close`, end of a call, drop of the last owner | called by user threads, by callbacks of other states, by native code |
| state registry (382-806, 841-918) | global lock, the bucket list, `used`, `owned`, `initialized`, `closed`, names | `newstate`, `state`, `singleton`, collection (`__gc`), freeing | takes `stateMutex` under the global lock; finalizers take the global lock under `stateMutex` |
| hash table (22-104) | `state_bucket_list`, `state_buckets`, `bucket_usage`, `state_counter` | insert, find, grow, shrink | used by the registry under the global lock |
| interrupt (920-952) | the debug hook of an interpreter | `interrupt` once, always, never | writes into an interpreter another thread runs |
| argument transfer (231-341, 1179-1368) | the stacks of two interpreters | copy values between interpreters | fails like an error in the callback |
| receiver C API (`receiver_capi_impl.c`) | `used`; a writer's buffer | retain, release, `msgToReceiver`, `add...ToWriter` | calls the monitor without a Lua state |
| notify C API (`notify_capi_impl.c`) | `used` | retain, release, `notify` | calls the monitor without a Lua state |
| synchronization (`async_util.c`, `async_util.h`) | recursive mutexes, condition variables, atomic counters | lock, trylock, wait, timed wait, notify | everything above |
| memory buffer (`util.c`) | `MemBuffer` | reserve, free | writer, dump of a setup function |
| module (`main.c`) | `initStage`, the global lock, the id counter | `luaopen_mtstates`, the sentinel's finalizer | every interpreter that loads the module |

What makes this code hard:

* A callback may call other states and its own, so a thread can be inside of
  many states; a call of a state by itself must not wait for itself and must
  not end the call it is nested in.
* Four places close an interpreter: `close()`, the collection of the last
  owner, the end of a call of a state without owner, and the freeing of the
  object. None may do it under a running callback and one must do it.
* One condition variable serves timed calls, untimed calls and threads that
  wait in `singleton()`; a call's end signals one of them.
* Counters are changed with and without the global lock, and the garbage
  collector runs `MtState_release` wherever a Lua state allocates.
* A setup function is user code that runs while the new object can already be
  found by `singleton()`, and it can fail.

What would make each part correct: for the monitor, exclusion, no lost wakeup,
closing exactly once and never under a callback, timed calls that return; for
the registry, exact counts, no use after free, no leak, uniqueness of
singletons, no lookup of what is half built or orphaned, no deadlock between
the two kinds of locks; for the hash table, that every object is in the one
chain its id selects; for the writer, that what is read back is what was
written. `PROJECT.json` lists the hazards at their lines.

## Modules

| module | role |
| --- | --- |
| `StateCall` | the monitor of states that have been set up |
| `ExclusiveState` | what the monitor promises: an interpreter has one user at a time and is closed only when it has none |
| `StateCallProofs` | proofs about `StateCall` |
| `StateRegistry` | creation, lookup, counting, collection and freeing of states |
| `StateRegistryProofs` | proofs about `StateRegistry` |
| `Buckets` | the hash table behind the registry's set of listed objects |
| `BucketsProofs` | proofs about `Buckets` |
| `Writer` | the messages of the receiver C API, their buffer and their decoding |
| `Transfer` | arguments, results and errors between two interpreters |
| `TransferProofs` | proofs about `Interrupt`, and about `Transfer` under interrupts |
| `Interrupt` | `Transfer` with debug hooks that other threads set |
| `Delivery` | `Writer` and `Interrupt` together: the ways of values to a callback |
| `DeliveryProofs` | proofs about `Writer`, and about `Delivery` as a whole |
| `AsyncMutex` | a mutex with its condition variable, on POSIX and on Windows, and timed waits |
| `AsyncMutexProofs` | proofs about `AsyncMutex` |
| `ModuleInit` | the race to initialize the module, and its sentinels |
| `ModuleInitProofs` | proofs about `ModuleInit` |
| `NumberInduction` | induction and recursion on numbers, for the proofs |
| `MC...` | values and symmetry sets for TLC, one module per specification |

`StateCall` and `StateRegistry` describe the same objects at two grains: the
first has every step of a call but states that are set up already, the second
has their whole life but a call of it is only busy or not. `Buckets` is what
`listed` is in `StateRegistry`, `Writer` is the payload of a `msgToReceiver`, `Transfer` is what
happens in `StateCall` between `Invoke` and `Return`, and `ModuleInit` comes before everything else.
`AsyncMutex` is the grain below the waits of `StateCall`: there a signal wakes
a sleeper and a deadline may pass at any time, here it is seen how the platform
does the one and how the code computes the other.

### StateCall

A thread is at pc `run` while it executes its own code: code outside of any
state, or the callback of the state on top of its `stack`. The other pcs are
places in the C functions. The mutex is a variable and every critical section
takes two steps, so the `trylock` of a poll sees it locked.

| action | code |
| --- | --- |
| `StartCall`, `LockCall`, `TrylockFails` | 983-1048 |
| `ObjectClosed`, `Enter`, `Wait`, `TimeOut` | 1050-1083 |
| `StopWaiting` (spurious or timed out), `Relock` | `async_util.c` 100-179 |
| `Invoke` | the first use of the interpreter, 1089 and 1138 |
| `Return`, `LockEnd`, `End` | 1091-1107, 1162-1171 |
| `StartClose`, `LockClose`, `Close` | 819-838 |
| `StartDrop`, `LockDrop`, `Drop` | 890-908, of an owning reference |

`Kinds` tells apart an untimed call, `tcall` with a positive timeout, a poll
(timeout of 0 or less) and `msgToReceiver` with `nonblock`. Time is not
counted: a deadline may pass whenever a timed call looks at the clock. `owned`
is the set of threads whose Lua state holds an owning reference, so each thread
has one at most. `crashed` records that a NULL interpreter was dereferenced;
nothing happens after that.

### StateRegistry

`obj` holds the `MtState` objects with their counters, `ref` the userdata
objects and native handles, `op` the invocation each thread is in (the
`NewStateVars` of the code). Objects are not reused, so that a freed one can be
recognized; their ids are the elements of `States`. A critical section in which
nothing blocks is one step. The mutexes stay locked between steps where a
thread blocks while it holds one: `Lookup` to `MakeRef` or `Create` (global
lock, through the wait of 522), `Collect` to `Collected`, `Close` to `Closed`
and `EndCall` to `Ended` (`stateMutex`, while finalizers want the global lock).
`loaded` says that an interpreter has the sentinel of `main.c` whose finalizer
locks the global lock.

| action | code |
| --- | --- |
| `Start`, `Lookup`, `Examine`, `Relock`, `MakeRef` | 457-554 |
| `MakeRefFails`, `FindFailed` | a memory error in 541-543: both mutexes are unlocked (398-407), then the call ends with a write to the object that was found (414-416) |
| `CreateFails`, `Create` | 558-665 |
| `Require`, `Required` | a setup function that loads the module, `main.c` 92-133 |
| `Initialize`, `SetupFails` | 678-806 and the cleanup of 398-432 |
| `Collect`, `Collected` | `MtState_release`, 890-918 |
| `Retain`, `ReleaseNative`, `Free` | the C APIs, and 883-888 |
| `Close`, `Closed`, `Call`, `CallRelock`, `EndCall`, `Ended` | the monitor, as far as it makes a state busy or closes it |
| `CollectInFind`, `CollectInCall` | the collector inside 541, and inside 1354 |

`Features` switches on what the code really does but a run wants to look at
alone: native handles, setup functions that load the module, failures, memory that
runs short in a find after the object was found (`findFails`), and two
dangerous moments for the collector. `registry_life` excludes these three, because
the code is wrong there (the first three observations below): a find gets its
memory, a collection inside 541 releases
references to other states only (`gcInFind` lifts that), and a call keeps its
reference (`gcInCall` lets it go). `registry_singleton` has `findFails` and `gcInCall`.

The third way through 521-532, which takes the name away from an object whose
setup was given up, is in `Await`, but no step ever takes it: `SetupIsPrivate`
shows that an object that is not initialized stays busy.

### Buckets

Every operation runs under the global lock. The lock is recursive, and
`MtState_free` closes the interpreter in its middle, where finalizers may free
and create other objects: it is two actions with a stack `closing` between them.
Pointers to pointers (`prevStatePtr`) are records that name the bucket or the
object whose field they point to.

| action | code |
| --- | --- |
| `NewState` | 636-665, with `toBuckets` and `newBuckets` (22-56) |
| `Unlink`, `Freed` | `MtState_free` up to `lua_close()` (841-854) and from there on (855-881) |

`Found` is the lookup by id (92-104). The flags that lookups test are in
`StateRegistry`.

### Writer

The buffer is a sequence of cells, each a type tag or a byte, so a decoder that
is one cell off meets a tag where it wants a byte. `Base` stands for the 256
values of a byte. `added` is auxiliary: what native code has added since the
buffer was empty.

| action | code |
| --- | --- |
| `NewWriter`, `FreeWriter`, `ClearWriter` | `receiver_capi_impl.c` 42-68, `util.c` 19-47 |
| `AddBoolean` ... `AddArray` | `receiver_capi_impl.c` 71-207, through `mtstates_membuf_reserve` (`util.c` 54-91) |
| `MsgToReceiver` | `receiver_capi_impl.c` 209-223; `Pushed` is what the callback gets, 1239-1316 |

### Transfer and Delivery

An interpreter is a sequence of frames, one per C function that runs in it. A
call puts functions into L2 (`MtState_callCall3`, `MtState_call4` or
`MtState_call3a`), an error leaves them through the protected calls of L2 first,
then of L. If a state calls itself, L is L2 and everything is on one stack.
Values are plain (copied), carrays (cloned, which may fail) or unsupported.
`errorMsg` is where the copy of an error's message is, in the buffer on the C
stack or in memory that a later function frees; `blocks` counts that memory.

| action | code |
| --- | --- |
| `Start`, `Entered` | 983-1036, 1087-1091, 1179-1206 |
| `CopyArg`, `RefuseArg`, `ArgsDoNotFit`, `CalleeFails` | `pushArgs` (231-341) in 1330-1343 |
| `Callback`, `CallbackReturns`, `CallbackFails` | 1344-1346 |
| `Results`, `CopyResult`, `RefuseResult`, `ResultsDoNotFit`, `CallerFails` | 1347-1365 |
| `CaughtByCallCall3` | 1188-1194, with `setErrorMsg` (204-227) |
| `Caught2`, `MessageFails` | 1207-1228; a memory error there replaces the message only, a call whose `errorArg` is set still raises an argument error (1117-1122) |
| `Caught`, `Returned`, `Forget` | 1229-1236, 1091-1131 |
| `NativeError`, `NativeDoesNotFit` | 1132-1161 |

`Delivery` composes `Writer` with `Interrupt`, which extends `Transfer`. A
writer is filled before the first call and calls are made with no writer open,
because neither reads what the other has: what they share is the callback's
interpreter, which `StackIsRestored` shows to be the same after a call as before.

### Interrupt

`MtState_interrupt` writes the debug hook of an interpreter that another thread
runs, without a lock. Lua calls the hook before each instruction and whenever a
function is called or returns, so the steps of `Transfer` are divided: `LuaStep`
are those at which Lua looks for a hook, `CStep` the C code between them, which
a hook cannot stop. A hook can run when a C function is called or returns
(`enter`, `Leaving`), between the instructions of the callback, when `pushArg` calls
`pushClonedCarray` in the callback's interpreter (`Cloning`: arguments, and results if
the state calls itself), and when `errormsghandler1` is called for an error that is on
its way (`InHandler`). `fired` is the hook that Lua has fetched and runs; between
`HookFires` and the end of the hook a request of another thread may come. Hooks
do not run while a hook runs. `asked`, `late` and `raised` are auxiliary: the last
request, the hook that was running when it came, and the errors since then.

An interrupt ends what it meets. The `lua_pcall` of `pushArg` (301) catches the one in
`pushClonedCarray`, and the call then fails with an argument error or, for a result,
with an error that names it. One at the call or the return of
`MtState_callCall3` is outside of its `lua_pcall` and goes to `lua_cpcall` directly,
without a copy of its message. One in the error handler replaces the message of
the error. The model also lets the handler be interrupted for an error that came
from a hook itself, which is more than can happen in the code.

| action | code |
| --- | --- |
| `MtState_interrupt` | 933-952 |
| `HookFires` | the events of `lua_sethook` in 947 |
| `interruptHook1`, `interruptHook2` | 920-931 |
| `CallIsInterrupted` | what the error does to the call: 296-306, 168-171, 1188-1194 |
| `OutsideCallCall3` | 1179-1195 outside of the `lua_pcall` in 1188 |
| `Protect` | a `pcall` in the callback, which catches the error |

### AsyncMutex

The callers of one state, as far as they need its mutex. On Windows the
condition variable is an auto-reset event with `waitingCounter`: a signal that
finds the event set is lost, one that comes between the unlock and the wait is
kept. Time is counted in ticks relative to the present: of the clock only its
place in the current second is kept (what the carry into the next second depends
on), of the end of a `tcall` the time that is left.

| action | code |
| --- | --- |
| `StartCall`, `StartTimed` | 983-1040 |
| `Lock`, `TrylockFails` | 1039-1048 |
| `Enter`, `GiveUp`, `LookAtClock` | 1061-1083 |
| `Wait`, `WaitMillis` | 1066-1077, `async_util.c` 100-179 |
| `EventWakes`, `SpuriousWakeup`, `TimesOut`, `Relock` | the end of these waits |
| `CallbackReturns`, `End` | 1091-1107, with `async_mutex_notify` (`async_util.h` 321-339) |
| `Tick` | the clock |

### ModuleInit

| action | code (`main.c`) |
| --- | --- |
| `Open`, `LookAtStage`, `Claim`, `InitMutex`, `Publish`, `Poll` | 68-89 |
| `Lock`, `Register` | 92-133 |
| `CloseInterpreter`, `HandleClosingLuaState` | the finalizer, 29-38 |
| `TakeId` | `newstate`, `state.c` 638 |

`InitMutex` makes the mutex free again whatever it was before, as initializing
it again would. The code assumes that the pointer written at `main.c` 77 is seen
by whoever sees stage 2, and so does the model: the atomic operations are
sequentially consistent.

## Runs

`CHECK_DEADLOCK FALSE` is set where the system may stop: a process may have
crashed, all threads may wait for each other in cyclic calls, and objects, ids
or references may be used up. `delivery`, `async_mutex` and `module_init` never stop and are
checked for deadlocks.

| run | instance | what it shows |
| --- | --- | --- |
| `call_nested` | 2 threads, 2 states, 3 deep | `RunningIsOpen`, `OrphanIsClosed`, `IInv` (with its parts `SelfCallsAreNested` and `ClosedCannotBeFound`), and that `StateCall` implements `ExclusiveState`; depth 3 allows a self call through another state |
| `call_live` | 3 threads, 1 state, fair | exclusion and no lost wakeup with one thread inside and two that compete for one signal, the least number where that happens; `IdleIsTaken`, `TimedCallReturns`, where a callback may run for ever, which is all that a thread in a cycle of calls sees of it |
| `call_closed` | 3 threads, 1 state | finding 1 |
| `registry_life` | 3 threads, 2 objects, 3 references, failures, native handles, modules | counts, lifetimes, leaks, orphans, half built objects; two objects are enough for an ambiguous name, three references for a third holder or a handle beside two userdata |
| `registry_singleton` | 3 threads, 2 objects, 3 references, failures, finds that fail, modules, references collected in calls, no `newstate` | one singleton per name, even where a state is freed under its call, and no lost wakeup without native handles |
| `registry_fails`, `registry_locks` | the smallest that shows it | findings 2 and 3 |
| `delivery` | `Base` 4, integers and sizes of 2 bytes, buffers of up to 11 cells; up to 2 arguments and 2 results of five values | messages come back as they were added, at the limits of their encodings; a message of 11 cells has a value of each long type with another value before or after it, and outgrows a buffer twice. Calls hand over all values or name the first that cannot be, with a good value before or after it, free their messages, and leave the interpreter as it was; interrupts of all three kinds come at every point, with one `pcall` in the callback |
| `interrupt_repeat` | as `delivery` | finding 4 |
| `async_mutex` | 3 threads, both platforms, timeouts of 0, 1 and 6 ticks, 4 ticks to a millisecond, 2 milliseconds to a second, fair | no lost wakeup, timed waits that last as long as they should at every place of the clock, timed calls that return |
| `buckets` | 7 ids, 2 buckets at first, at most 1 object per bucket and 2 in a chain, 3 buckets per object before it shrinks | the table doubles twice, shrinks, and is given back and made again |
| `module_init` | 3 threads, fair | one lock, initialized before its use, no id twice, loading returns |

Bounds: `MaxDepth` limits the nesting of calls, `States` the objects ever
allocated (when they are used up, creating fails as it does without memory),
`Refs` the references at one time, `MaxId` the ids, `MaxCapacity` the memory for
a buffer, `MaxTimed` the timed calls at one time, `MaxProtected` the nesting of
`pcall` in a callback. In `async_mutex` a second of 8 ticks has every case of the
carry, a timeout of 1 tick rounds to 0 milliseconds, one of 6 ticks is halfway
between two; when a part of it has passed it needs a carry at some places of the
clock and none at others. Three threads are one that runs and two that sleep, so that
signals can meet a set event. `registry_fails` has one object and two threads, one in
the setup function and one that waits for it. `InitialBuckets`, `MaxLoad`, `MaxUsage` and `MinLoad` are
64, 4, 30 and 10 in the code; the small values reach every branch with few
objects. In the code an encoding changes at 0xff, in `delivery` at 3, so that
strings and integers on both sides of the limit fit into the buffer.

### Fairness

`StateCall`: a thread inside the C functions goes on (`WF` of `Step`), a mutex
that is free again and again is got (`SF` of `Lock`), and a call that looks at
the clock again and again finds its deadline passed (`SF` of `TimeOut`), as
time advances. A timed wait ends (`WaitTimesOut` is in `Step`). Nothing is
assumed of user code: callbacks may run for ever. `StateRegistry` (in `registry_fails`) uses `SF` of
the C functions' steps, and assumes that setup functions and callbacks return,
because their end is what is waited for. Untimed calls are not promised to get
in: `isBusy` is taken by whoever comes first, and the code has no queue.

`AsyncMutex`: time passes (`WF` of `Tick`), a thread inside the C functions goes
on (`WF` of `Step`, with the end of its timed wait), and gets a mutex that is
free again and again (`SF`). Callbacks need not return.

`ModuleInit`: a thread inside of `luaopen_mtstates` or `lua_close` goes on (`WF`)
and gets the global lock when it is free again and again (`SF`). Nobody is
assumed to load the module or to close an interpreter.

### Findings

1. `call_closed`: a call that slept does not look at `L2` again (1081) and
   dereferences the NULL interpreter of a state that was closed meanwhile.
2. `registry_fails`: a failed `singleton` leaves its object busy and wakes nobody
   (688-706): the second one sleeps for ever and keeps the global lock.
3. `registry_locks`: `close()` and lookups take the two locks in opposite orders.
4. `interrupt_repeat`: if `interrupt(true)` comes between the moment Lua fetched
   `interruptHook1` and the reset in that hook (923), the new hook is reset too and
   the state is interrupted once only, not "at every operation again" (`README.md`
   349). `InterruptsAsAsked` shows that this is the only way to lose it.

Observations without a run of their own, each with the way to see it:

* `lua_newuserdata` in 541 can collect the last reference of the object that was
  found and is not counted yet: `ReferencesAreLive` in `registry_life` with
  `gcInFind` among the `Features`.
* If memory runs short in 541-543, after a state was found, `Mtstates_newState1`
  unlocks both mutexes (400-406) and then writes to the object that was found (414-416),
  to which no reference was counted; another thread may have freed it:
  `WorkIsOnLiveObjects` in `registry_life` with `findFails` among the `Features`. The other
  invariants of `registry_life` hold with it.
* A call puts `this` in the place of the reference it was made with (1032). If the
  caller has no other, its collector can release it when results are pushed
  (1354), and `MtState_free` (841-860, called at 901 whether or not the state is
  busy) closes the interpreter that runs the call: `WorkIsOnLiveObjects` in
  `registry_life` with `gcInCall` among the `Features`.
* `singleton` shares the condition variable with calls and does not pass a signal
  on: `NoLostWakeup` in `registry_singleton` with `retain` among the `Features`.
* While it waits, `singleton` keeps the global lock, which the setup function
  needs when it loads the module: `SetupIsAwaited` in `registry_fails` with
  `module` in the place of `fail`. Without either it holds there.
* `msgToReceiver` takes arguments `nonblock` and `clear` (`receiver_capi.h` 137:
  "function should do nothing if receiver cannot receive immediately") and uses
  neither (`receiver_capi_impl.c` 209-224): in `StateCall` it waits like any
  untimed call, in `Writer` it clears the writer after success only.
* The remaining time of a `tcall` is converted to an `int` of milliseconds (1066).
  Above 2147483 seconds that is undefined; the smallest int, which x86 gives,
  makes `tv_nsec` negative, the system refuses the wait and `async_util_abort()`
  ends the process: `TimeoutIsKept` in `async_mutex` with timeouts 0 and 10 and a
  `MaxInt` of 2.
* `interrupt` uses `L2` without a lock and does not look whether it is NULL (947),
  where a closed state should raise `object_closed` (`README.md` 368: "Every
  operation from any referencing object raises").
* If the caller's `luaL_checkstack` or `lua_pushstring` fails while a call's error is
  raised again (1112, 1119), the copy of its message is not freed.
* `tcall(0)` gives up when another thread has the mutex for a moment only
  (1043), although the state is idle: `TrylockFails` of `StateCall`.

## Proofs

`StateCallProofs` proves for all `Threads`, `States`, `Kinds` and `MaxDepth`
that satisfy `CallAssumption` (the three null values are no threads or states):
`TypeCorrect`, `Invariance`, `MutuallyExclusive`, `CallbacksAreSafe`,
`WakeupsAreKept`, `OrphansAreClosed` and `Refinement`.

Exclusion is not inductive. `Enter` decides by `isBusy` and `calledByThread`,
so `IInv` ties them to the stacks: every call on a stack keeps its state busy
for its thread (`FramesAreBusy`), `isBusy` has an outer call that will clear it
(`BusyHasRunner`), and `isSelfCall` is set exactly on calls nested in an outer
one (`SelfCallsAreNested`). The end of an outer call may clear `isBusy` only
because it is the thread's last call of the state, which follows from
`SelfCallsAreNested` and `EndingIsOuter`. With that, an interpreter can be closed
only when no stack has a call of it. `NoLostWakeup` needs that whoever leaves
the monitor without entering found the state busy. The proof has one lemma per
part, and most actions go through `Quiet`, which says that a step leaves stacks
and `isBusy` alone. `Refinement` maps `inside` to the threads with a call on
their stack and `open` to `L2`.

`ModuleInitProofs` proves `InitializedOnce`, `IdsGoUp` and `TypeCorrect` for all
`Threads`, `StartIds` and `MaxId` that satisfy `InitAssumption` (`NoThread` is no
thread, start values are below the bound). The invariant says where the threads
can be at each `initStage` (`StagesAgree`), that one thread at most initializes,
who has the lock, and that `stateCounter` is the number of sentinels, which keeps
it from going below 0.

`TransferProofs` proves `Interrupted` for all values, bounds and faults. The
invariant `HookInv` relates the hook that is set and the one that runs with the last
request: a hook that runs was set by it, unless one that was running when the request
came is still on its way, and the errors since then are one for a request that is
carried out and one more for that old hook. `InterruptsAsAsked` says with that when a
hook is not what was asked for: after the one error of an `interrupt()`, and when
the hook of an earlier `interrupt()` was running as `interrupt(true)` came and has reset
it. That second case is finding 4, not what the documentation promises, and the theorem
says that there is no other. No step of `Transfer` changes a variable of `HookInv`.

It proves four more properties of the same specification, for any values,
any number of them and any bounds. `StacksAreRestored` and `NoMessageLeaks` follow
from `IInv`: `DepthAgrees` is the number of functions that L2 is in at each place
and for each way of a call, `MessageIsOwned` where the copy of the message is.
The hypothesis `NoCallerFaults` is needed: with them `StackIsRestored` is false (see
below). `ValuesGetThrough` and `TheRightValueIsNamed` need no such hypothesis, they
hold with all faults. Their invariant `DataInv` has the whole contents of both
stacks. `Under` is what is below the callback in its interpreter, `UnderCopies` what
is below the copies of the results in the caller's; while arguments are copied the
callee's frame is `Under`, the callback and the first `n` arguments
(`ArgsCopied`), while results are copied the caller's is `UnderCopies` and the
first `n` results (`ResultsCopied`). Where a state calls itself these are one stack,
and the invariant shows that the arguments that are still to be copied are not
the copies. `IsPassed` says that everything before `next` could be copied, so the
value that is refused is the first one, and `Names` says so of the error until it
is the outcome. The proof has one lemma per action; most of its length is
arithmetic of indices in concatenated sequences (`Halves`, `NextCopied`, `Called`).
It needs that a type is not both supported and unsupported
(`TransferAssumption`), as the `switch` of `pushArg` has one case for each.

`DeliveryProofs` proves `NothingBeyondTheEnd` (`FitsCapacity`) and
`WhatWasAddedIsPushed` (`AddedIsPushed`), for any number of values of a byte, any
sizes of integers, sizes and numbers, any values and any ways to grow. That what
is decoded is what was encoded is an induction over bytes (`FromInMemory`: the sum
of the weighted digits of `i` is `i` modulo the weight of all) and over values
(`EncodedIsRead`: the loop that reads is, after `k` steps, behind the first `k`
encodings). The invariant `WriterInv` says that the buffer is the encodings of the
added values one behind the other (`Encoded`), however they got there; an addition
appends encodings (`BothEncoded`), each of which is decoded to its value wherever it is
(`EncodingDecodes`, one lemma per type). The library's induction theorems
have operators as parameters, which the provers cannot instantiate; `Induction` and
`Recursion` of `NumberInduction` state the same with sets and functions and are proved
from the order of the natural numbers being well founded. `WhatWasAddedIsPushed` has the hypothesis
`TruthFitsByte`: an `int` that is true for `addBooleanToWriter` is not a
multiple of 256 (78 stores it as a `char`). Without it the property is false: 256 is received as false. `DeliveryIsTyped` is
`DeliveryTypeOK`: both parts have their types, with all faults.

`AsyncMutexProofs` proves `WakeupsAreKept` for any number of threads and both
platforms: the mutex is held from the check to the wait (`MutexIsHeld`), so who
begins to wait has seen the state busy (`WaitersSawBusy`), and on Windows
`waitingCounter` is the number of those who wait (`CountIsExact`), so that the
event is set when there are some. `TimeoutsAreKept` is about the arithmetic: for
any lengths of a millisecond and a second and any place of the clock, the
seconds and nanoseconds that the code computes are a valid time, half a
millisecond from the one that was asked at most. Its hypothesis `TimeoutsFit` excludes
timeouts that overflow the `int`.

`BucketsProofs` proves all invariants of `Buckets`, for any `MaxId`, any
`InitialBuckets`, `MaxLoad`, `MaxUsage` and `MinLoad` above 0, and every way in which
memory fails and finalizers nest. Its only assumption beside those bounds is that
`Null` is no number and no pointer to a pointer. None of the properties is
inductive: that a pointer points back says nothing of the chain that it is in.
The invariant `Sound` therefore reads the links as sequences, one for each
bucket: there are sequences `L[i]` of ids, together the listed objects, each once
and in the bucket that its id selects (`Structured`), whose links are those of
the table (`Linked`): the bucket points to the first, each object to the next one and
its `prevStatePtr` to the field before it. Objects outside of the table have no
links. From `L` the properties follow, as a chain that is followed through the links is
`L[i]` (`ChainIs`), however long it is. The actions become operations on
sequences: an insertion puts an id in front (`Insertion`), a removal takes
one out of the middle (`Removal`), and
`newBuckets`, which moves the objects one by one and changes the `nextState` that it
walks along, is an induction over its steps (`WalkIs`, `Rebuilding`): after each of
them the new list is sound for the objects that were moved and what is left of the
old chain is untouched. `CounterIsExact` counts the calls of `MtState_free` that have
unlinked their object and not yet counted it out. The recursion of `newBuckets` and of
chains is a recursive function, and `NumberInduction` proves that it is defined.

`StateRegistryProofs` proves `TypeOK`, `CountsAreExact`, `ReferencesAreLive`,
`WorkIsOnLiveObjects`, `NothingLeaks`, `FoundIsOwned` and `SetupIsPrivate`, and
`SingletonIsUnique` where `newstate` is not among the `Modes`, for any number of
threads, objects, references and names. All have the hypothesis `SafeCollections`: the
collector does not take a reference to the found object while a find allocates, nor
the one that a call was made with. `WorkIsOnLiveObjects` has `FindsSucceed` too: memory
does not run short after an object was found; all others hold when it does. The three
can happen in the code, and the
observations above say what follows. None of the properties is inductive. `Counts` counts the references of objects that are not alive, too. Who
has found an object (`FinderAgrees`) has no reference to it yet; it stays alive because it has
an owner, whose reference cannot be collected without the global lock, which the
finder has until its own reference is counted. Who calls, closes or sets up an
object (`HolderAgrees`) has a reference of its own that nobody else can take
away. Native handles are counted without that lock, but they are no owners, and
who takes the last one is the only thread that knows of the object
(`FreerAgrees`). Before the setup has succeeded, the only reference is the creator's
(`SetupIsUnfinished`), so `Initialize` may write without being seen. A name is
unique because its creator has had the global lock since it found the name free
(`CreatorAgrees`). Each action has a lemma; `QuietStep`, `MakerApart` and
`GoneApart` say what the steps that only go on, make a reference or take one
away leave to the other threads.

`NoLostWakeup` of the registry has the further hypothesis that native code retains no
handles. A finder does not pass a notification on, so it must be the only one that
sleeps (`FinderIsAlone`): it begins to wait before the setup has ended, when the
creator has the only reference, and no other is made while the finder has the global
lock. A call of the creator enters at once, because whoever runs in a busy state
(`BusyHasRunner`) has a reference of its own. Most actions are `Calm`, those that
sleep, wake or run in a state have a lemma each.

Every invariant of a passing run is a theorem, some under the hypotheses named above. Only model-checked are the liveness
properties (`IdleIsTaken`, `TimedCallReturns`, `LoadReturns`), because the prover has
no rules for fairness. The four findings (`EntersOnlyOpen`, `SetupIsAwaited`, `LocksAreOrdered`,
`InterruptsRepeat`) are what the code does not keep.

## What is not modelled

* The texts of errors, the vendored compatibility layer and the carray library.
* In `Transfer`: the memory error of a caller to which results are pushed (1354).
  It leaves L by a long jump that L2 does not see, so L2 keeps the functions of
  the call: `StackIsRestored` fails with `caller` among the `Faults`. A setup
  function gets its arguments in the same way (744-780), `StateRegistry` has only
  whether that fails.
* In the registry: references that a state's own interpreter holds on other
  states are not followed (their collection happens in the finalizers, which the
  model reduces to the lock they need, and `Buckets` to what they do to the
  table); a thread in a setup function or a callback does nothing else with the
  registry; only setup functions load the module.
* In `Buckets`: negative ids and the wrap of the 32 bit counter.
* In `Writer`: truth values that are multiples of 256, which the code receives as
  false; `bufferStart` behind the start of the buffer, which no caller causes.
* In `ModuleInit`: memory errors while the global lock is held (`main.c` 124),
  which leave it locked.
* Finalizers that call states: `lua_close()` runs them with `L2` still set (832, 853,
  1102), so one that finds its own state could enter the interpreter that is
  being closed. `StateRegistry` and `Buckets` have only the locks they take and what
  they do to the table.
* Interrupts of a coroutine: 947 sets the hook of the main thread of an
  interpreter only, and a call made from a coroutine of its own state (1023)
  runs there. The texts of errors that a hook raises.
* Memory errors of a caller to which an error is raised again (1112, 1119).
* A clock that is set while a timed wait runs (`util.c` 12).

## Plan

Done: every module of the plan with its runs, and the proofs above, which state
every invariant and action property of the passing runs.

Runs are kept few, one for each question; what is known to fail and has no run
is among the observations above, with the way to see it.
