------------------------------- MODULE Transfer -------------------------------
(***************************************************************************)
(* What mtstates_state_call() does between entering and leaving a state    *)
(* (src/state.c): the arguments of the caller are copied to the stack of   *)
(* the state's interpreter L2, the callback runs, its results are copied   *)
(* to the stack of the caller's interpreter L.  Each step may fail, and    *)
(* the error has to find its way through the protected calls of both       *)
(* interpreters.                                                           *)
(*                                                                         *)
(* An interpreter is a sequence of frames, one for each C function that    *)
(* runs in it, with the values on the stack of that function.  A call is   *)
(* made from another interpreter ("lua"), by the state itself ("self":     *)
(* L is L2), or by native code ("native").                                 *)
(***************************************************************************)
EXTENDS Integers, SequencesExt

CONSTANTS
  Copied, Cloned, Unsupported, \* values of Lua, cloned ones are carrays
  Timeout, True,               \* two of the values
  MaxValues,                   \* bound on the numbers of arguments and results
  Faults                       \* whose memory may run short

ASSUME TransferAssumption ==
  /\ {Timeout, True} \subseteq Copied /\ MaxValues \in Nat
  /\ Unsupported \cap (Copied \cup Cloned) = {}
  /\ Faults \subseteq {"stack", "callee", "caller", "message"}

VARIABLES
  pc,
  way,     \* "lua", "self" or "native"
  timed,   \* tcall(), whose first argument is the timeout
  frames,  \* of L and L2
  next,    \* the index of the value that is copied next
  last,    \* the index of the last one
  error,   \* errorArg, isLError and the message of an error, as its kind
  errorMsg, \* where the copy of the message is: "none", "buffer" or "heap"
  blocks,  \* auxiliary: the copies that were allocated and not freed
  outcome, \* what the caller has got from its last call
  args, got, results
           \* auxiliary: the arguments of the call, those that the callback
           \* got, and its results

callVars == <<way, timed, args>>
msgVars == <<errorMsg, blocks>>
transferVars == <<pc, callVars, frames, next, last, error, msgVars, outcome, got, results>>

Values == Copied \cup Cloned \cup Unsupported
Lists == BoundedSeq(Values, MaxValues)
None == [kind |-> "none", index |-> 0]
Error(kind, index) == [kind |-> kind, index |-> index]

(* the interpreter of the callback *)
Callee == IF way = "self" THEN "L" ELSE "L2"

Frame(x) == Last(frames[x])
WithFrame(x, f) == [frames EXCEPT ![x] = Append(Front(@), f)]
OnTop(x, v) == WithFrame(x, Append(Frame(x), v))

(* the frames of L2 outside of the call, with a value on its stack *)
Resting == <<<<"kept">>>>

-----------------------------------------------------------------------------
(* The calls *)

(* errormsghandler and the callback come before the arguments in call3a,   *)
(* the callback alone in call4                                             *)
CalleeFrame(w) == IF w = "native" THEN <<"ud3a", "handler", "callback">>
                  ELSE <<"this", "callback">>

(* the frame of MtState_call3 in L: the reference is replaced by this *)
CallerFrame(isTimed, as) == (IF isTimed THEN <<"this", Timeout>> ELSE <<"this">>) \o as

FirstArgUntimed(isTimed) == 2
FirstArg(isTimed) == IF isTimed THEN 3 ELSE 2

Start(w, isTimed, as) ==
  /\ pc = "idle" /\ pc' = "enter"
  /\ w = "native" => ~isTimed /\ ToSet(as) \subseteq Copied \cup Cloned
  /\ way' = w /\ timed' = isTimed /\ args' = as
  /\ LET f == CallerFrame(isTimed, as)
         callee == CASE w = "lua" -> Resting \o <<<<"this", "handler">>, CalleeFrame(w)>>
                     [] w = "self" -> Resting
                     [] w = "native" -> Resting \o <<CalleeFrame(w)>>
     IN  frames' = [L |-> <<IF w = "self" THEN f \o <<"callback">> ELSE f>>, L2 |-> callee]
  /\ next' = FirstArg(isTimed) /\ last' = Len(CallerFrame(isTimed, as))
  /\ error' = None /\ errorMsg' = "none"
  /\ UNCHANGED <<blocks, outcome, got, results>>

(* the functions in the interpreter of the callback are called *)
Entered ==
  /\ pc = "enter" /\ pc' = "args"
  /\ UNCHANGED <<callVars, frames, next, last, error, msgVars, outcome, got, results>>

-----------------------------------------------------------------------------
(* ErrorMsg: a long message is copied to memory, if there is some *)

FreedInCall3 == IF errorMsg = "heap" /\ pc = "caught2" THEN 1 ELSE 0
Freed == IF errorMsg = "heap" THEN 1 ELSE 0

freeErrorMsg ==
  /\ errorMsg' = IF errorMsg = "heap" THEN "none" ELSE errorMsg
  /\ blocks' = blocks - Freed

setErrorMsg ==
  \/ errorMsg' = "buffer" /\ blocks' = blocks - Freed
  \/ errorMsg' = "heap" /\ blocks' = blocks - Freed + 1

-----------------------------------------------------------------------------
(* pushArg and pushArgs *)

(* an error in the interpreter x goes to the last protected call in x: to  *)
(* MtState_callCall3, to lua_cpcall() or to mtstates_state_call            *)
Raise(e, x) ==
  /\ error' = e
  /\ pc' = CASE x = "L" -> "caught"
             [] way = "native" -> "caught2"
             [] OTHER -> "caught4"
  /\ UNCHANGED <<callVars, frames, next, last, outcome, results>>

(* what the callback raises is wrapped by MtState_call3 *)
InvocationError == Error(IF way = "self" THEN "raw" ELSE "invoking", 0)

(* the value with the index next goes from the stack of one interpreter to *)
(* that of the other                                                       *)
PushArg(from, to) ==
  /\ next <= last
  /\ Frame(from)[next] \in Copied \cup Cloned
  /\ frames' = OnTop(to, Frame(from)[next])
  /\ next' = next + 1

(* a type that is not supported, or a carray that cannot be created *)
Refused(from) == next <= last /\ Frame(from)[next] \in Unsupported \cup Cloned

ArgsFrom == "L"

CopyArg ==
  /\ pc = "args"
  /\ PushArg(ArgsFrom, Callee)
  /\ UNCHANGED <<pc, callVars, last, error, msgVars, outcome, got, results>>

(* the carray of a message is created without a protected call of its own *)
RefuseArg ==
  /\ pc = "args"
  /\ Refused(ArgsFrom)
  /\ Raise(Error(IF way = "native" THEN "invoking" ELSE "argument", next), Callee)
  /\ IF way = "native" THEN UNCHANGED msgVars ELSE setErrorMsg
  /\ UNCHANGED got

(* pushClonedCarray is about to be called in the callback's interpreter,   *)
(* which is also that of the caller if a state calls itself                *)
Cloning ==
  /\ pc = "args" \/ (pc = "results" /\ way = "self")
  /\ next <= last /\ Frame("L")[next] \in Cloned

(* lua_checkstack() fails before the first argument *)
ArgsDoNotFit ==
  /\ pc = "args" /\ next = FirstArg(timed) /\ way # "native" /\ "stack" \in Faults
  /\ Raise(Error("memory", 0), Callee)
  /\ UNCHANGED <<msgVars, got>>

(* the callee is out of memory *)
CalleeFails ==
  /\ pc \in {"args", "return"} /\ "callee" \in Faults
  /\ pc = "return" => way # "native"
  /\ Raise(InvocationError, Callee)
  /\ UNCHANGED <<msgVars, got>>

-----------------------------------------------------------------------------
(* lua_call of the callback: its results replace it and its arguments *)

Func == IF way = "native" THEN 3
        ELSE IF way = "self" THEN Len(CallerFrame(timed, args)) + 1
        ELSE 2

Callback ==
  /\ pc = "args" /\ next > last
  /\ pc' = "callback"
  /\ got' = SubSeq(Frame(Callee), Func + 1, Len(Frame(Callee)))
  /\ UNCHANGED <<callVars, frames, next, last, error, msgVars, outcome, results>>

CallbackReturns(rs) ==
  /\ pc = "callback" /\ pc' = "return"
  /\ results' = rs
  /\ frames' = WithFrame(Callee, SubSeq(Frame(Callee), 1, Func - 1)
                                   \o (IF way = "native" THEN <<>> ELSE rs))
  /\ UNCHANGED <<callVars, next, last, error, msgVars, outcome, got>>

CallbackFails ==
  /\ pc = "callback"
  /\ Raise(InvocationError, Callee)
  /\ UNCHANGED <<msgVars, got>>

(* the results are found before true is pushed for tcall(), to the same    *)
(* stack if the state calls itself                                         *)
LastResult(f) == Len(f)

Results ==
  /\ pc = "return" /\ way # "native"
  /\ pc' = "results"
  /\ next' = Func /\ last' = LastResult(Frame(Callee))
  /\ frames' = IF timed THEN OnTop("L", True) ELSE frames
  /\ UNCHANGED <<callVars, error, msgVars, outcome, got, results>>

CopyResult ==
  /\ pc = "results"
  /\ PushArg(Callee, "L")
  /\ UNCHANGED <<pc, callVars, last, error, msgVars, outcome, got, results>>

BadResultFromZero(rc) == rc - Func
BadResult(rc) == rc - Func + 1
RefuseResult ==
  /\ pc = "results"
  /\ Refused(Callee)
  /\ Raise(Error("result", BadResult(next)), Callee)
  /\ UNCHANGED <<msgVars, got>>

ResultsDoNotFit ==
  /\ pc = "results" /\ next = Func /\ "stack" \in Faults
  /\ Raise(Error("memory", 0), Callee)
  /\ UNCHANGED <<msgVars, got>>

(* the caller is out of memory: its error passes by the calls of L2 *)
CallerFails ==
  /\ pc = "results" /\ (way = "lua" => "caller" \in Faults)
  /\ Raise(Error("raw", 0), "L")
  /\ UNCHANGED <<msgVars, got>>

-----------------------------------------------------------------------------
(* The way back *)

(* L2 without the functions that lua_cpcall() has called; l2start is the   *)
(* number of values before that                                            *)
Unwound == [frames EXCEPT !["L2"] = SubSeq(@, 1, 1)]
l2start == Len(Resting[1])

(* lua_settop(s->L2, n), for the function that L2 is in *)
SetTop(f, n) == [f EXCEPT !["L2"] = Append(Front(@), SubSeq(Last(@), 1, n))]
(* the functions of L that worked on this call *)
Left(f) == [f EXCEPT !["L"] = <<>>]

Answer(o) ==
  /\ pc' = "done" /\ outcome' = o
  /\ UNCHANGED <<callVars, next, last, error, got, results>>

(* lua_pcall() in MtState_callCall3, which goes on with the error in L2 *)
CaughtByCallCall3 ==
  /\ pc = "caught4" /\ pc' = "caught2"
  /\ frames' = [frames EXCEPT !["L2"] = Front(@)]
  /\ setErrorMsg
  /\ UNCHANGED <<callVars, next, last, error, outcome, got, results>>

(* lua_cpcall() leaves a message, MtState_call3 takes it away and goes on  *)
(* with the error in L                                                     *)
Caught2 ==
  /\ pc = "caught2" /\ way = "lua"
  /\ pc' = "caught"
  /\ frames' = Unwound
  /\ freeErrorMsg
  /\ UNCHANGED <<callVars, next, last, error, outcome, got, results>>

(* the caller has no memory for the message; errorArg stays set, so an     *)
(* error about an argument is raised as one, from the copy                 *)
MessageFails ==
  /\ pc = "caught2" /\ way = "lua" /\ "message" \in Faults
  /\ pc' = "caught"
  /\ error' = IF error.kind = "argument" THEN error ELSE Error("raw", error.index)
  /\ frames' = [Unwound EXCEPT !["L2"][1] = Append(@, "message")]
  /\ UNCHANGED <<callVars, next, last, msgVars, outcome, got, results>>

(* native code is given the message before that goes *)
NativeErrorKeepsMessage ==
  /\ pc = "caught2" /\ way = "native"
  /\ frames' = Left([Unwound EXCEPT !["L2"][1] = Append(@, "message")])
  /\ Answer(error)
  /\ UNCHANGED msgVars
NativeError ==
  /\ pc = "caught2" /\ way = "native"
  /\ frames' = Left(SetTop([Unwound EXCEPT !["L2"][1] = Append(@, "message")], l2start))
  /\ Answer(error)
  /\ UNCHANGED msgVars

(* lua_pcall() in mtstates_state_call *)
Caught ==
  /\ pc = "caught"
  /\ frames' = Left(IF way = "lua" THEN SetTop(frames, l2start) ELSE frames)
  /\ freeErrorMsg
  /\ Answer(error)

(* the functions return, MtState_call3 with the topmost values of L *)
Leaving ==
  \/ pc = "results" /\ next > last
  \/ pc = "return" /\ way = "native"
Returned ==
  /\ Leaving
  /\ frames' = Left(IF way = "self" THEN frames ELSE SetTop(Unwound, l2start))
  /\ LET nrslts == last - Func + 1 + (IF timed THEN 1 ELSE 0)
         f == Frame("L")
     IN  Answer([kind |-> "ok",
                 values |-> IF way = "native" THEN <<>>
                            ELSE SubSeq(f, Len(f) - nrslts + 1, Len(f))])
  /\ freeErrorMsg

(* lua_checkstack() for native code, before anything else *)
NativeDoesNotFit ==
  /\ pc = "idle" /\ "stack" \in Faults
  /\ Answer(Error("memory", 0))
  /\ UNCHANGED <<frames, msgVars>>

(* the caller goes on; errorMsg was on its C stack *)
Forget ==
  /\ pc = "done" /\ pc' = "idle"
  /\ way' = "lua" /\ timed' = FALSE /\ args' = <<>>
  /\ next' = 0 /\ last' = 0 /\ error' = None /\ errorMsg' = "none"
  /\ outcome' = None /\ got' = <<>> /\ results' = <<>>
  /\ UNCHANGED <<frames, blocks>>

-----------------------------------------------------------------------------

TransferInit ==
  /\ pc = "idle" /\ way = "lua" /\ timed = FALSE /\ args = <<>>
  /\ frames = [L |-> <<>>, L2 |-> Resting]
  /\ next = 0 /\ last = 0 /\ error = None /\ errorMsg = "none" /\ blocks = 0
  /\ outcome = None /\ got = <<>> /\ results = <<>>

PushArgStep == CopyArg \/ RefuseArg \/ CopyResult \/ RefuseResult

(* the steps at which Lua looks for a debug hook: functions are called,    *)
(* return or run, in the interpreter of the callback                       *)
LuaStep ==
  \/ Entered
  \/ Cloning /\ PushArgStep
  \/ \E rs \in Lists : CallbackReturns(rs)
  \/ CallbackFails \/ Returned

(* the C code between them; a carray of a message calls functions of Lua   *)
(* only if it is the first one (carray_require_capi)                       *)
CStep ==
  \/ \E w \in {"lua", "self", "native"}, isTimed \in BOOLEAN, as \in Lists :
       Start(w, isTimed, as)
  \/ (Cloning => way = "native") /\ PushArgStep
  \/ ArgsDoNotFit \/ CalleeFails \/ Callback
  \/ Results \/ ResultsDoNotFit \/ CallerFails
  \/ CaughtByCallCall3 \/ Caught2 \/ MessageFails \/ NativeError \/ Caught
  \/ NativeDoesNotFit \/ Forget

TransferNext == LuaStep \/ CStep

TransferSpec == TransferInit /\ [][TransferNext]_transferVars

-----------------------------------------------------------------------------

(* The variables have their types. *)
TransferTypeOK ==
  /\ pc \in {"idle", "enter", "args", "callback", "return", "results",
            "caught4", "caught2", "caught", "done"}
  /\ way \in {"lua", "self", "native"} /\ timed \in BOOLEAN
  /\ {args, got, results} \subseteq Seq(Values)
  /\ {next, last, blocks} \subseteq Nat /\ errorMsg \in {"none", "buffer", "heap"}
  /\ \A x \in {"L", "L2"}, f \in {1, 2, 3} :
       f \in DOMAIN frames[x] =>
         ToSet(frames[x][f]) \subseteq
           Values \cup {"kept", "this", "ud3a", "handler", "callback", "message"}

(* What goes in comes out: the callback runs with the arguments of the     *)
(* call, all of them and nothing else (the timeout is none of them, also   *)
(* where caller and callee have the same stack), and a call that succeeds  *)
(* gives back the results of its callback, after true for tcall().         *)
ValuesArrive ==
  /\ pc \in {"callback", "return", "results"} => got = args
  /\ outcome.kind = "ok" =>
       outcome.values = IF way = "native" THEN <<>>
                        ELSE (IF timed THEN <<True>> ELSE <<>>) \o results

(* The first value that cannot be copied fails a call, and it is the one   *)
(* that the error names: an argument by its place in the caller's frame,   *)
(* before the callback runs, a result by its number, after that.           *)
FirstRefused(values, i) ==
  /\ i \in DOMAIN values /\ values[i] \in Unsupported \cup Cloned
  /\ \A j \in 1 .. i - 1 : values[j] \notin Unsupported
ErrorsNameTheValue ==
  CASE outcome.kind = "argument" ->
         FirstRefused(args, outcome.index - (IF timed THEN 2 ELSE 1)) /\ got = <<>>
    [] outcome.kind = "result" -> FirstRefused(results, outcome.index) /\ got = args
    [] outcome.kind = "ok" ->
         Unsupported \cap (ToSet(args) \cup (IF way = "native" THEN {} ELSE ToSet(results))) = {}
    [] OTHER -> TRUE

(* Whatever fails, the interpreter of the state is left as it was found:   *)
(* no function of it is still called, nothing of the call is on its stack. *)
StackIsRestored == pc \in {"done", "idle"} => frames["L2"] = Resting

(* The copies of error messages, made by up to two functions in one        *)
(* interpreter and given up by two functions in the other, are all freed   *)
(* when the call is over, and none is freed twice.                         *)
MessagesAreFreed ==
  /\ blocks = IF errorMsg = "heap" THEN 1 ELSE 0
  /\ pc \in {"done", "idle"} => blocks = 0

=============================================================================
