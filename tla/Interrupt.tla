------------------------------ MODULE Interrupt ------------------------------
(***************************************************************************)
(* Interrupting a state (src/state.c 920-952) in the middle of a call      *)
(* (module Transfer).  MtState_interrupt sets a debug hook in the state's  *)
(* interpreter without any lock, from any thread.  Lua looks for the hook  *)
(* before each instruction and whenever a function is called or returns,   *)
(* and calls it; interruptHook1 resets the hook before it raises the       *)
(* error, interruptHook2 leaves it.  The error goes to the protected call  *)
(* around the function that was interrupted: one of the callback's own,    *)
(* that of pushArg around pushClonedCarray, or one of those around the     *)
(* callback.  The hooks do not run while a hook runs.                      *)
(***************************************************************************)
EXTENDS Transfer

CONSTANTS
  MaxProtected  \* bound on the protected calls that a callback is in

VARIABLES
  hook,      \* "none", "once" (interruptHook1) or "always" (interruptHook2)
  fired,     \* the hook that Lua has found and calls, as long as it runs
  protected, \* the protected calls around the code of the callback
  asked,     \* auxiliary: the last request of interrupt()
  late,      \* auxiliary: the hook that was running when it came
  raised     \* auxiliary: the errors raised since then

hookVars == <<hook, fired, protected, asked, late, raised>>

(* interrupt(), interrupt(true) or interrupt(false) *)
MtState_interrupt(flag) ==
  /\ hook' = flag
  /\ asked' = flag /\ late' = fired /\ raised' = 0
  /\ UNCHANGED <<fired, protected, transferVars>>

(* errormsghandler1 is called for the error of a call, before a protected  *)
(* call catches that                                                       *)
InHandler ==
  \/ pc = "caught4"
  \/ pc = "caught2" /\ way = "native"
  \/ pc = "caught" /\ way = "self"

HookFires ==
  /\ pc \in {"enter", "callback"} \/ Leaving \/ Cloning \/ InHandler
  /\ hook # "none" /\ fired = "none"
  /\ fired' = hook
  /\ UNCHANGED <<hook, protected, asked, late, raised, transferVars>>

(* at the call of MtState_callCall3 or its return, outside of its          *)
(* lua_pcall(): lua_cpcall() catches the error, its message is not copied  *)
OutsideCallCall3 ==
  /\ way = "lua" /\ (pc = "enter" \/ Leaving)
  /\ pc' = "caught2" /\ error' = InvocationError
  /\ frames' = [frames EXCEPT !["L2"] = Front(@)]
  /\ UNCHANGED <<callVars, next, last, msgVars, outcome, got, results>>

(* the call fails: pushArg makes an error about a value of one in          *)
(* pushClonedCarray, one in errormsghandler1 changes only the message of   *)
(* an error                                                                *)
CallIsInterrupted ==
  \/ Cloning /\ (RefuseArg \/ RefuseResult)
  \/ InHandler /\ UNCHANGED transferVars
  \/ /\ ~Cloning /\ ~InHandler
     /\ Raise(InvocationError, Callee)
     /\ UNCHANGED <<msgVars, got>>
  \/ OutsideCallCall3

RaiseInterrupted ==
  /\ fired' = "none"
  /\ raised' = IF asked = "always" THEN 1 ELSE IF raised = 2 THEN 2 ELSE raised + 1
  /\ IF protected > 0
     THEN protected' = protected - 1 /\ UNCHANGED transferVars
     ELSE CallIsInterrupted /\ UNCHANGED protected
  /\ UNCHANGED <<asked, late>>

interruptHook1 ==
  /\ fired = "once"
  /\ hook' = "none"
  /\ RaiseInterrupted

interruptHook2Once ==
  /\ fired = "always"
  /\ hook' = "none"
  /\ RaiseInterrupted
interruptHook2 ==
  /\ fired = "always"
  /\ RaiseInterrupted
  /\ UNCHANGED hook

(* the callback calls pcall(), or that returns *)
Protect ==
  /\ pc = "callback" /\ hook = "none" /\ fired = "none"
  /\ \/ protected < MaxProtected /\ protected' = protected + 1
     \/ protected > 0 /\ protected' = protected - 1
  /\ UNCHANGED <<hook, fired, asked, late, raised, transferVars>>

InterruptInit ==
  /\ TransferInit
  /\ hook = "none" /\ fired = "none" /\ protected = 0
  /\ asked = "none" /\ late = "none" /\ raised = 0

InterruptNext ==
  \/ \E flag \in {"none", "once", "always"} : MtState_interrupt(flag)
  \/ HookFires \/ interruptHook1 \/ interruptHook2 \/ Protect
  \/ /\ hook = "none" /\ fired = "none" /\ protected = 0
     /\ LuaStep /\ UNCHANGED hookVars
  \/ fired = "none" /\ CStep /\ UNCHANGED hookVars

InterruptSpec == InterruptInit /\ [][InterruptNext]_<<transferVars, hookVars>>

-----------------------------------------------------------------------------

(* Whenever the requests of other threads come, also while a hook runs:    *)
(* the hook stays as it was asked for, interrupt() until it has interrupted *)
(* the state, interrupt(true) for ever, unless it came while a hook of     *)
(* interrupt() was running (see InterruptsRepeat).  interrupt() interrupts *)
(* once, and neither it nor interrupt(false) is followed by more than the  *)
(* one error that was on its way.                                          *)
InterruptsAsAsked ==
  /\ fired = "none" /\ hook # asked =>
       \/ asked = "once" /\ raised = (IF late = "always" THEN 2 ELSE 1)
       \/ asked = "always" /\ late = "once" /\ raised = 1
  /\ asked = "once" => raised <= (IF late = "always" THEN 2 ELSE 1)
  /\ asked = "none" => raised <= (IF late # "none" THEN 1 ELSE 0)

(* README, state:interrupt(): if flag is true the state is interrupted at  *)
(* every operation again.  It is not if the request comes between the      *)
(* moment Lua finds the hook of an earlier interrupt() and the reset in    *)
(* that hook, which takes the new hook away.                               *)
InterruptsRepeat == asked = "always" /\ fired = "none" => hook = "always"

=============================================================================
