---------------------------- MODULE TransferProofs ----------------------------
(***************************************************************************)
(* Proofs about Transfer under the interrupts of Interrupt, for any values *)
(* and numbers of them.  Interrupts come as often as they were asked for   *)
(* (HookInv).  For all faults but those of the caller's own memory, whose  *)
(* errors pass by the calls of L2: the interpreter of the state is left as *)
(* it was found, and messages are freed (IInv).  For all faults: arguments *)
(* and results arrive, and errors name the right value (DataInv).          *)
(***************************************************************************)
EXTENDS Interrupt, SequenceTheorems, TLAPS

-----------------------------------------------------------------------------
(* Interrupts: they come as often as they were asked for, wherever the     *)
(* call stands that they meet, with whatever values and faults.            *)

Hooks == {"none", "once", "always"}

HookTypes ==
  /\ hook \in Hooks /\ fired \in Hooks /\ asked \in Hooks
  /\ late \in Hooks /\ raised \in 0 .. 2

(* The hook that was running when the last request came has not raised its *)
(* error yet.                                                              *)
OnItsWay == late # "none" /\ raised = 0

(* A hook that runs was set by the last request, but for the one that was  *)
(* on its way when that came; and it is not forgotten.                     *)
FiredWasAsked ==
  /\ OnItsWay => fired = late
  /\ fired # "none" /\ ~OnItsWay => fired = hook

(* The errors after a request of interrupt(), with that of a hook of       *)
(* interrupt(true) that was on its way.                                    *)
AllOfOnce == IF late = "always" THEN 2 ELSE 1

(* The request is in force until an error was raised, interrupt() until    *)
(* its own was, interrupt(true) for ever if no hook of interrupt() was on  *)
(* its way.                                                                *)
HookWasAsked ==
  /\ hook \in {"none", asked}
  /\ raised = 0 => hook = asked
  /\ asked = "once" => IF hook = "once" THEN raised < AllOfOnce ELSE raised = AllOfOnce
  /\ asked = "always" /\ hook # "always" => late = "once" /\ raised = 1

(* What errors there may be after the last request. *)
RaisedAsAsked ==
  /\ asked = "none" => raised <= IF late # "none" THEN 1 ELSE 0
  /\ asked = "always" => raised <= 1

HookInv == HookTypes /\ FiredWasAsked /\ HookWasAsked /\ RaisedAsAsked

-----------------------------------------------------------------------------

LEMMA InitHookInv == InterruptInit => HookInv
<1> SUFFICES ASSUME InterruptInit PROVE HookInv
  OBVIOUS
<1>1. hook = "none" /\ fired = "none" /\ asked = "none" /\ late = "none" /\ raised = 0
  BY Zenon DEF InterruptInit
<1> QED
  BY <1>1 DEF HookInv, HookTypes, Hooks, OnItsWay, FiredWasAsked, HookWasAsked,
                    RaisedAsAsked, AllOfOnce

(* A request finds a hook running or not, and starts to count anew. *)
LEMMA RequestStep ==
  ASSUME HookInv, NEW flag \in Hooks, MtState_interrupt(flag)
  PROVE  HookInv'
<1>1. hook' = flag /\ asked' = flag /\ late' = fired /\ raised' = 0 /\ fired' = fired
  BY Zenon DEF MtState_interrupt
<1> QED
  BY <1>1 DEF HookInv, HookTypes, Hooks, OnItsWay, FiredWasAsked, HookWasAsked,
                    RaisedAsAsked, AllOfOnce

LEMMA FiresStep == ASSUME HookInv, HookFires PROVE HookInv'
BY DEF HookFires, HookInv, HookTypes, Hooks, OnItsWay, FiredWasAsked, HookWasAsked, RaisedAsAsked, AllOfOnce

(* What an error does to the variables of this module, whoever catches it. *)
LEMMA RaisedOnce ==
  ASSUME RaiseInterrupted
  PROVE  /\ fired' = "none" /\ UNCHANGED <<asked, late>>
         /\ raised' = IF asked = "always" THEN 1 ELSE IF raised = 2 THEN 2 ELSE raised + 1
BY DEF RaiseInterrupted

(* interruptHook1 resets the hook: its own, or, if it was on its way, the  *)
(* one that was asked for since then.                                      *)
LEMMA OnceStep == ASSUME HookInv, interruptHook1 PROVE HookInv'
<1> USE DEF HookInv, HookTypes, Hooks
<1>1. fired = "once" /\ hook' = "none" /\ RaiseInterrupted
  BY DEF interruptHook1
<1>2. /\ fired' = "none" /\ UNCHANGED <<asked, late>>
      /\ raised' = IF asked = "always" THEN 1 ELSE IF raised = 2 THEN 2 ELSE raised + 1
  BY <1>1, RaisedOnce
<1>3. HookTypes' /\ raised' > 0
  BY <1>1, <1>2
<1>4. FiredWasAsked' /\ HookWasAsked'
  BY <1>1, <1>2, <1>3 DEF FiredWasAsked, HookWasAsked, OnItsWay, AllOfOnce
<1>5. RaisedAsAsked'
  <2>1. CASE OnItsWay
    BY <1>1, <1>2, <2>1 DEF OnItsWay, RaisedAsAsked
  <2>2. CASE ~OnItsWay
    <3>1. hook = "once" /\ asked = "once"
      BY <1>1, <2>2 DEF FiredWasAsked, HookWasAsked
    <3> QED
      BY <1>2, <3>1 DEF HookWasAsked, RaisedAsAsked, AllOfOnce
  <2> QED
    BY <2>1, <2>2
<1> QED
  BY <1>3, <1>4, <1>5

LEMMA AlwaysStep == ASSUME HookInv, interruptHook2 PROVE HookInv'
<1> USE DEF HookInv, HookTypes, Hooks
<1>1. fired = "always" /\ hook' = hook /\ RaiseInterrupted
  BY DEF interruptHook2
<1>2. /\ fired' = "none" /\ UNCHANGED <<asked, late>>
      /\ raised' = IF asked = "always" THEN 1 ELSE IF raised = 2 THEN 2 ELSE raised + 1
  BY <1>1, RaisedOnce
<1>3. HookTypes' /\ raised' > 0
  BY <1>1, <1>2
<1>4. OnItsWay \/ asked = "always"
  BY <1>1 DEF FiredWasAsked, HookWasAsked
<1>5. FiredWasAsked' /\ HookWasAsked' /\ RaisedAsAsked'
  <2>1. CASE OnItsWay
    BY <1>1, <1>2, <1>3, <2>1 DEF OnItsWay, FiredWasAsked, HookWasAsked, RaisedAsAsked, AllOfOnce
  <2>2. CASE asked = "always"
    BY <1>1, <1>2, <1>3, <2>2 DEF OnItsWay, FiredWasAsked, HookWasAsked, RaisedAsAsked, AllOfOnce
  <2> QED
    BY <1>4, <2>1, <2>2
<1> QED
  BY <1>3, <1>5

LEMMA NextHookInv == ASSUME HookInv, [InterruptNext]_<<transferVars, hookVars>> PROVE HookInv'
<1> USE DEF HookInv
<1>1. CASE \E flag \in Hooks : MtState_interrupt(flag)
  BY <1>1, RequestStep
<1>2. CASE HookFires
  BY <1>2, FiresStep
<1>3. CASE interruptHook1
  BY <1>3, OnceStep
<1>4. CASE interruptHook2
  BY <1>4, AlwaysStep
<1>5. CASE UNCHANGED <<hook, fired, asked, late, raised>>
  BY <1>5 DEF HookTypes, OnItsWay, FiredWasAsked, HookWasAsked, RaisedAsAsked, AllOfOnce
<1>6. Protect \/ UNCHANGED hookVars \/ UNCHANGED <<transferVars, hookVars>>
      => UNCHANGED <<hook, fired, asked, late, raised>>
  BY DEF Protect, hookVars
<1> QED
  BY <1>1, <1>2, <1>3, <1>4, <1>5, <1>6 DEF InterruptNext, Hooks

LEMMA HookInvImplies == HookInv => InterruptsAsAsked
<1> SUFFICES ASSUME HookInv PROVE InterruptsAsAsked
  OBVIOUS
<1>1. /\ asked = "once" => IF hook = "once" THEN raised < AllOfOnce ELSE raised = AllOfOnce
      /\ asked = "always" /\ hook # "always" => late = "once" /\ raised = 1
      /\ hook \in {"none", asked}
  BY DEF HookInv, HookWasAsked
<1>2. asked = "none" => raised <= IF late # "none" THEN 1 ELSE 0
  BY DEF HookInv, RaisedAsAsked
<1>3. asked \in Hooks /\ raised \in 0 .. 2
  BY DEF HookInv, HookTypes
<1> QED
  BY <1>1, <1>2, <1>3 DEF InterruptsAsAsked, AllOfOnce, Hooks

(* A request stays set until it is carried out: interrupt() interrupts     *)
(* once and is reset by that, interrupt(true) is never reset, unless it    *)
(* came while a hook of interrupt() was running, and then after that one   *)
(* error.  No request interrupts the state more often than it should.      *)
THEOREM Interrupted == InterruptSpec => []InterruptsAsAsked
<1>1. InterruptSpec => []HookInv
  BY InitHookInv, NextHookInv, PTL DEF InterruptSpec
<1> QED
  BY <1>1, HookInvImplies, PTL

-----------------------------------------------------------------------------
(* What the call leaves behind *)

L2 == frames["L2"]
Kept == <<"kept">>
WithMessage == <<"kept", "message">>

(* L2 is a sequence of n frames on top of what was there before. *)
Deep(n) == (\E S : L2 \in Seq(S)) /\ Len(L2) = n /\ L2[1] = Kept

InCallback == {"enter", "args", "callback", "return"}
Running == InCallback \cup {"results"}

WaysAgree ==
  /\ way \in {"lua", "self", "native"}
  /\ pc \in Running \cup {"idle", "caught4", "caught2", "caught", "done"}
  /\ pc \in {"results", "caught"} => way # "native"
  /\ pc = "caught2" => way # "self"
  /\ pc = "caught4" => way = "lua"
  /\ fired # "none" => pc \in Running \/ InHandler

(* How many functions L2 is in. *)
DepthAgrees ==
  /\ "L2" \in DOMAIN frames
  /\ pc \in {"idle", "done"} \/ way = "self" => L2 = Resting
  /\ way = "native" /\ pc \in InCallback \cup {"caught2"} => Deep(2)
  /\ way = "lua" =>
       /\ pc \in Running \cup {"caught4"} => Deep(3)
       /\ pc = "caught2" => Deep(2)
       /\ pc = "caught" => L2 \in {<<Kept>>, <<WithMessage>>}

(* A message is in memory as long as errorMsg points to it; native code    *)
(* has none.                                                               *)
MessageIsOwned ==
  /\ blocks = IF errorMsg = "heap" THEN 1 ELSE 0
  /\ pc \in {"idle", "done"} => blocks = 0
  /\ way = "native" => blocks = 0

IInv == WaysAgree /\ DepthAgrees /\ MessageIsOwned

NoCallerFaults == "caller" \notin Faults

-----------------------------------------------------------------------------
(* Frames *)

LEMMA Stacked ==
  ASSUME NEW S, NEW s \in Seq(S), NEW t \in Seq(S), Len(s) = 1
  PROVE  s \o t \in Seq(S) /\ Len(s \o t) = 1 + Len(t) /\ (s \o t)[1] = s[1]
BY ConcatProperties

LEMMA NewTop ==
  ASSUME NEW S, NEW s \in Seq(S), Len(s) >= 2, NEW f
  PROVE  LET r == Append(Front(s), f)
         IN  r \in Seq(S \cup {f}) /\ Len(r) = Len(s) /\ r[1] = s[1]
<1>1. Front(s) \in Seq(S \cup {f}) /\ Len(Front(s)) = Len(s) - 1 /\ Front(s)[1] = s[1]
  BY DEF Front
<1> QED
  BY <1>1

LEMMA Popped ==
  ASSUME NEW S, NEW s \in Seq(S), Len(s) >= 2
  PROVE  Front(s) \in Seq(S) /\ Len(Front(s)) = Len(s) - 1 /\ Front(s)[1] = s[1]
BY DEF Front

LEMMA Bottom ==
  ASSUME NEW S, NEW s \in Seq(S), Len(s) >= 1
  PROVE  SubSeq(s, 1, 1) = <<s[1]>>
<1>1. \A i \in 1 .. 1 : s[i] \in S
  OBVIOUS
<1>2. /\ SubSeq(s, 1, 1) \in Seq(S) /\ Len(SubSeq(s, 1, 1)) = 1
      /\ SubSeq(s, 1, 1)[1] = s[1]
  BY <1>1, SubSeqProperties
<1>3. s[1] \in S
  BY <1>1
<1>4. <<s[1]>> \in Seq(S) /\ Len(<<s[1]>>) = 1 /\ <<s[1]>>[1] = s[1]
  BY <1>3
<1>5. \A i \in 1 .. 1 : SubSeq(s, 1, 1)[i] = <<s[1]>>[i]
  BY <1>2, <1>4
<1> QED
  BY <1>2, <1>4, <1>5, SeqEqual

LEMMA AppendedToOne ==
  ASSUME NEW S, NEW s \in Seq(S), Len(s) = 1, NEW e \in S
  PROVE  /\ Append(s, e) \in Seq(S) /\ Len(Append(s, e)) = 2
         /\ Append(s, e)[1] = s[1] /\ Append(s, e)[2] = e
<1>1. Append(s, e) \in Seq(S)
  OBVIOUS
<1>2. Len(Append(s, e)) = 2
  OBVIOUS
<1>3. Append(s, e)[1] = s[1]
  OBVIOUS
<1>4. Append(s, e)[2] = e
  BY AppendIsConcat, ConcatProperties
<1> QED
  BY <1>1, <1>2, <1>3, <1>4

Words == {"kept", "message"}

LEMMA Messages == Kept \in Seq(Words) /\ Len(Kept) = 1
  /\ WithMessage \in Seq(Words) /\ Kept[1] = WithMessage[1]
  /\ Append(Kept, "message") = WithMessage
<1>1. /\ Kept \in Seq(Words) /\ Len(Kept) = 1 /\ Kept[1] = "kept"
      /\ WithMessage \in Seq(Words) /\ Len(WithMessage) = 2
      /\ WithMessage[1] = "kept" /\ WithMessage[2] = "message"
  BY DEF Kept, WithMessage, Words
<1> DEFINE r == Append(Kept, "message")
<1>2. r \in Seq(Words) /\ Len(r) = 2 /\ r[1] = "kept" /\ r[2] = "message"
  <2>1. "message" \in Words
    BY DEF Words
  <2> QED
    BY <1>1, <2>1, AppendedToOne
<1>3. \A i \in 1 .. 2 : r[i] = WithMessage[i]
  BY <1>1, <1>2
<1>4. r = WithMessage
  <2> HIDE DEF r
  <2> QED
    BY <1>1, <1>2, <1>3, SeqEqual
<1> QED
  BY <1>1, <1>4

LEMMA Restored ==
  /\ Resting = <<Kept>> /\ l2start = 1
  /\ SubSeq(Kept, 1, 1) = Kept /\ SubSeq(WithMessage, 1, 1) = Kept
<1>1. Resting = <<Kept>> /\ Kept = <<"kept">> /\ WithMessage[1] = "kept"
  BY DEF Resting, Kept, WithMessage
<1>2. l2start = 1
  BY <1>1 DEF l2start
<1>3. SubSeq(Kept, 1, 1) = <<Kept[1]>> /\ SubSeq(WithMessage, 1, 1) = <<WithMessage[1]>>
  <2>1. Len(WithMessage) >= 1
    BY DEF WithMessage
  <2> QED
    BY <2>1, Messages, Bottom
<1> QED
  BY <1>1, <1>2, <1>3

LEMMA OneFrame ==
  ASSUME NEW f
  PROVE  Last(<<f>>) = f /\ \A g : Append(Front(<<f>>), g) = <<g>>
<1>1. <<f>> \in Seq({f}) /\ Len(<<f>>) = 1 /\ <<f>>[1] = f
  OBVIOUS
<1>2. Front(<<f>>) = <<>>
  BY <1>1, SubSeqEmpty DEF Front
<1>3. \A g : Append(<<>>, g) = <<g>>
  OBVIOUS
<1> QED
  BY <1>1, <1>2, <1>3 DEF Last

(* A value that is put on top of L or of L2, or a frame that is cut, does  *)
(* not change how deep L2 is in.                                           *)
LEMMA TopChanges ==
  ASSUME IInv, NEW f, NEW x \in {"L", Callee}, frames' = WithFrame(x, f),
         pc \in Running, pc' \in Running, UNCHANGED way
  PROVE  DepthAgrees'
<1> USE DEF IInv
<1>1. "L2" \in DOMAIN frames' /\ (x = "L" => L2' = L2)
      /\ (x = "L2" => L2' = Append(Front(L2), f))
  BY DEF WithFrame, DepthAgrees, L2
<1>2. CASE x = "L"
  BY <1>1, <1>2 DEF DepthAgrees, Deep, InCallback, Running, WaysAgree
<1>3. CASE x = "L2" /\ way # "self"
  <2>1. ASSUME NEW n \in {2, 3}, Deep(n) PROVE Deep(n)'
    <3>1. PICK S : L2 \in Seq(S)
      BY <2>1 DEF Deep
    <3>2. L2' \in Seq(S \cup {f}) /\ Len(L2') = Len(L2) /\ L2'[1] = L2[1]
      <4>1. Len(L2) >= 2 /\ L2' = Append(Front(L2), f)
        BY <1>1, <1>3, <2>1 DEF Deep
      <4> QED
        BY <3>1, <4>1, NewTop
    <3> QED
      BY <2>1, <3>2 DEF Deep
  <2> QED
    BY <1>1, <1>3, <2>1 DEF DepthAgrees, InCallback, Running, WaysAgree
<1> QED
  BY <1>2, <1>3 DEF Callee

(* An error goes to the function of L or L2 that is waiting for it.        *)
LEMMA RaiseStep ==
  ASSUME IInv, NEW e, Raise(e, Callee), pc \in Running, fired' = "none",
         UNCHANGED msgVars \/ (way # "native" /\ setErrorMsg)
  PROVE  IInv'
<1> USE DEF IInv
<1>1. /\ UNCHANGED <<way, frames>>
      /\ pc' = IF way = "self" THEN "caught" ELSE IF way = "native" THEN "caught2" ELSE "caught4"
  BY DEF Raise, Callee, callVars, WaysAgree
<1>2. WaysAgree'
  BY <1>1 DEF WaysAgree, Running, InCallback
<1>3. DepthAgrees'
  BY <1>1 DEF DepthAgrees, WaysAgree, Running, InCallback, Deep, L2
<1>4. MessageIsOwned'
  BY <1>1 DEF MessageIsOwned, msgVars, setErrorMsg, Freed
<1> QED
  BY <1>2, <1>3, <1>4

LEMMA StartStep ==
  ASSUME IInv, NEW w \in {"lua", "self", "native"}, NEW isTimed, NEW as,
         Start(w, isTimed, as), fired' = "none"
  PROVE  IInv'
<1> USE DEF IInv
<1>1. /\ pc = "idle" /\ pc' = "enter" /\ way' = w
      /\ errorMsg' = "none" /\ blocks' = blocks
      /\ "L2" \in DOMAIN frames'
      /\ L2' = CASE w = "lua" -> Resting \o <<<<"this", "handler">>, CalleeFrame(w)>>
                 [] w = "self" -> Resting
                 [] w = "native" -> Resting \o <<CalleeFrame(w)>>
  BY DEF Start, L2
<1>2. w = "lua" => Deep(3)'
  <2> DEFINE S == {Kept, <<"this", "handler">>, CalleeFrame(w)}
             t == <<<<"this", "handler">>, CalleeFrame(w)>>
  <2>1. /\ Resting \in Seq(S) /\ Len(Resting) = 1 /\ Resting[1] = Kept
        /\ t \in Seq(S) /\ Len(t) = 2
    BY Restored
  <2> HIDE DEF t, S
  <2>2. Resting \o t \in Seq(S) /\ Len(Resting \o t) = 3 /\ (Resting \o t)[1] = Kept
    <3>1. Resting \o t \in Seq(S) /\ Len(Resting \o t) = 1 + Len(t)
          /\ (Resting \o t)[1] = Resting[1]
      BY <2>1, Stacked
    <3> QED
      BY <2>1, <3>1
  <2>3. w = "lua" => L2' = Resting \o t
    BY <1>1 DEF t
  <2> QED
    BY <2>2, <2>3 DEF Deep
<1>3. w = "native" => Deep(2)'
  <2> DEFINE S == {Kept, CalleeFrame(w)}
             t == <<CalleeFrame(w)>>
  <2>1. /\ Resting \in Seq(S) /\ Len(Resting) = 1 /\ Resting[1] = Kept
        /\ t \in Seq(S) /\ Len(t) = 1
    BY Restored
  <2> HIDE DEF t, S
  <2>2. Resting \o t \in Seq(S) /\ Len(Resting \o t) = 2 /\ (Resting \o t)[1] = Kept
    BY <2>1, Stacked
  <2>3. w = "native" => L2' = Resting \o t
    BY <1>1 DEF t
  <2> QED
    BY <2>2, <2>3 DEF Deep
<1>4. WaysAgree'
  BY <1>1 DEF WaysAgree, Running, InCallback
<1>5. DepthAgrees'
  BY <1>1, <1>2, <1>3 DEF DepthAgrees, Running, InCallback
<1>6. MessageIsOwned'
  BY <1>1 DEF MessageIsOwned
<1> QED
  BY <1>4, <1>5, <1>6

(* The steps on which the values of a call go from stack to stack. *)
LEMMA RunSteps ==
  ASSUME IInv, fired' = "none",
         \/ Entered \/ CopyArg \/ Callback \/ (\E rs \in Lists : CallbackReturns(rs))
         \/ Results \/ CopyResult
  PROVE  IInv'
<1> USE DEF IInv
<1>1. /\ pc \in Running /\ pc' \in Running /\ UNCHANGED <<way, errorMsg, blocks>>
      /\ pc' = "results" => way # "native"
  BY DEF Entered, CopyArg, Callback, CallbackReturns, Results, CopyResult, Running, InCallback,
         callVars, msgVars, WaysAgree
<1>2. UNCHANGED frames \/ \E x \in {"L", Callee} : \E f : frames' = WithFrame(x, f)
  <2>1. CASE Entered \/ Callback
    BY <2>1 DEF Entered, Callback
  <2>2. CASE CopyArg \/ CopyResult
    BY <2>2 DEF CopyArg, CopyResult, PushArg, OnTop
  <2>3. CASE \E rs \in Lists : CallbackReturns(rs)
    BY <2>3 DEF CallbackReturns
  <2>4. CASE Results
    BY <2>4 DEF Results, OnTop
  <2> QED
    BY <2>1, <2>2, <2>3, <2>4
<1>3. WaysAgree'
  BY <1>1 DEF WaysAgree, Running, InCallback
<1>4. DepthAgrees'
  <2>1. CASE UNCHANGED frames
    BY <1>1, <2>1 DEF DepthAgrees, WaysAgree, Running, InCallback, Deep, L2
  <2>2. CASE \E x \in {"L", Callee} : \E f : frames' = WithFrame(x, f)
    BY <1>1, <2>2, TopChanges
  <2> QED
    BY <1>2, <2>1, <2>2
<1>5. MessageIsOwned'
  BY <1>1 DEF MessageIsOwned, Running, InCallback
<1> QED
  BY <1>3, <1>4, <1>5

LEMMA RaiseSteps ==
  ASSUME IInv, NoCallerFaults, fired' = "none",
         \/ RefuseArg \/ ArgsDoNotFit \/ CalleeFails \/ CallbackFails
         \/ RefuseResult \/ ResultsDoNotFit \/ CallerFails
  PROVE  IInv'
<1>1. pc \in Running /\ (UNCHANGED msgVars \/ (way # "native" /\ setErrorMsg))
  BY DEF RefuseArg, ArgsDoNotFit, CalleeFails, CallbackFails, RefuseResult, ResultsDoNotFit,
         CallerFails, Running, InCallback
<1>2. CallerFails => Callee = "L"
  BY DEF CallerFails, NoCallerFaults, Callee, IInv, WaysAgree
<1>3. \E e : Raise(e, Callee)
  BY <1>2 DEF RefuseArg, ArgsDoNotFit, CalleeFails, CallbackFails, RefuseResult, ResultsDoNotFit,
              CallerFails
<1> QED
  BY <1>1, <1>3, RaiseStep

-----------------------------------------------------------------------------
(* The way back *)

(* What Unwound and SetTop leave of L2. *)
LEMMA Unwinds ==
  ASSUME "L2" \in DOMAIN frames, NEW n \in {2, 3}, Deep(n)
  PROVE  Unwound["L2"] = <<Kept>> /\ "L2" \in DOMAIN Unwound
<1>1. PICK S : L2 \in Seq(S)
  BY DEF Deep
<1>2. SubSeq(L2, 1, 1) = <<Kept>>
  BY <1>1, Bottom DEF Deep
<1> QED
  BY <1>2 DEF Unwound, L2

LEMMA SetsTop ==
  ASSUME NEW f, "L2" \in DOMAIN f, f["L2"] \in {<<Kept>>, <<WithMessage>>}
  PROVE  Left(SetTop(f, l2start))["L2"] = Resting /\ "L2" \in DOMAIN Left(SetTop(f, l2start))
<1>1. Append(Front(f["L2"]), SubSeq(Last(f["L2"]), 1, l2start)) = Resting
  BY OneFrame, Restored
<1> QED
  BY <1>1 DEF SetTop, Left

LEMMA MessageOnTop ==
  ASSUME NEW f, "L2" \in DOMAIN f, f["L2"] = <<Kept>>
  PROVE  LET g == [f EXCEPT !["L2"][1] = Append(@, "message")]
         IN  "L2" \in DOMAIN g /\ g["L2"] = <<WithMessage>>
<1> DEFINE T == {Kept, WithMessage}
           r == [<<Kept>> EXCEPT ![1] = WithMessage]
<1>1. <<Kept>> \in Seq(T) /\ Len(<<Kept>>) = 1 /\ WithMessage \in T
  OBVIOUS
<1>2. r \in Seq(T) /\ Len(r) = 1 /\ r[1] = WithMessage
  BY <1>1, ExceptSeq
<1>3. <<WithMessage>> \in Seq(T) /\ Len(<<WithMessage>>) = 1
      /\ <<WithMessage>>[1] = WithMessage
  OBVIOUS
<1>4. \A i \in 1 .. 1 : r[i] = <<WithMessage>>[i]
  BY <1>2, <1>3
<1>5. r = <<WithMessage>>
  <2> HIDE DEF r
  <2> QED
    BY <1>2, <1>3, <1>4, SeqEqual
<1>6. <<Kept>>[1] = Kept
  OBVIOUS
<1>7. [<<Kept>> EXCEPT ![1] = Append(@, "message")] = <<WithMessage>>
  BY <1>5, <1>6, Messages
<1> QED
  BY <1>7

(* The call is over for L2. *)
LEMMA OverStep ==
  ASSUME IInv, fired' = "none", pc' = "done", way' = way,
         "L2" \in DOMAIN frames', L2' = Resting,
         freeErrorMsg \/ (UNCHANGED msgVars /\ blocks = 0)
  PROVE  IInv'
<1> USE DEF IInv
<1>1. WaysAgree'
  BY DEF WaysAgree
<1>2. DepthAgrees'
  BY DEF DepthAgrees, Running, InCallback
<1>3. MessageIsOwned'
  BY DEF MessageIsOwned, freeErrorMsg, Freed, msgVars
<1> QED
  BY <1>1, <1>2, <1>3

LEMMA CaughtByCallCall3Step == ASSUME IInv, fired' = "none", CaughtByCallCall3 PROVE IInv'
<1> USE DEF IInv
<1>1. /\ pc = "caught4" /\ pc' = "caught2" /\ way = "lua" /\ way' = way
      /\ "L2" \in DOMAIN frames' /\ L2' = Front(L2)
  BY DEF CaughtByCallCall3, callVars, WaysAgree, DepthAgrees, L2
<1>2. PICK S : L2 \in Seq(S)
  BY <1>1 DEF DepthAgrees, Deep
<1>3. Len(L2) = 3 /\ L2[1] = Kept
  BY <1>1 DEF DepthAgrees, Deep
<1>4. L2' \in Seq(S) /\ Len(L2') = 2 /\ L2'[1] = Kept
  <2>1. Front(L2) \in Seq(S) /\ Len(Front(L2)) = Len(L2) - 1 /\ Front(L2)[1] = L2[1]
    <3>1. Len(L2) >= 2
      BY <1>3
    <3> QED
      BY <1>2, <3>1, Popped
  <2> QED
    BY <1>1, <1>3, <2>1
<1>5. DepthAgrees'
  BY <1>1, <1>4 DEF DepthAgrees, Deep, Running, InCallback
<1>6. WaysAgree' /\ MessageIsOwned'
  BY <1>1 DEF WaysAgree, MessageIsOwned, CaughtByCallCall3, setErrorMsg, Freed
<1> QED
  BY <1>5, <1>6

LEMMA Caught2Steps ==
  ASSUME IInv, fired' = "none", Caught2 \/ MessageFails
  PROVE  IInv'
<1> USE DEF IInv
<1>1. /\ pc = "caught2" /\ pc' = "caught" /\ way = "lua" /\ way' = way
  BY DEF Caught2, MessageFails, callVars
<1>2. Unwound["L2"] = <<Kept>> /\ "L2" \in DOMAIN Unwound
  BY <1>1, Unwinds DEF DepthAgrees
<1>3. "L2" \in DOMAIN frames' /\ L2' \in {<<Kept>>, <<WithMessage>>}
  <2>1. CASE Caught2
    BY <1>2, <2>1 DEF Caught2, L2
  <2>2. CASE MessageFails
    BY <1>2, <2>2, MessageOnTop DEF MessageFails, L2
  <2> QED
    BY <2>1, <2>2
<1>4. WaysAgree' /\ DepthAgrees'
  BY <1>1, <1>3 DEF WaysAgree, DepthAgrees, Running, InCallback
<1>5. MessageIsOwned'
  BY <1>1 DEF MessageIsOwned, Caught2, MessageFails, freeErrorMsg, Freed, msgVars
<1> QED
  BY <1>4, <1>5

LEMMA EndSteps ==
  ASSUME IInv, fired' = "none",
         Caught \/ NativeError \/ Returned \/ NativeDoesNotFit
  PROVE  IInv'
<1> USE DEF IInv
<1>1. pc' = "done" /\ way' = way
  BY DEF Caught, NativeError, Returned, NativeDoesNotFit, Answer, callVars
<1>2. freeErrorMsg \/ (UNCHANGED msgVars /\ blocks = 0)
  BY DEF Caught, NativeError, Returned, NativeDoesNotFit, MessageIsOwned
<1>3. "L2" \in DOMAIN frames' /\ L2' = Resting
  <2>1. CASE Caught
    <3>1. CASE way = "lua"
      <4>1. L2 \in {<<Kept>>, <<WithMessage>>}
        BY <2>1, <3>1 DEF Caught, DepthAgrees
      <4> QED
        BY <2>1, <3>1, <4>1, SetsTop DEF Caught, DepthAgrees, L2
    <3>2. CASE way = "self"
      BY <2>1, <3>2 DEF Caught, DepthAgrees, L2, Left
    <3> QED
      BY <2>1, <3>1, <3>2 DEF Caught, WaysAgree
  <2>2. CASE NativeError
    <3>1. Unwound["L2"] = <<Kept>> /\ "L2" \in DOMAIN Unwound
      BY <2>2, Unwinds DEF NativeError, DepthAgrees
    <3>2. LET g == [Unwound EXCEPT !["L2"][1] = Append(@, "message")]
          IN  "L2" \in DOMAIN g /\ g["L2"] = <<WithMessage>>
      BY <3>1, MessageOnTop
    <3> QED
      BY <2>2, <3>2, SetsTop DEF NativeError, L2
  <2>3. CASE Returned
    <3>1. CASE way = "self"
      BY <2>3, <3>1 DEF Returned, DepthAgrees, L2, Left
    <3>2. CASE way # "self"
      <4>1. \E n \in {2, 3} : Deep(n)
        BY <2>3, <3>2 DEF Returned, Leaving, DepthAgrees, WaysAgree, Running, InCallback
      <4>2. Unwound["L2"] = <<Kept>> /\ "L2" \in DOMAIN Unwound
        BY <4>1, Unwinds DEF DepthAgrees
      <4> QED
        BY <2>3, <3>2, <4>2, SetsTop DEF Returned, L2
    <3> QED
      BY <3>1, <3>2
  <2>4. CASE NativeDoesNotFit
    BY <2>4 DEF NativeDoesNotFit, DepthAgrees, L2
  <2> QED
    BY <2>1, <2>2, <2>3, <2>4
<1> QED
  BY <1>1, <1>2, <1>3, OverStep

LEMMA ForgetStep == ASSUME IInv, fired' = "none", Forget PROVE IInv'
BY DEF IInv, WaysAgree, DepthAgrees, MessageIsOwned, Forget, L2, Running, InCallback

-----------------------------------------------------------------------------

LEMMA InitIInv == InterruptInit => IInv
<1> SUFFICES ASSUME InterruptInit PROVE IInv
  OBVIOUS
<1>1. /\ pc = "idle" /\ way = "lua" /\ frames = [L |-> <<>>, L2 |-> Resting]
      /\ errorMsg = "none" /\ blocks = 0 /\ fired = "none"
  BY DEF InterruptInit, TransferInit
<1> QED
  BY <1>1 DEF IInv, WaysAgree, DepthAgrees, MessageIsOwned, L2, Running, InCallback

(* An interrupt at the call or the return of MtState_callCall3 unwinds L2  *)
(* to the function of lua_cpcall().                                        *)
LEMMA OutsideCallCall3Step ==
  ASSUME IInv, fired' = "none", OutsideCallCall3 PROVE IInv'
<1> USE DEF IInv
<1>1. /\ pc \in Running /\ pc' = "caught2" /\ way = "lua" /\ way' = way
      /\ "L2" \in DOMAIN frames' /\ L2' = Front(L2)
  BY DEF OutsideCallCall3, Leaving, callVars, DepthAgrees, L2, Running, InCallback
<1>2. PICK S : L2 \in Seq(S)
  BY <1>1 DEF DepthAgrees, Deep
<1>3. Len(L2) = 3 /\ L2[1] = Kept
  BY <1>1 DEF DepthAgrees, Deep
<1>4. L2' \in Seq(S) /\ Len(L2') = 2 /\ L2'[1] = Kept
  <2>1. Front(L2) \in Seq(S) /\ Len(Front(L2)) = Len(L2) - 1 /\ Front(L2)[1] = L2[1]
    <3>1. Len(L2) >= 2
      BY <1>3
    <3> QED
      BY <1>2, <3>1, Popped
  <2> QED
    BY <1>1, <1>3, <2>1
<1>5. DepthAgrees'
  BY <1>1, <1>4 DEF DepthAgrees, Deep, Running, InCallback
<1>6. WaysAgree' /\ MessageIsOwned'
  BY <1>1 DEF WaysAgree, MessageIsOwned, OutsideCallCall3, msgVars, Running, InCallback
<1> QED
  BY <1>5, <1>6

(* Wherever a hook runs, its error is one of those of the call.            *)
LEMMA InterruptedAt ==
  ASSUME RaiseInterrupted, WaysAgree, fired # "none"
  PROVE  /\ fired' = "none"
         /\ \/ UNCHANGED transferVars
            \/ RefuseArg \/ RefuseResult \/ OutsideCallCall3
            \/ pc \in Running /\ Raise(InvocationError, Callee) /\ UNCHANGED <<msgVars, got>>
BY DEF RaiseInterrupted, CallIsInterrupted, WaysAgree

LEMMA HookSteps ==
  ASSUME IInv, NoCallerFaults, interruptHook1 \/ interruptHook2
  PROVE  IInv'
<1>1. RaiseInterrupted /\ fired # "none"
  BY DEF interruptHook1, interruptHook2
<1>2. /\ fired' = "none"
      /\ \/ UNCHANGED transferVars
         \/ RefuseArg \/ RefuseResult \/ OutsideCallCall3
         \/ pc \in Running /\ Raise(InvocationError, Callee) /\ UNCHANGED <<msgVars, got>>
  BY <1>1, InterruptedAt DEF IInv
<1>3. CASE UNCHANGED transferVars
  BY <1>2, <1>3 DEF IInv, WaysAgree, DepthAgrees, Deep, MessageIsOwned, L2, transferVars, callVars,
                    msgVars
<1>4. CASE pc \in Running /\ Raise(InvocationError, Callee) /\ UNCHANGED msgVars
  BY <1>2, <1>4, RaiseStep
<1> QED
  BY <1>2, <1>3, <1>4, RaiseSteps, OutsideCallCall3Step

LEMMA NextIInv ==
  ASSUME IInv, NoCallerFaults, [InterruptNext]_<<transferVars, hookVars>>
  PROVE  IInv'
<1>1. CASE /\ UNCHANGED transferVars
           /\ (fired' # "none" => fired # "none" \/ pc \in Running \/ InHandler)
  BY <1>1 DEF IInv, WaysAgree, InHandler, DepthAgrees, Deep, MessageIsOwned, L2, transferVars, callVars,
              msgVars
<1>2. CASE interruptHook1 \/ interruptHook2
  BY <1>2, HookSteps
<1>3. CASE TransferNext /\ fired' = "none"
  <2>1. CASE \E w \in {"lua", "self", "native"}, isTimed \in BOOLEAN, as \in Lists :
               Start(w, isTimed, as)
    BY <1>3, <2>1, StartStep
  <2> QED
    BY <1>3, <2>1, RunSteps, RaiseSteps, CaughtByCallCall3Step, Caught2Steps, EndSteps, ForgetStep
       DEF TransferNext, LuaStep, CStep, PushArgStep
<1>4. \A flag : MtState_interrupt(flag) => UNCHANGED transferVars /\ fired' = fired
  BY DEF MtState_interrupt
<1>5. HookFires => UNCHANGED transferVars /\ (pc \in Running \/ InHandler)
  BY DEF HookFires, Leaving, Cloning, Running, InCallback
<1>6. Protect => UNCHANGED transferVars /\ fired' = fired
  BY DEF Protect
<1>7. UNCHANGED hookVars => fired' = fired
  BY DEF hookVars
<1> QED
  BY <1>1, <1>2, <1>3, <1>4, <1>5, <1>6, <1>7 DEF InterruptNext, TransferNext

(* Whatever fails, and wherever a call is interrupted: the interpreter of  *)
(* the state is left as it was found.                                      *)
THEOREM StacksAreRestored ==
  ASSUME NoCallerFaults PROVE InterruptSpec => []StackIsRestored
<1>1. InterruptSpec => []IInv
  BY InitIInv, NextIInv, NoCallerFaults, PTL DEF InterruptSpec
<1>2. IInv => StackIsRestored
  BY DEF IInv, DepthAgrees, StackIsRestored, L2
<1> QED
  BY <1>1, <1>2, PTL

(* The copies of error messages are freed by the end of the call, each     *)
(* once.                                                                   *)
THEOREM NoMessageLeaks ==
  ASSUME NoCallerFaults PROVE InterruptSpec => []MessagesAreFreed
<1>1. InterruptSpec => []IInv
  BY InitIInv, NextIInv, NoCallerFaults, PTL DEF InterruptSpec
<1>2. IInv => MessagesAreFreed
  BY DEF IInv, MessageIsOwned, MessagesAreFreed
<1> QED
  BY <1>1, <1>2, PTL

-----------------------------------------------------------------------------
(* The values of a call, whoever's memory runs short: which of them are on *)
(* which stack at each moment.                                             *)

Cells == Values \cup {"kept", "this", "ud3a", "handler", "callback", "message"}
Full == {s \in Seq(Cells) : Len(s) >= 1}

(* Every function has something on its stack, and is called by another.    *)
FramesAgree ==
  /\ frames \in [{"L", "L2"} -> Seq(Full)] /\ Len(frames["L2"]) >= 1
  /\ pc \in Running => Len(frames["L"]) >= 1
  /\ way = "lua" /\ pc \in Running \cup {"caught4"} => Len(frames["L2"]) >= 2

ListsAgree == args \in Seq(Values) /\ got \in Seq(Values) /\ results \in Seq(Values)

IsPassed(values, n) == \A j \in 1 .. n : values[j] \in Copied \cup Cloned

(* What is below the callback, and then below its results.                 *)
Under == CASE way = "lua" -> <<"this">>
           [] way = "self" -> CallerFrame(timed, args)
           [] OTHER -> <<"ud3a", "handler">>
(* What is below the copies of the results.                                *)
UnderCopies ==
  CallerFrame(timed, args) \o (IF way = "self" THEN results ELSE <<>>)
    \o (IF timed THEN <<True>> ELSE <<>>)

CallerKeepsArgs == way # "self" => Frame("L") = CallerFrame(timed, args)

ArgsCopied(n) ==
  /\ n \in 0 .. Len(args) /\ next = FirstArg(timed) + n /\ last = FirstArg(timed) - 1 + Len(args)
  /\ Frame(Callee) = Under \o <<"callback">> \o SubSeq(args, 1, n)
  /\ CallerKeepsArgs /\ IsPassed(args, n) /\ got = <<>>
ArgsAgree ==
  pc \in {"enter", "args"} => next \in Nat /\ ArgsCopied(next - FirstArg(timed))

CallbackAgrees ==
  pc = "callback" => Frame(Callee) = Under \o <<"callback">> \o args /\ CallerKeepsArgs

ReturnAgrees ==
  pc = "return" /\ way # "native" => Frame(Callee) = Under \o results /\ CallerKeepsArgs

ResultsCopied(n) ==
  /\ n \in 0 .. Len(results) /\ next = Func + n /\ last = Func - 1 + Len(results)
  /\ Frame("L") = UnderCopies \o SubSeq(results, 1, n)
  /\ way = "lua" => Frame("L2") = Under \o results
  /\ IsPassed(results, n)
ResultsAgree ==
  pc = "results" => next \in Nat /\ ResultsCopied(next - Func)

GotAgrees ==
  /\ pc \in {"callback", "return", "results"} => got = args /\ IsPassed(args, Len(args))
  /\ pc = "idle" => got = <<>>

(* What an error says of the values of the call.                           *)
Names(e) ==
  /\ e.kind = "argument" =>
       FirstRefused(args, e.index - (IF timed THEN 2 ELSE 1)) /\ got = <<>>
  /\ e.kind = "result" => FirstRefused(results, e.index) /\ got = args

ErrorAgrees ==
  pc \in {"caught4", "caught2", "caught"} => error.kind # "ok" /\ Names(error)

OutcomeAgrees ==
  /\ pc # "done" => outcome = None
  /\ pc = "done" => ValuesArrive /\ ErrorsNameTheValue

DataInv ==
  /\ WaysAgree /\ timed \in BOOLEAN /\ FramesAgree /\ ListsAgree
  /\ ArgsAgree /\ CallbackAgrees /\ ReturnAgrees /\ ResultsAgree
  /\ GotAgrees /\ ErrorAgrees /\ OutcomeAgrees


-----------------------------------------------------------------------------
(* Sequences *)

LEMMA NextCopied ==
  ASSUME NEW S, NEW b \in Seq(S), NEW s \in Seq(S), NEW n \in 0 .. Len(s) - 1
  PROVE  Append(b \o SubSeq(s, 1, n), s[n + 1]) = b \o SubSeq(s, 1, n + 1)
<1>1. Len(s) \in Nat /\ n \in Int /\ n + 1 \in 1 .. Len(s)
  OBVIOUS
<1>2. (n + 1) - 1 = n
  BY <1>1
<1>3. SubSeq(s, 1, n + 1) = SubSeq(s, 1, n) \o <<s[n + 1]>>
  <2>1. 1 \in 1 .. Len(s)
    BY <1>1
  <2> QED
    BY <1>1, <1>2, <2>1, SubSeqRecursiveSecond
<1>4. SubSeq(s, 1, n) \in Seq(S) /\ s[n + 1] \in S
  <2>1. \A i \in 1 .. n : s[i] \in S
    BY <1>1, ElementOfSeq
  <2> QED
    BY <1>1, <2>1, SubSeqProperties, ElementOfSeq
<1> DEFINE p == SubSeq(s, 1, n)
           one == <<s[n + 1]>>
<1>5. p \in Seq(S) /\ one \in Seq(S) /\ SubSeq(s, 1, n + 1) = p \o one
  BY <1>3, <1>4
<1>6. b \o p \in Seq(S)
  BY <1>5, ConcatProperties
<1>7. Append(b \o p, s[n + 1]) = (b \o p) \o one
  BY <1>4, <1>6, AppendIsConcat
<1> HIDE DEF p, one
<1>8. (b \o p) \o one = b \o (p \o one)
  BY <1>5, ConcatAssociative
<1> QED
  BY <1>5, <1>7, <1>8 DEF p

LEMMA Prefix ==
  ASSUME NEW S, NEW s \in Seq(S), NEW n \in 0 .. Len(s)
  PROVE  SubSeq(s, 1, n) \in Seq(S) /\ Len(SubSeq(s, 1, n)) = n
<1>1. Len(s) \in Nat /\ n \in Int
  OBVIOUS
<1>2. \A i \in 1 .. n : s[i] \in S
  BY <1>1, ElementOfSeq
<1> QED
  BY <1>1, <1>2, SubSeqProperties

(* What is on top of other values, and what is below. *)
LEMMA Halves ==
  ASSUME NEW S, NEW s \in Seq(S), NEW t \in Seq(S)
  PROVE  /\ SubSeq(s \o t, 1, Len(s)) = s
         /\ SubSeq(s \o t, Len(s) + 1, Len(s) + Len(t)) = t
         /\ \A i \in 1 .. Len(t) : (s \o t)[Len(s) + i] = t[i]
<1> DEFINE c == s \o t
<1>1. /\ c \in Seq(S) /\ Len(c) = Len(s) + Len(t) /\ Len(s) \in Nat /\ Len(t) \in Nat
      /\ \A i \in 1 .. Len(s) + Len(t) : c[i] = IF i <= Len(s) THEN s[i] ELSE t[i - Len(s)]
  BY ConcatProperties
<1> HIDE DEF c
<1>2. \A i \in 1 .. Len(t) : c[Len(s) + i] = t[i]
  BY <1>1
<1>3. SubSeq(c, 1, Len(s)) = s
  <2> DEFINE r == SubSeq(c, 1, Len(s))
  <2>1. \A i \in 1 .. Len(s) : c[i] \in S
    BY <1>1, ElementOfSeq
  <2>2. r \in Seq(S) /\ Len(r) = Len(s) /\ \A i \in 1 .. Len(s) : r[i] = c[i]
    BY <1>1, <2>1, SubSeqProperties
  <2> HIDE DEF r
  <2>3. \A i \in 1 .. Len(r) : r[i] = s[i]
    BY <1>1, <2>2
  <2>4. r = s
    BY <2>2, <2>3, SeqEqual
  <2> QED
    BY <2>4 DEF r
<1>4. SubSeq(c, Len(s) + 1, Len(s) + Len(t)) = t
  <2> DEFINE r == SubSeq(c, Len(s) + 1, Len(s) + Len(t))
  <2>1. \A i \in Len(s) + 1 .. Len(s) + Len(t) : c[i] \in S
    BY <1>1, ElementOfSeq
  <2>2. /\ r \in Seq(S) /\ Len(r) = Len(t)
        /\ \A i \in 1 .. Len(t) : r[i] = c[Len(s) + i]
    BY <1>1, <2>1, SubSeqProperties
  <2> HIDE DEF r
  <2>3. \A i \in 1 .. Len(r) : r[i] = t[i]
    BY <1>2, <2>2
  <2>4. r = t
    BY <2>2, <2>3, SeqEqual
  <2> QED
    BY <2>4 DEF r
<1> QED
  BY <1>2, <1>3, <1>4 DEF c

(* A frame is put on top in the place of another. *)
LEMMA Replaced ==
  ASSUME NEW S, NEW s \in Seq(S), Len(s) >= 1, NEW f \in S
  PROVE  LET r == Append(Front(s), f)
         IN  r \in Seq(S) /\ Len(r) = Len(s) /\ Last(r) = f
<1>1. Len(s) \in Nat /\ Len(s) >= 1
  BY EmptySeq
<1>2. Front(s) \in Seq(S) /\ Len(Front(s)) = Len(s) - 1
  <2>1. Len(s) - 1 \in 0 .. Len(s)
    BY <1>1
  <2> QED
    BY <2>1, Prefix DEF Front
<1> DEFINE r == Append(Front(s), f)
<1>3. r \in Seq(S) /\ Len(r) = Len(s) /\ r[Len(s)] = f
  BY <1>1, <1>2, AppendProperties
<1>4. Last(r) = f
  BY <1>1, <1>3 DEF Last
<1> QED
  BY <1>3, <1>4

LEMMA FrameSet ==
  ASSUME FramesAgree, NEW x \in {"L", "L2"}, Len(frames[x]) >= 1, NEW f \in Full,
         frames' = WithFrame(x, f), UNCHANGED way,
         pc' \in Running \cup {"caught4"} => pc \in Running \cup {"caught4"},
         pc' \in Running => pc \in Running
  PROVE  FramesAgree' /\ Frame(x)' = f /\ \A y \in {"L", "L2"} \ {x} : Frame(y)' = Frame(y)
<1> DEFINE r == Append(Front(frames[x]), f)
<1>1. frames[x] \in Seq(Full) /\ frames \in [{"L", "L2"} -> Seq(Full)]
  BY DEF FramesAgree
<1>2. r \in Seq(Full) /\ Len(r) = Len(frames[x]) /\ Last(r) = f
  BY <1>1, Replaced
<1>3. frames' = [frames EXCEPT ![x] = r]
  BY DEF WithFrame
<1> HIDE DEF r
<1>4. /\ frames' \in [{"L", "L2"} -> Seq(Full)] /\ frames'[x] = r
      /\ \A y \in {"L", "L2"} \ {x} : frames'[y] = frames[y]
  BY <1>1, <1>2, <1>3
<1>5. FramesAgree'
  BY <1>2, <1>4 DEF FramesAgree
<1>6. Frame(x)' = f /\ \A y \in {"L", "L2"} \ {x} : Frame(y)' = Frame(y)
  BY <1>2, <1>4 DEF Frame
<1> QED
  BY <1>5, <1>6

LEMMA TopFrame ==
  ASSUME FramesAgree, NEW x \in {"L", "L2"}, Len(frames[x]) >= 1
  PROVE  Frame(x) \in Full /\ Frame(x) \in Seq(Cells)
<1>1. frames[x] \in Seq(Full)
  BY DEF FramesAgree
<1>2. Len(frames[x]) \in 1 .. Len(frames[x])
  BY <1>1, EmptySeq
<1> QED
  BY <1>1, <1>2, ElementOfSeq DEF Frame, Last, Full

LEMMA ValuesAreCells ==
  ASSUME NEW s \in Seq(Values)
  PROVE  s \in Seq(Cells)
BY SeqMonotonic DEF Cells

LEMMA ListsAreSeqs == ASSUME NEW s \in Lists PROVE s \in Seq(Values)
BY DEF Lists, BoundedSeq, SeqOf

LEMMA CallerFrameIs ==
  ASSUME NEW isTimed \in BOOLEAN, NEW as \in Seq(Values)
  PROVE  LET f == CallerFrame(isTimed, as) IN
         /\ f \in Full /\ f \in Seq(Cells) /\ Len(f) = FirstArg(isTimed) - 1 + Len(as)
         /\ \A i \in 1 .. Len(as) : f[FirstArg(isTimed) - 1 + i] = as[i]
<1> DEFINE p == IF isTimed THEN <<"this", Timeout>> ELSE <<"this">>
<1>1. Timeout \in Cells /\ "this" \in Cells
  BY TransferAssumption DEF Cells, Values
<1>2. p \in Seq(Cells) /\ Len(p) = FirstArg(isTimed) - 1 /\ Len(p) \in Nat /\ Len(p) # 0
      /\ FirstArg(isTimed) \in Nat
  BY <1>1 DEF FirstArg
<1>3. CallerFrame(isTimed, as) = p \o as
  BY DEF CallerFrame
<1>4. as \in Seq(Cells) /\ Len(as) \in Nat
  <2>1. as \in Seq(Cells)
    BY ValuesAreCells
  <2> QED
    BY <2>1, LenProperties
<1> HIDE DEF p
<1>5. p \o as \in Seq(Cells) /\ Len(p \o as) = Len(p) + Len(as)
  BY <1>2, <1>4, ConcatProperties
<1>6. \A i \in 1 .. Len(as) : (p \o as)[Len(p) + i] = as[i]
  BY <1>2, <1>4, Halves
<1>7. Len(p \o as) >= 1 /\ Len(p \o as) = FirstArg(isTimed) - 1 + Len(as)
  <2>1. \A k, l, m \in Nat : k = m - 1 /\ k # 0 => k + l >= 1 /\ k + l = m - 1 + l
    OBVIOUS
  <2>2. Len(p) \in Nat /\ Len(as) \in Nat /\ FirstArg(isTimed) \in Nat
        /\ Len(p) = FirstArg(isTimed) - 1 /\ Len(p) # 0
    BY <1>2, <1>4
  <2> QED
    BY <1>5, <2>1, <2>2
<1>8. p \o as \in Full
  BY <1>5, <1>7 DEF Full
<1> QED
  BY <1>2, <1>3, <1>5, <1>6, <1>7, <1>8

LEMMA UnderIs ==
  ASSUME DataInv
  PROVE  /\ Under \in Seq(Cells) /\ Len(Under) \in Nat /\ Func = Len(Under) + 1
         /\ Under \o <<"callback">> \in Seq(Cells) /\ Len(Under \o <<"callback">>) = Func
         /\ <<"callback">> \in Seq(Cells)
<1>1. CallerFrame(timed, args) \in Seq(Cells)
  BY CallerFrameIs DEF DataInv, ListsAgree
<1>2. way \in {"lua", "self", "native"}
  BY DEF DataInv, WaysAgree
<1>3. {"this", "ud3a", "handler", "callback"} \subseteq Cells
  BY DEF Cells
<1>4. Under \in Seq(Cells) /\ Len(Under) \in Nat /\ Func = Len(Under) + 1
  BY <1>1, <1>2, <1>3 DEF Under, Func
<1>5. <<"callback">> \in Seq(Cells) /\ Len(<<"callback">>) = 1
  BY <1>3
<1> QED
  BY <1>4, <1>5, ConcatProperties

LEMMA UnderHasThis == ASSUME DataInv PROVE Len(Under) >= 1
<1>1. Len(CallerFrame(timed, args)) >= 1
  BY CallerFrameIs DEF DataInv, ListsAgree, Full
<1> QED
  BY <1>1 DEF Under, DataInv, WaysAgree

-----------------------------------------------------------------------------
(* One value goes from stack to stack. *)

LEMMA ArgOnStack ==
  ASSUME DataInv, pc = "args", next <= last
  PROVE  LET n == next - FirstArg(timed) IN
         n \in 0 .. Len(args) - 1 /\ Frame("L")[next] = args[n + 1]
<1> DEFINE n == next - FirstArg(timed)
           c == CallerFrame(timed, args)
<1>1. /\ args \in Seq(Values) /\ Len(args) \in Nat /\ timed \in BOOLEAN
      /\ next \in Nat /\ n \in 0 .. Len(args) /\ last = FirstArg(timed) - 1 + Len(args)
  BY DEF DataInv, ListsAgree, ArgsAgree, ArgsCopied
<1>2. n \in 0 .. Len(args) - 1 /\ next = FirstArg(timed) - 1 + (n + 1) /\ n + 1 \in 1 .. Len(args)
  BY <1>1 DEF FirstArg
<1>3. c \in Seq(Cells) /\ Len(c) = FirstArg(timed) - 1 + Len(args) /\ c[next] = args[n + 1]
  BY <1>1, <1>2, CallerFrameIs
<1>4. CASE way # "self"
  BY <1>2, <1>3, <1>4 DEF DataInv, ArgsAgree, ArgsCopied, CallerKeepsArgs
<1>5. CASE way = "self"
  <2> DEFINE m == <<"callback">>
             t == SubSeq(args, 1, n)
  <2>1. Frame("L") = (c \o m) \o t
    BY <1>5 DEF DataInv, ArgsAgree, ArgsCopied, Callee, Under
  <2>2. m \in Seq(Cells) /\ t \in Seq(Cells)
    <3>1. args \in Seq(Cells)
      BY <1>1, ValuesAreCells
    <3> QED
      BY <1>1, <3>1, UnderIs, Prefix
  <2> HIDE DEF m, t, c
  <2>3. c \o m \in Seq(Cells) /\ Len(c \o m) = Len(c) + Len(m) /\ Len(c) \in Nat /\ Len(m) \in Nat
        /\ Len(t) \in Nat
    BY <1>3, <2>2, ConcatProperties
  <2>4. next \in 1 .. Len(c)
    BY <1>1, <1>2, <1>3 DEF FirstArg
  <2>5. (c \o m)[next] = c[next]
    BY <1>3, <2>2, <2>3, <2>4, ConcatProperties
  <2>6. ((c \o m) \o t)[next] = (c \o m)[next]
    BY <2>2, <2>3, <2>4, ConcatProperties
  <2> QED
    BY <1>2, <1>3, <2>1, <2>5, <2>6
<1> QED
  BY <1>4, <1>5

LEMMA ResultOnStack ==
  ASSUME DataInv, pc = "results", next <= last
  PROVE  LET n == next - Func IN
         n \in 0 .. Len(results) - 1 /\ Frame(Callee)[next] = results[n + 1]
<1> DEFINE n == next - Func
<1>1. /\ results \in Seq(Values) /\ results \in Seq(Cells) /\ Len(results) \in Nat
      /\ next \in Nat /\ n \in 0 .. Len(results) /\ last = Func - 1 + Len(results)
  BY ValuesAreCells DEF DataInv, ListsAgree, ResultsAgree, ResultsCopied
<1>2. Under \in Seq(Cells) /\ Len(Under) \in Nat /\ Func = Len(Under) + 1
  BY UnderIs
<1>3. n \in 0 .. Len(results) - 1 /\ next = Len(Under) + (n + 1) /\ n + 1 \in 1 .. Len(results)
  BY <1>1, <1>2
<1>4. (Under \o results)[next] = results[n + 1]
  <2> HIDE DEF n
  <2>1. \A i \in 1 .. Len(results) : (Under \o results)[Len(Under) + i] = results[i]
    BY <1>1, <1>2, Halves
  <2> QED
    BY <1>3, <2>1
<1>5. CASE way = "lua"
  BY <1>3, <1>4, <1>5 DEF DataInv, ResultsAgree, ResultsCopied, Callee
<1>6. CASE way = "self"
  <2> DEFINE b == Under \o results
             m == IF timed THEN <<True>> ELSE <<>>
             t == SubSeq(results, 1, n)
  <2>1. Frame("L") = (b \o m) \o t
    BY <1>6 DEF DataInv, ResultsAgree, ResultsCopied, UnderCopies, Under
  <2>2. b \in Seq(Cells) /\ Len(b) = Len(Under) + Len(results)
    BY <1>1, <1>2, ConcatProperties
  <2>3. m \in Seq(Cells) /\ t \in Seq(Cells)
    <3>1. True \in Cells
      BY TransferAssumption DEF Cells, Values
    <3>2. <<True>> \in Seq(Cells) /\ <<>> \in Seq(Cells)
      BY <3>1
    <3> QED
      BY <1>1, <3>2, Prefix
  <2> HIDE DEF m, t, b
  <2>4. /\ b \o m \in Seq(Cells) /\ Len(b \o m) = Len(b) + Len(m)
        /\ Len(b) \in Nat /\ Len(m) \in Nat /\ Len(t) \in Nat
    <3>1. b \in Seq(Cells)
      BY <2>2
    <3>2. b \o m \in Seq(Cells) /\ Len(b \o m) = Len(b) + Len(m)
      BY <2>3, <3>1, ConcatProperties
    <3> QED
      BY <2>3, <3>1, <3>2, LenProperties
  <2>5. next \in 1 .. Len(b)
    BY <1>1, <1>2, <1>3, <2>2
  <2>6. (b \o m)[next] = b[next]
    BY <2>2, <2>3, <2>4, <2>5, ConcatProperties
  <2>7. ((b \o m) \o t)[next] = (b \o m)[next]
    BY <2>3, <2>4, <2>5, ConcatProperties
  <2> QED
    BY <1>3, <1>4, <1>6, <2>1, <2>6, <2>7 DEF b, Callee
<1> QED
  BY <1>5, <1>6 DEF DataInv, WaysAgree

LEMMA CopyArgData == ASSUME DataInv, CopyArg, fired' = "none" PROVE DataInv'
<1> DEFINE n == next - FirstArg(timed)
           b == Under \o <<"callback">>
           f == Append(Frame(Callee), args[n + 1])
<1>1. /\ pc = "args" /\ pc' = "args" /\ next <= last /\ next' = next + 1
      /\ UNCHANGED <<way, timed, args, last, error, outcome, got, results>>
      /\ Frame("L")[next] \in Copied \cup Cloned
      /\ frames' = WithFrame(Callee, Append(Frame(Callee), Frame("L")[next]))
  BY DEF CopyArg, PushArg, ArgsFrom, OnTop, callVars
<1>2. n \in 0 .. Len(args) - 1 /\ Frame("L")[next] = args[n + 1]
  BY <1>1, ArgOnStack
<1>3. /\ args \in Seq(Cells) /\ Len(args) \in Nat /\ next \in Nat /\ FirstArg(timed) \in Nat
      /\ Frame(Callee) = b \o SubSeq(args, 1, n) /\ IsPassed(args, n)
      /\ last = FirstArg(timed) - 1 + Len(args) /\ got = <<>> /\ CallerKeepsArgs
  <2>1. args \in Seq(Values) /\ FirstArg(timed) \in Nat
    BY DEF DataInv, ListsAgree, FirstArg
  <2>2. args \in Seq(Cells) /\ Len(args) \in Nat
    BY <2>1, ValuesAreCells, LenProperties
  <2> QED
    BY <1>1, <2>1, <2>2 DEF DataInv, ArgsAgree, ArgsCopied
<1>4. b \in Seq(Cells)
  BY UnderIs
<1>5. f = b \o SubSeq(args, 1, n + 1)
  <2> HIDE DEF b
  <2> QED
    BY <1>2, <1>3, <1>4, NextCopied
<1>6. Callee \in {"L", "L2"} /\ Len(frames[Callee]) >= 1 /\ Callee' = Callee
  BY <1>1 DEF DataInv, FramesAgree, Running, InCallback, Callee
<1>7. f \in Full
  <2>1. Frame(Callee) \in Seq(Cells) /\ args[n + 1] \in Cells
    <3>1. n + 1 \in 1 .. Len(args)
      BY <1>2, <1>3
    <3> QED
      BY <1>3, <1>6, <3>1, TopFrame, ElementOfSeq DEF DataInv
  <2> QED
    BY <2>1, AppendProperties DEF Full
<1>8. PICK x \in {"L", "L2"} : x = Callee
  BY <1>6
<1>9. /\ FramesAgree' /\ Frame(x)' = f
      /\ \A y \in {"L", "L2"} \ {x} : Frame(y)' = Frame(y)
  <2>1. /\ FramesAgree /\ Len(frames[x]) >= 1 /\ frames' = WithFrame(x, f) /\ UNCHANGED way
        /\ pc' \in Running \cup {"caught4"} => pc \in Running \cup {"caught4"}
        /\ pc' \in Running => pc \in Running
    BY <1>1, <1>2, <1>6, <1>8 DEF DataInv
  <2> HIDE DEF f
  <2> QED
    BY <1>7, <2>1, FrameSet
<1>10. ArgsAgree'
  <2> PICK k : k = n + 1
    OBVIOUS
  <2>1. Under' = Under /\ FirstArg(timed)' = FirstArg(timed)
    BY <1>1 DEF Under, FirstArg
  <2>2. Frame(Callee)' = Under' \o <<"callback">> \o SubSeq(args', 1, k)
    BY <1>1, <1>5, <1>6, <1>8, <1>9, <2>1
  <2>3. CallerKeepsArgs'
    BY <1>1, <1>3, <1>8, <1>9 DEF CallerKeepsArgs, Callee
  <2>4. IsPassed(args, k)'
    BY <1>1, <1>2, <1>3 DEF IsPassed
  <2>5. /\ next' \in Nat /\ next' = FirstArg(timed)' + k /\ k \in 0 .. Len(args')
        /\ last' = FirstArg(timed)' - 1 + Len(args') /\ FirstArg(timed)' \in Nat
    BY <1>1, <1>2, <1>3, <2>1
  <2>6. ArgsCopied(k)'
    BY <1>1, <1>3, <2>2, <2>3, <2>4, <2>5 DEF ArgsCopied
  <2>7. (next - FirstArg(timed))' = k
    BY <2>5
  <2> QED
    BY <2>5, <2>6, <2>7 DEF ArgsAgree
<1>11. /\ WaysAgree' /\ timed' \in BOOLEAN /\ ListsAgree' /\ CallbackAgrees' /\ ReturnAgrees'
       /\ ResultsAgree' /\ GotAgrees' /\ ErrorAgrees' /\ OutcomeAgrees'
  BY <1>1 DEF DataInv, WaysAgree, Running, InCallback, ListsAgree, CallbackAgrees, ReturnAgrees,
              ResultsAgree, GotAgrees, ErrorAgrees, OutcomeAgrees
<1> QED
  BY <1>9, <1>10, <1>11 DEF DataInv

-----------------------------------------------------------------------------
(* Errors *)

LEMMA RaiseData ==
  ASSUME DataInv, NEW e, NEW x \in {"L", Callee}, Raise(e, x), pc \in Running,
         x # Callee => pc = "results", fired' = "none", UNCHANGED got,
         e.kind # "ok", Names(e)
  PROVE  DataInv'
<1>1. /\ UNCHANGED <<way, timed, args, frames, next, last, outcome, results, got>> /\ error' = e
      /\ pc' = CASE x = "L" -> "caught"
                 [] way = "native" -> "caught2"
                 [] OTHER -> "caught4"
  BY DEF Raise, callVars
<1>2. WaysAgree' /\ pc' \in {"caught4", "caught2", "caught"}
  BY <1>1 DEF DataInv, WaysAgree, Callee
<1>3. FramesAgree'
  BY <1>1, <1>2 DEF DataInv, FramesAgree, Running, InCallback
<1>4. ErrorAgrees'
  BY <1>1 DEF ErrorAgrees, Names, FirstRefused
<1>5. /\ ListsAgree' /\ ArgsAgree' /\ CallbackAgrees' /\ ReturnAgrees' /\ ResultsAgree' /\ GotAgrees'
  BY <1>1, <1>2 DEF DataInv, ListsAgree, ArgsAgree, CallbackAgrees, ReturnAgrees, ResultsAgree,
                    GotAgrees
<1>6. OutcomeAgrees' /\ timed' \in BOOLEAN
  BY <1>1, <1>2 DEF DataInv, OutcomeAgrees, Running, InCallback
<1> QED
  BY <1>2, <1>3, <1>4, <1>5, <1>6 DEF DataInv

LEMMA RefuseArgData == ASSUME DataInv, RefuseArg, fired' = "none" PROVE DataInv'
<1> DEFINE n == next - FirstArg(timed)
           e == Error(IF way = "native" THEN "invoking" ELSE "argument", next)
<1>1. /\ pc = "args" /\ next <= last /\ Frame("L")[next] \in Unsupported \cup Cloned
      /\ Raise(e, Callee) /\ UNCHANGED got
  BY DEF RefuseArg, Refused, ArgsFrom
<1>2. n \in 0 .. Len(args) - 1 /\ Frame("L")[next] = args[n + 1]
  BY <1>1, ArgOnStack
<1>3. /\ args \in Seq(Values) /\ Len(args) \in Nat /\ DOMAIN args = 1 .. Len(args)
      /\ next \in Nat /\ timed \in BOOLEAN /\ IsPassed(args, n) /\ got = <<>>
  BY <1>1, LenProperties DEF DataInv, ListsAgree, ArgsAgree, ArgsCopied
<1>4. next - (IF timed THEN 2 ELSE 1) = n + 1
  BY <1>3 DEF FirstArg
<1>5. FirstRefused(args, n + 1)
  <2> PICK i : i = n + 1
    OBVIOUS
  <2>1. i \in DOMAIN args /\ args[i] \in Unsupported \cup Cloned /\ i - 1 = n
    BY <1>1, <1>2, <1>3
  <2>2. \A j \in 1 .. i - 1 : args[j] \notin Unsupported
    BY <1>2, <1>3, <2>1, TransferAssumption DEF IsPassed
  <2> QED
    BY <2>1, <2>2 DEF FirstRefused
<1>6. e.kind # "ok" /\ Names(e)
  BY <1>3, <1>4, <1>5 DEF Error, Names
<1> HIDE DEF e
<1> QED
  BY <1>1, <1>6, RaiseData DEF Running, InCallback

LEMMA RefuseResultData == ASSUME DataInv, RefuseResult, fired' = "none" PROVE DataInv'
<1> DEFINE n == next - Func
           e == Error("result", BadResult(next))
<1>1. /\ pc = "results" /\ next <= last /\ Frame(Callee)[next] \in Unsupported \cup Cloned
      /\ Raise(e, Callee) /\ UNCHANGED got
  BY DEF RefuseResult, Refused
<1>2. n \in 0 .. Len(results) - 1 /\ Frame(Callee)[next] = results[n + 1]
  BY <1>1, ResultOnStack
<1>3. /\ results \in Seq(Values) /\ Len(results) \in Nat /\ DOMAIN results = 1 .. Len(results)
      /\ next \in Nat /\ IsPassed(results, n) /\ got = args
  BY <1>1, LenProperties DEF DataInv, ListsAgree, ResultsAgree, ResultsCopied, GotAgrees
<1>4. BadResult(next) = n + 1
  BY DEF BadResult
<1>5. FirstRefused(results, n + 1)
  <2> PICK i : i = n + 1
    OBVIOUS
  <2>1. i \in DOMAIN results /\ results[i] \in Unsupported \cup Cloned /\ i - 1 = n
    BY <1>1, <1>2, <1>3
  <2>2. \A j \in 1 .. i - 1 : results[j] \notin Unsupported
    BY <1>2, <1>3, <2>1, TransferAssumption DEF IsPassed
  <2> QED
    BY <2>1, <2>2 DEF FirstRefused
<1>6. e.kind # "ok" /\ Names(e)
  BY <1>3, <1>4, <1>5 DEF Error, Names
<1> HIDE DEF e
<1> QED
  BY <1>1, <1>6, RaiseData DEF Running, InCallback

(* Errors that name no value. *)
LEMMA OtherErrorsData ==
  ASSUME DataInv, fired' = "none",
         ArgsDoNotFit \/ CalleeFails \/ CallbackFails \/ ResultsDoNotFit \/ CallerFails
  PROVE  DataInv'
<1> DEFINE K == {"memory", "raw", "invoking"}
<1>1. \A k \in K : Error(k, 0).kind # "ok" /\ Names(Error(k, 0))
  BY DEF Names, Error
<1>2. pc \in Running /\ UNCHANGED got
  BY DEF ArgsDoNotFit, CalleeFails, CallbackFails, ResultsDoNotFit, CallerFails, Running, InCallback
<1>3. \E k \in K : \/ Raise(Error(k, 0), Callee)
                   \/ pc = "results" /\ Raise(Error(k, 0), "L")
  BY DEF ArgsDoNotFit, CalleeFails, CallbackFails, ResultsDoNotFit, CallerFails, InvocationError
<1> QED
  BY <1>1, <1>2, <1>3, RaiseData

-----------------------------------------------------------------------------
(* The callback *)

LEMMA StackOfCallback ==
  ASSUME DataInv, pc \in {"args", "callback"}, pc = "args" => next > last
  PROVE  LET f == Frame(Callee) IN
         /\ f \in Seq(Cells) /\ f = Under \o <<"callback">> \o args
         /\ SubSeq(f, 1, Func - 1) = Under /\ SubSeq(f, Func + 1, Len(f)) = args
<1>1. args \in Seq(Values) /\ args \in Seq(Cells) /\ Len(args) \in Nat
  <2>1. args \in Seq(Values)
    BY DEF DataInv, ListsAgree
  <2> QED
    BY <2>1, ValuesAreCells, LenProperties
<1>2. Frame(Callee) = Under \o <<"callback">> \o args
  <2>1. CASE pc = "callback"
    BY <2>1 DEF DataInv, CallbackAgrees
  <2>2. CASE pc = "args"
    <3> PICK n : n = next - FirstArg(timed)
      OBVIOUS
    <3>1. ArgsCopied(n) /\ next \in Nat /\ FirstArg(timed) \in Nat
      BY <2>2 DEF DataInv, ArgsAgree, FirstArg
    <3>2. n = Len(args)
      BY <1>1, <2>2, <3>1 DEF ArgsCopied
    <3>3. SubSeq(args, 1, n) = args
      BY <1>1, <3>2, SubSeqFull
    <3> QED
      BY <3>1, <3>3 DEF ArgsCopied
  <2> QED
    BY <2>1, <2>2
<1> DEFINE m == <<"callback">>
<1>3. /\ Under \in Seq(Cells) /\ Len(Under) \in Nat /\ Func = Len(Under) + 1
      /\ Under \o m \in Seq(Cells) /\ Len(Under \o m) = Func /\ m \in Seq(Cells)
  BY UnderIs
<1> DEFINE f == (Under \o m) \o args
<1>4. Frame(Callee) = f
  BY <1>2
<1> HIDE DEF m
<1>5. f \in Seq(Cells) /\ Len(f) = Func + Len(args)
  BY <1>1, <1>3, ConcatProperties
<1>6. SubSeq(f, Func + 1, Func + Len(args)) = args
  BY <1>1, <1>3, Halves
<1>7. SubSeq(f, 1, Func - 1) = Under
  <2>1. f = Under \o (m \o args) /\ m \o args \in Seq(Cells)
    BY <1>1, <1>3, ConcatAssociative, ConcatProperties
  <2>2. SubSeq(Under \o (m \o args), 1, Len(Under)) = Under
    BY <1>3, <2>1, Halves
  <2> QED
    BY <1>3, <2>1, <2>2
<1> HIDE DEF f
<1> QED
  BY <1>2, <1>4, <1>5, <1>6, <1>7

LEMMA CallbackData == ASSUME DataInv, Callback, fired' = "none" PROVE DataInv'
<1>1. /\ pc = "args" /\ next > last /\ pc' = "callback"
      /\ got' = SubSeq(Frame(Callee), Func + 1, Len(Frame(Callee)))
      /\ UNCHANGED <<way, timed, args, frames, next, last, error, outcome, results>>
  BY DEF Callback, callVars
<1>2. got' = args /\ Frame(Callee) = Under \o <<"callback">> \o args
  BY <1>1, StackOfCallback
<1>3. CallerKeepsArgs /\ IsPassed(args, Len(args))
  <2> PICK n : n = next - FirstArg(timed)
    OBVIOUS
  <2>1. ArgsCopied(n) /\ next \in Nat /\ FirstArg(timed) \in Nat /\ Len(args) \in Nat
    BY <1>1, LenProperties DEF DataInv, ArgsAgree, FirstArg, ListsAgree
  <2>2. n = Len(args)
    BY <1>1, <2>1 DEF ArgsCopied
  <2> QED
    BY <2>1, <2>2 DEF ArgsCopied
<1>4. CallbackAgrees'
  BY <1>1, <1>2, <1>3 DEF CallbackAgrees, CallerKeepsArgs, Frame, Callee, Under
<1>5. GotAgrees'
  BY <1>1, <1>2, <1>3 DEF GotAgrees, IsPassed
<1>6. /\ WaysAgree' /\ timed' \in BOOLEAN /\ FramesAgree' /\ ListsAgree' /\ ArgsAgree'
      /\ ReturnAgrees' /\ ResultsAgree' /\ ErrorAgrees' /\ OutcomeAgrees'
  BY <1>1, <1>2 DEF DataInv, WaysAgree, Running, InCallback, FramesAgree, ListsAgree, ArgsAgree,
                    ReturnAgrees, ResultsAgree, ErrorAgrees, OutcomeAgrees
<1> QED
  BY <1>4, <1>5, <1>6 DEF DataInv

LEMMA CallbackReturnsData ==
  ASSUME DataInv, NEW rs \in Lists, CallbackReturns(rs), fired' = "none"
  PROVE  DataInv'
<1> DEFINE f == SubSeq(Frame(Callee), 1, Func - 1) \o (IF way = "native" THEN <<>> ELSE rs)
<1>1. /\ pc = "callback" /\ pc' = "return" /\ results' = rs
      /\ frames' = WithFrame(Callee, f)
      /\ UNCHANGED <<way, timed, args, next, last, error, outcome, got>>
  BY DEF CallbackReturns, callVars
<1>2. rs \in Seq(Values)
  BY ListsAreSeqs
<1>3. rs \in Seq(Cells)
  BY <1>2, ValuesAreCells
<1>4. f = Under \o (IF way = "native" THEN <<>> ELSE rs)
  BY <1>1, StackOfCallback
<1>5. f \in Full
  <2>1. Under \in Seq(Cells) /\ Len(Under) >= 1
    BY UnderIs, UnderHasThis
  <2>2. (IF way = "native" THEN <<>> ELSE rs) \in Seq(Cells)
    BY <1>3
  <2>3. f \in Seq(Cells) /\ Len(f) = Len(Under) + Len(IF way = "native" THEN <<>> ELSE rs)
    BY <1>4, <2>1, <2>2, ConcatProperties
  <2>4. Len(IF way = "native" THEN <<>> ELSE rs) \in Nat /\ Len(Under) \in Nat
    BY <2>1, <2>2, LenProperties
  <2> HIDE DEF f
  <2> QED
    BY <2>1, <2>3, <2>4 DEF Full
<1>6. Callee \in {"L", "L2"} /\ Len(frames[Callee]) >= 1 /\ Callee' = Callee
  BY <1>1 DEF DataInv, FramesAgree, Running, InCallback, Callee
<1>7. PICK x \in {"L", "L2"} : x = Callee
  BY <1>6
<1>8. /\ FramesAgree' /\ Frame(x)' = f
      /\ \A y \in {"L", "L2"} \ {x} : Frame(y)' = Frame(y)
  <2>1. /\ FramesAgree /\ Len(frames[x]) >= 1 /\ frames' = WithFrame(x, f) /\ UNCHANGED way
        /\ pc' \in Running \cup {"caught4"} => pc \in Running \cup {"caught4"}
        /\ pc' \in Running => pc \in Running
    BY <1>1, <1>6, <1>7 DEF DataInv, Running, InCallback
  <2> HIDE DEF f
  <2> QED
    BY <1>5, <2>1, FrameSet
<1>9. ReturnAgrees'
  <2>1. way # "native" => Frame(Callee)' = Under' \o results'
    BY <1>1, <1>4, <1>6, <1>7, <1>8 DEF Under
  <2>2. CallerKeepsArgs'
    BY <1>1, <1>7, <1>8 DEF CallerKeepsArgs, Callee, DataInv, CallbackAgrees
  <2> QED
    BY <1>1, <2>1, <2>2 DEF ReturnAgrees
<1>10. /\ WaysAgree' /\ timed' \in BOOLEAN /\ ListsAgree' /\ ArgsAgree' /\ CallbackAgrees'
       /\ ResultsAgree' /\ GotAgrees' /\ ErrorAgrees' /\ OutcomeAgrees'
  BY <1>1, <1>2 DEF DataInv, WaysAgree, Running, InCallback, ListsAgree, ArgsAgree,
                    CallbackAgrees, ResultsAgree, GotAgrees, ErrorAgrees, OutcomeAgrees, IsPassed
<1> QED
  BY <1>8, <1>9, <1>10 DEF DataInv

(* The stack of the caller before and after true is pushed to it. *)
CallerReturns ==
  CallerFrame(timed, args) \o (IF way = "self" THEN results ELSE <<>>)

LEMMA CopiesAre ==
  ASSUME DataInv
  PROVE  /\ CallerReturns \in Seq(Cells) /\ UnderCopies \in Seq(Cells)
         /\ UnderCopies = CallerReturns \o (IF timed THEN <<True>> ELSE <<>>)
         /\ (IF timed THEN <<True>> ELSE <<>>) \in Seq(Cells)
         /\ results \in Seq(Cells) /\ Len(results) \in Nat
<1> DEFINE a == CallerFrame(timed, args)
           b == IF way = "self" THEN results ELSE <<>>
           c == IF timed THEN <<True>> ELSE <<>>
<1>1. results \in Seq(Cells) /\ Len(results) \in Nat
  <2>1. results \in Seq(Values)
    BY DEF DataInv, ListsAgree
  <2> QED
    BY <2>1, ValuesAreCells, LenProperties
<1>2. a \in Seq(Cells) /\ b \in Seq(Cells)
  BY <1>1, CallerFrameIs DEF DataInv, ListsAgree
<1>3. c \in Seq(Cells)
  <2>1. True \in Cells
    BY TransferAssumption DEF Cells, Values
  <2>2. <<True>> \in Seq(Cells) /\ <<>> \in Seq(Cells)
    BY <2>1
  <2> QED
    BY <2>2
<1>4. CallerReturns = a \o b /\ UnderCopies = (a \o b) \o c
  BY DEF CallerReturns, UnderCopies
<1> HIDE DEF a, b
<1>5. a \o b \in Seq(Cells)
  BY <1>2, ConcatProperties
<1>6. (a \o b) \o c \in Seq(Cells)
  <2> HIDE DEF c
  <2> QED
    BY <1>3, <1>5, ConcatProperties
<1> QED
  BY <1>1, <1>3, <1>4, <1>5, <1>6

LEMMA ResultsData == ASSUME DataInv, Results, fired' = "none" PROVE DataInv'
<1> DEFINE f == Append(CallerReturns, True)
<1>1. /\ pc = "return" /\ way # "native" /\ pc' = "results"
      /\ next' = Func /\ last' = Len(Frame(Callee))
      /\ frames' = IF timed THEN OnTop("L", True) ELSE frames
      /\ UNCHANGED <<way, timed, args, error, outcome, got, results>>
  BY DEF Results, LastResult, callVars
<1>2. /\ Under \in Seq(Cells) /\ Len(Under) \in Nat /\ Func = Len(Under) + 1
      /\ results \in Seq(Cells) /\ Len(results) \in Nat
      /\ CallerReturns \in Seq(Cells) /\ UnderCopies \in Seq(Cells)
      /\ UnderCopies = CallerReturns \o (IF timed THEN <<True>> ELSE <<>>)
  BY UnderIs, CopiesAre
<1>3. Frame(Callee) = Under \o results /\ Frame("L") = CallerReturns
  <2>1. Frame(Callee) = Under \o results /\ CallerKeepsArgs
    BY <1>1 DEF DataInv, ReturnAgrees
  <2>2. CallerFrame(timed, args) \o <<>> = CallerFrame(timed, args)
    BY CallerFrameIs, ConcatEmptySeq DEF DataInv, ListsAgree
  <2> QED
    BY <2>1, <2>2 DEF CallerKeepsArgs, CallerReturns, Callee, Under
<1>4. last' = Func - 1 + Len(results)
  <2>1. Len(Under \o results) = Len(Under) + Len(results)
    BY <1>2, ConcatProperties
  <2> QED
    BY <1>1, <1>2, <1>3, <2>1
<1>5. FramesAgree' /\ Frame("L")' = UnderCopies /\ Frame("L2")' = Frame("L2")
  <2>1. CASE timed
    <3>1. True \in Cells
      BY TransferAssumption DEF Cells, Values
    <3>2. f = UnderCopies
      BY <1>2, <2>1, <3>1, AppendIsConcat
    <3>3. f \in Full
      <4>1. f \in Seq(Cells) /\ Len(f) = Len(CallerReturns) + 1 /\ Len(CallerReturns) \in Nat
        BY <1>2, <3>1, AppendProperties
      <4> QED
        BY <4>1 DEF Full
    <3>4. /\ FramesAgree /\ Len(frames["L"]) >= 1 /\ frames' = WithFrame("L", f) /\ UNCHANGED way
          /\ pc' \in Running \cup {"caught4"} => pc \in Running \cup {"caught4"}
          /\ pc' \in Running => pc \in Running
      BY <1>1, <1>3, <2>1 DEF DataInv, FramesAgree, OnTop, Running, InCallback
    <3> HIDE DEF f
    <3>5. FramesAgree' /\ Frame("L")' = f
          /\ \A y \in {"L", "L2"} \ {"L"} : Frame(y)' = Frame(y)
      BY <3>3, <3>4, FrameSet
    <3> QED
      BY <3>2, <3>5
  <2>2. CASE ~timed
    <3>1. UnderCopies = CallerReturns
      BY <1>2, <2>2, ConcatEmptySeq
    <3>2. UNCHANGED frames /\ FramesAgree
      BY <1>1, <2>2 DEF DataInv
    <3>3. FramesAgree'
      BY <1>1, <3>2 DEF FramesAgree, Running, InCallback
    <3> QED
      BY <1>3, <3>1, <3>2, <3>3 DEF Frame
  <2> QED
    BY <2>1, <2>2
<1>6. ResultsAgree'
  <2>1. UnderCopies' = UnderCopies /\ Under' = Under /\ Func' = Func
    BY <1>1 DEF UnderCopies, Under, Func
  <2>2. UnderCopies \o SubSeq(results, 1, 0) = UnderCopies
    BY <1>2, ConcatEmptySeq, SubSeqEmpty
  <2>3. way = "lua" => Frame("L2")' = Under \o results
    BY <1>3, <1>5 DEF Callee
  <2>4. ResultsCopied(0)'
    BY <1>1, <1>2, <1>4, <1>5, <2>1, <2>2, <2>3 DEF ResultsCopied, IsPassed
  <2>5. (next - Func)' = 0 /\ next' \in Nat
    BY <1>1, <1>2, <2>1
  <2> QED
    BY <2>4, <2>5 DEF ResultsAgree
<1>7. /\ WaysAgree' /\ timed' \in BOOLEAN /\ ListsAgree' /\ ArgsAgree' /\ CallbackAgrees'
      /\ ReturnAgrees' /\ GotAgrees' /\ ErrorAgrees' /\ OutcomeAgrees'
  BY <1>1 DEF DataInv, WaysAgree, Running, InCallback, ListsAgree, ArgsAgree, CallbackAgrees,
              ReturnAgrees, GotAgrees, ErrorAgrees, OutcomeAgrees, IsPassed
<1> QED
  BY <1>5, <1>6, <1>7 DEF DataInv

LEMMA CopyResultData == ASSUME DataInv, CopyResult, fired' = "none" PROVE DataInv'
<1> PICK n : n = next - Func
  OBVIOUS
<1> DEFINE f == Append(Frame("L"), results[n + 1])
<1>1. /\ pc = "results" /\ pc' = "results" /\ next <= last /\ next' = next + 1
      /\ UNCHANGED <<way, timed, args, last, error, outcome, got, results>>
      /\ Frame(Callee)[next] \in Copied \cup Cloned
      /\ frames' = WithFrame("L", Append(Frame("L"), Frame(Callee)[next]))
  BY DEF CopyResult, PushArg, OnTop, callVars
<1>2. n \in 0 .. Len(results) - 1 /\ Frame(Callee)[next] = results[n + 1]
  BY <1>1, ResultOnStack
<1>3. /\ UnderCopies \in Seq(Cells) /\ results \in Seq(Cells) /\ Len(results) \in Nat
      /\ Func \in Nat
  BY UnderIs, CopiesAre
<1>4. ResultsCopied(n) /\ next \in Nat
  BY <1>1 DEF DataInv, ResultsAgree
<1>5. f = UnderCopies \o SubSeq(results, 1, n + 1)
  BY <1>2, <1>3, <1>4, NextCopied DEF ResultsCopied
<1>6. Len(frames["L"]) >= 1 /\ FramesAgree
  BY <1>1 DEF DataInv, FramesAgree, Running
<1>7. f \in Full
  <2>1. Frame("L") \in Seq(Cells)
    BY <1>6, TopFrame
  <2>2. results[n + 1] \in Cells
    BY <1>2, <1>3, ElementOfSeq
  <2>3. f \in Seq(Cells) /\ Len(f) = Len(Frame("L")) + 1 /\ Len(Frame("L")) \in Nat
    BY <2>1, <2>2, AppendProperties
  <2> QED
    BY <2>3 DEF Full
<1>8. FramesAgree' /\ Frame("L")' = f /\ \A y \in {"L", "L2"} \ {"L"} : Frame(y)' = Frame(y)
  <2>1. /\ frames' = WithFrame("L", f) /\ UNCHANGED way
        /\ pc' \in Running \cup {"caught4"} => pc \in Running \cup {"caught4"}
        /\ pc' \in Running => pc \in Running
    BY <1>1, <1>2
  <2> HIDE DEF f
  <2> QED
    BY <1>6, <1>7, <2>1, FrameSet
<1>9. ResultsAgree'
  <2> PICK k : k = n + 1
    OBVIOUS
  <2>1. UnderCopies' = UnderCopies /\ Under' = Under /\ Func' = Func
    BY <1>1 DEF UnderCopies, Under, Func
  <2>2. Frame("L")' = UnderCopies' \o SubSeq(results', 1, k)
    BY <1>1, <1>5, <1>8, <2>1
  <2>3. way' = "lua" => Frame("L2")' = Under' \o results'
    BY <1>1, <1>4, <1>8, <2>1 DEF ResultsCopied
  <2>4. IsPassed(results, k)'
    BY <1>1, <1>2, <1>3, <1>4 DEF ResultsCopied, IsPassed
  <2>5. /\ next' \in Nat /\ next' = Func' + k /\ k \in 0 .. Len(results')
        /\ last' = Func' - 1 + Len(results') /\ Func' \in Nat
    BY <1>1, <1>2, <1>3, <1>4, <2>1 DEF ResultsCopied
  <2>6. ResultsCopied(k)'
    BY <2>2, <2>3, <2>4, <2>5 DEF ResultsCopied
  <2>7. (next - Func)' = k
    BY <2>5
  <2> QED
    BY <2>5, <2>6, <2>7 DEF ResultsAgree
<1>10. /\ WaysAgree' /\ timed' \in BOOLEAN /\ ListsAgree' /\ ArgsAgree' /\ CallbackAgrees'
       /\ ReturnAgrees' /\ GotAgrees' /\ ErrorAgrees' /\ OutcomeAgrees'
  BY <1>1 DEF DataInv, WaysAgree, Running, InCallback, ListsAgree, ArgsAgree, CallbackAgrees,
              ReturnAgrees, GotAgrees, ErrorAgrees, OutcomeAgrees, IsPassed
<1> QED
  BY <1>8, <1>9, <1>10 DEF DataInv

LEMMA EnteredData == ASSUME DataInv, Entered, fired' = "none" PROVE DataInv'
<1>1. /\ pc = "enter" /\ pc' = "args"
      /\ UNCHANGED <<way, timed, args, frames, next, last, error, outcome, got, results>>
  BY DEF Entered, callVars
<1>2. ArgsAgree'
  BY <1>1 DEF DataInv, ArgsAgree, ArgsCopied, FirstArg, Frame, Callee, Under, CallerKeepsArgs,
              IsPassed
<1>3. /\ WaysAgree' /\ timed' \in BOOLEAN /\ FramesAgree' /\ ListsAgree' /\ CallbackAgrees'
      /\ ReturnAgrees' /\ ResultsAgree' /\ GotAgrees' /\ ErrorAgrees' /\ OutcomeAgrees'
  BY <1>1 DEF DataInv, WaysAgree, Running, InCallback, FramesAgree, ListsAgree, CallbackAgrees,
              ReturnAgrees, ResultsAgree, GotAgrees, ErrorAgrees, OutcomeAgrees
<1> QED
  BY <1>2, <1>3 DEF DataInv

(* The frames of a function that is called on top of others. *)
LEMMA Called ==
  ASSUME NEW S, NEW s \in Seq(S), NEW t \in Seq(S), Len(t) >= 1
  PROVE  s \o t \in Seq(S) /\ Len(s \o t) = Len(s) + Len(t) /\ Last(s \o t) = Last(t)
<1>1. s \o t \in Seq(S) /\ Len(s \o t) = Len(s) + Len(t)
  BY ConcatProperties
<1>2. Len(t) \in 1 .. Len(t) /\ Len(s) \in Nat /\ Len(t) \in Nat
  OBVIOUS
<1>3. (s \o t)[Len(s) + Len(t)] = t[Len(t)]
  BY <1>2, Halves
<1> QED
  BY <1>1, <1>3 DEF Last

LEMMA StartFrames ==
  ASSUME NEW w \in {"lua", "self", "native"}, NEW isTimed \in BOOLEAN, NEW as \in Seq(Values),
         Start(w, isTimed, as)
  PROVE  /\ FramesAgree'
         /\ Frame("L")' = CallerFrame(isTimed, as) \o (IF w = "self" THEN <<"callback">> ELSE <<>>)
         /\ w # "self" => Frame("L2")' = CalleeFrame(w)
<1> DEFINE f == CallerFrame(isTimed, as)
           g == IF w = "self" THEN f \o <<"callback">> ELSE f
           t == CASE w = "lua" -> <<<<"this", "handler">>, CalleeFrame(w)>>
                  [] w = "self" -> <<>>
                  [] w = "native" -> <<CalleeFrame(w)>>
           l2 == CASE w = "lua" -> Resting \o <<<<"this", "handler">>, CalleeFrame(w)>>
                   [] w = "self" -> Resting
                   [] w = "native" -> Resting \o <<CalleeFrame(w)>>
<1>1. frames' = [L |-> <<g>>, L2 |-> l2] /\ way' = w
  BY DEF Start
<1>2. {"kept", "this", "ud3a", "handler", "callback"} \subseteq Cells
  BY DEF Cells
<1>3. f \in Seq(Cells) /\ f \in Full
  BY CallerFrameIs
<1>4. g \in Full /\ g = f \o (IF w = "self" THEN <<"callback">> ELSE <<>>)
  <2>1. f \o <<>> = f
    BY <1>3, ConcatEmptySeq
  <2>2. <<"callback">> \in Seq(Cells) /\ Len(<<"callback">>) = 1
    BY <1>2
  <2>3. f \o <<"callback">> \in Seq(Cells) /\ Len(f \o <<"callback">>) = Len(f) + 1
    BY <1>3, <2>2, ConcatProperties
  <2>4. Len(f) \in Nat
    BY <1>3, LenProperties
  <2> HIDE DEF f
  <2>5. f \o <<"callback">> \in Full
    BY <2>3, <2>4 DEF Full
  <2> QED
    BY <1>3, <2>1, <2>5
<1>5. Resting \in Seq(Full) /\ Len(Resting) = 1
  <2>1. <<"kept">> \in Full
    BY <1>2 DEF Full
  <2> QED
    BY <2>1 DEF Resting
<1>6. t \in Seq(Full) /\ (w = "lua" => Len(t) = 2) /\ (w = "native" => Len(t) = 1)
      /\ (w # "self" => Last(t) = CalleeFrame(w))
  <2>1. <<"this", "handler">> \in Full /\ CalleeFrame(w) \in Full
    BY <1>2 DEF CalleeFrame, Full
  <2> QED
    BY <2>1 DEF Last
<1>7. l2 = IF w = "self" THEN Resting ELSE Resting \o t
  OBVIOUS
<1> HIDE DEF f, g, t, l2
<1>8. l2 \in Seq(Full) /\ Len(l2) >= 1 /\ (w = "lua" => Len(l2) >= 2)
      /\ (w # "self" => Last(l2) = CalleeFrame(w))
  <2>1. CASE w = "self"
    BY <1>5, <1>7, <2>1
  <2>2. CASE w # "self"
    <3>1. Len(t) >= 1
      BY <1>6, <2>2
    <3>2. Resting \o t \in Seq(Full) /\ Len(Resting \o t) = Len(Resting) + Len(t)
          /\ Last(Resting \o t) = Last(t)
      BY <1>5, <1>6, <3>1, Called
    <3> QED
      BY <1>5, <1>6, <1>7, <2>2, <3>1, <3>2
  <2> QED
    BY <2>1, <2>2
<1>9. <<g>> \in Seq(Full) /\ Len(<<g>>) = 1 /\ Last(<<g>>) = g
  BY <1>4, OneFrame
<1>10. frames'["L"] = <<g>> /\ frames'["L2"] = l2
       /\ frames' \in [{"L", "L2"} -> Seq(Full)]
  <2>1. \A u, v \in Seq(Full) : LET h == [L |-> u, L2 |-> v] IN
          h["L"] = u /\ h["L2"] = v /\ h \in [{"L", "L2"} -> Seq(Full)]
    OBVIOUS
  <2> QED
    BY <1>1, <1>8, <1>9, <2>1
<1>11. FramesAgree'
  BY <1>1, <1>8, <1>9, <1>10 DEF FramesAgree
<1>12. Frame("L")' = g /\ (w # "self" => Frame("L2")' = CalleeFrame(w))
  BY <1>8, <1>9, <1>10 DEF Frame
<1> QED
  BY <1>4, <1>11, <1>12 DEF f

LEMMA OneMore ==
  ASSUME NEW S, NEW s \in Seq(S), NEW e \in S, NEW t \in Seq(S), Len(t) = Len(s) + 1,
         \A i \in 1 .. Len(s) : t[i] = s[i], t[Len(s) + 1] = e
  PROVE  s \o <<e>> = t
<1> DEFINE r == Append(s, e)
<1>1. r = s \o <<e>>
  BY AppendIsConcat
<1>2. r \in Seq(S) /\ Len(r) = Len(s) + 1 /\ (\A i \in 1 .. Len(s) : r[i] = s[i])
      /\ r[Len(s) + 1] = e
  BY AppendProperties
<1> HIDE DEF r
<1>3. \A i \in 1 .. Len(r) : r[i] = t[i]
  BY <1>2
<1>4. r = t
  BY <1>2, <1>3, SeqEqual
<1> QED
  BY <1>1, <1>4

LEMMA StartData ==
  ASSUME DataInv, NEW w \in {"lua", "self", "native"}, NEW isTimed \in BOOLEAN, NEW as \in Lists,
         Start(w, isTimed, as), fired' = "none"
  PROVE  DataInv'
<1> DEFINE f == CallerFrame(isTimed, as)
<1>1. /\ pc = "idle" /\ pc' = "enter" /\ way' = w /\ timed' = isTimed /\ args' = as
      /\ next' = FirstArg(isTimed) /\ last' = Len(f) /\ UNCHANGED <<outcome, got, results>>
  BY DEF Start
<1>2. as \in Seq(Values)
  BY ListsAreSeqs
<1>3. f \in Seq(Cells) /\ Len(f) = FirstArg(isTimed) - 1 + Len(as) /\ Len(as) \in Nat
  BY <1>2, CallerFrameIs, LenProperties
<1>4. /\ FramesAgree'
      /\ Frame("L")' = f \o (IF w = "self" THEN <<"callback">> ELSE <<>>)
      /\ w # "self" => Frame("L2")' = CalleeFrame(w)
  BY <1>2, StartFrames
<1>5. Frame(Callee)' = Under' \o <<"callback">> /\ Under' \o <<"callback">> \in Seq(Cells)
  <2>1. {"this", "ud3a", "handler", "callback"} \subseteq Cells
    BY DEF Cells
  <2>2. <<"callback">> \in Seq(Cells)
    BY <2>1
  <2>3. CASE w = "self"
    <3>1. f \o <<"callback">> \in Seq(Cells)
      BY <1>3, <2>2, ConcatProperties
    <3> QED
      BY <1>1, <1>4, <2>3, <3>1 DEF Callee, Under
  <2>4. CASE w = "lua"
    <3> DEFINE u == <<"this">>
               v == <<"this", "callback">>
    <3>0. /\ u \in Seq(Cells) /\ v \in Seq(Cells) /\ "callback" \in Cells /\ Len(v) = Len(u) + 1
          /\ (\A i \in 1 .. Len(u) : v[i] = u[i]) /\ v[Len(u) + 1] = "callback"
      BY <2>1
    <3> HIDE DEF u, v
    <3>1. u \o <<"callback">> = v
      BY <3>0, OneMore
    <3> QED
      BY <1>1, <1>4, <2>4, <3>0, <3>1 DEF Callee, Under, CalleeFrame, u, v
  <2>5. CASE w = "native"
    <3> DEFINE u == <<"ud3a", "handler">>
               v == <<"ud3a", "handler", "callback">>
    <3>0. /\ u \in Seq(Cells) /\ v \in Seq(Cells) /\ "callback" \in Cells /\ Len(v) = Len(u) + 1
          /\ (\A i \in 1 .. Len(u) : v[i] = u[i]) /\ v[Len(u) + 1] = "callback"
      BY <2>1
    <3> HIDE DEF u, v
    <3>1. u \o <<"callback">> = v
      BY <3>0, OneMore
    <3> QED
      BY <1>1, <1>4, <2>5, <3>0, <3>1 DEF Callee, Under, CalleeFrame, u, v
  <2> QED
    BY <2>3, <2>4, <2>5
<1>6. CallerKeepsArgs'
  <2>1. f \o <<>> = f
    BY <1>3, ConcatEmptySeq
  <2> QED
    BY <1>1, <1>4, <2>1 DEF CallerKeepsArgs
<1>7. ArgsAgree'
  <2>1. (Under' \o <<"callback">>) \o SubSeq(as, 1, 0) = Under' \o <<"callback">>
    <3> DEFINE u == Under' \o <<"callback">>
    <3>1. u \in Seq(Cells) /\ SubSeq(as, 1, 0) = <<>>
      BY <1>5, SubSeqEmpty
    <3> HIDE DEF u
    <3>2. u \o SubSeq(as, 1, 0) = u
      BY <3>1, ConcatEmptySeq
    <3> QED
      BY <3>2 DEF u
  <2>2. Frame(Callee)' = Under' \o <<"callback">> \o SubSeq(args', 1, 0)
    BY <1>1, <1>5, <2>1
  <2>3. FirstArg(timed)' = FirstArg(isTimed) /\ FirstArg(isTimed) \in Nat
    BY <1>1 DEF FirstArg
  <2>4. got' = <<>>
    BY <1>1 DEF DataInv, GotAgrees
  <2>5. ArgsCopied(0)'
    <3>1. /\ 0 \in 0 .. Len(args') /\ next' = FirstArg(timed)' + 0
          /\ last' = FirstArg(timed)' - 1 + Len(args')
      <4> HIDE DEF f
      <4>1. args' = as /\ next' = FirstArg(isTimed) /\ last' = FirstArg(isTimed) - 1 + Len(as)
        BY <1>1, <1>3
      <4>2. PICK k \in Nat : k = FirstArg(isTimed)
        BY <2>3
      <4>3. PICK l \in Nat : l = Len(as)
        BY <1>3
      <4>4. 0 \in 0 .. Len(args')
        <5>1. args' = as
          BY <4>1
        <5>2. Len(args') = l
          BY <4>3, <5>1
        <5>3. 0 \in 0 .. l
          OBVIOUS
        <5> QED
          BY <5>2, <5>3
      <4>5. next' = FirstArg(timed)' + 0
        BY <2>3, <4>1, <4>2
      <4>6. last' = FirstArg(timed)' - 1 + Len(args')
        BY <2>3, <4>1, <4>2, <4>3
      <4> QED
        BY <4>4, <4>5, <4>6
    <3>2. IsPassed(args, 0)'
      BY DEF IsPassed
    <3> QED
      BY <1>6, <2>2, <2>4, <3>1, <3>2 DEF ArgsCopied
  <2>6. (next - FirstArg(timed))' = 0 /\ next' \in Nat
    BY <1>1, <2>3
  <2> QED
    BY <2>5, <2>6 DEF ArgsAgree
<1>8. /\ WaysAgree' /\ timed' \in BOOLEAN /\ ListsAgree' /\ CallbackAgrees'
      /\ ReturnAgrees' /\ ResultsAgree' /\ GotAgrees' /\ ErrorAgrees' /\ OutcomeAgrees'
  BY <1>1, <1>2 DEF DataInv, WaysAgree, Running, InCallback, ListsAgree, CallbackAgrees,
                    ReturnAgrees, ResultsAgree, GotAgrees, ErrorAgrees, OutcomeAgrees
<1> QED
  BY <1>4, <1>7, <1>8 DEF DataInv

-----------------------------------------------------------------------------
(* The way back *)

Typed(f) == f \in [{"L", "L2"} -> Seq(Full)] /\ Len(f["L2"]) >= 1

LEMMA FirstOfFrame ==
  ASSUME NEW s \in Full
  PROVE  SubSeq(s, 1, 1) \in Full
<1>1. s \in Seq(Cells) /\ Len(s) \in Nat /\ Len(s) >= 1
  BY DEF Full
<1>2. 1 \in 0 .. Len(s)
  BY <1>1
<1>3. SubSeq(s, 1, 1) \in Seq(Cells) /\ Len(SubSeq(s, 1, 1)) = 1
  BY <1>1, <1>2, Prefix
<1> QED
  BY <1>3 DEF Full

LEMMA UnwoundIsTyped ==
  ASSUME FramesAgree
  PROVE  Typed(Unwound)
<1> DEFINE r == SubSeq(frames["L2"], 1, 1)
<1>1. /\ frames \in [{"L", "L2"} -> Seq(Full)] /\ frames["L2"] \in Seq(Full)
      /\ Len(frames["L2"]) \in Nat /\ Len(frames["L2"]) >= 1
  BY DEF FramesAgree
<1>2. 1 \in 0 .. Len(frames["L2"])
  BY <1>1
<1>3. r \in Seq(Full) /\ Len(r) = 1
  BY <1>1, <1>2, Prefix
<1>4. Unwound = [frames EXCEPT !["L2"] = r]
  BY DEF Unwound
<1> HIDE DEF r
<1>5. Unwound \in [{"L", "L2"} -> Seq(Full)] /\ Unwound["L2"] = r
  BY <1>1, <1>3, <1>4
<1>6. Len(Unwound["L2"]) = 1
  BY <1>3, <1>5
<1>7. 1 >= 1
  OBVIOUS
<1> QED
  BY <1>5, <1>6, <1>7 DEF Typed

LEMMA SetTopIsTyped ==
  ASSUME NEW f, Typed(f)
  PROVE  Typed(SetTop(f, l2start))
<1> DEFINE s == f["L2"]
           r == Append(Front(s), SubSeq(Last(s), 1, 1))
<1>1. f \in [{"L", "L2"} -> Seq(Full)] /\ s \in Seq(Full) /\ Len(s) >= 1
  BY DEF Typed
<1>2. Last(s) \in Full
  <2>1. Len(s) \in 1 .. Len(s)
    BY <1>1
  <2> HIDE DEF s
  <2> QED
    BY <1>1, <2>1, ElementOfSeq DEF Last
<1>3. r \in Seq(Full) /\ Len(r) >= 1
  <2>1. SubSeq(Last(s), 1, 1) \in Full
    BY <1>2, FirstOfFrame
  <2> HIDE DEF s
  <2> QED
    BY <1>1, <2>1, Replaced
<1>4. SetTop(f, l2start) = [f EXCEPT !["L2"] = r]
  BY Restored DEF SetTop
<1> HIDE DEF r, s
<1> QED
  BY <1>1, <1>3, <1>4 DEF Typed

LEMMA LeftIsTyped ==
  ASSUME NEW f, Typed(f)
  PROVE  Typed(Left(f))
<1>1. <<>> \in Seq(Full) /\ f \in [{"L", "L2"} -> Seq(Full)]
  BY DEF Typed
<1>2. Left(f) \in [{"L", "L2"} -> Seq(Full)] /\ Left(f)["L2"] = f["L2"]
  BY <1>1 DEF Left
<1> QED
  BY <1>2 DEF Typed

LEMMA MessageIsTyped ==
  ASSUME NEW f, Typed(f)
  PROVE  Typed([f EXCEPT !["L2"][1] = Append(@, "message")])
<1> DEFINE s == f["L2"]
           e == Append(s[1], "message")
           r == [s EXCEPT ![1] = e]
<1>1. f \in [{"L", "L2"} -> Seq(Full)] /\ s \in Seq(Full) /\ Len(s) >= 1 /\ 1 \in 1 .. Len(s)
  BY DEF Typed
<1> HIDE DEF s
<1>2. e \in Full
  <2>1. s[1] \in Seq(Cells) /\ "message" \in Cells
    BY <1>1, ElementOfSeq DEF Full, Cells
  <2>2. e \in Seq(Cells) /\ Len(e) = Len(s[1]) + 1 /\ Len(s[1]) \in Nat
    BY <2>1, AppendProperties
  <2> QED
    BY <2>2 DEF Full
<1> HIDE DEF e
<1>3. r \in Seq(Full) /\ Len(r) = Len(s)
  BY <1>1, <1>2, ExceptSeq
<1> HIDE DEF r
<1>4. [f EXCEPT !["L2"] = r] \in [{"L", "L2"} -> Seq(Full)] /\ [f EXCEPT !["L2"] = r]["L2"] = r
  BY <1>1, <1>3
<1> QED
  BY <1>1, <1>3, <1>4 DEF Typed, r, e, s

(* lua_pcall() in MtState_callCall3 was left, or not entered. *)
LEMMA FrontIsTyped ==
  ASSUME DataInv, way = "lua", pc \in Running \cup {"caught4"},
         frames' = [frames EXCEPT !["L2"] = Front(@)]
  PROVE  Typed(frames')
<1>1. /\ frames \in [{"L", "L2"} -> Seq(Full)] /\ frames["L2"] \in Seq(Full)
      /\ Len(frames["L2"]) >= 2
  BY DEF DataInv, FramesAgree
<1>2. Front(frames["L2"]) \in Seq(Full) /\ Len(Front(frames["L2"])) = Len(frames["L2"]) - 1
  BY <1>1, Popped
<1>3. frames' = [frames EXCEPT !["L2"] = Front(frames["L2"])]
  OBVIOUS
<1>4. Len(Front(frames["L2"])) >= 1
  BY <1>1, <1>2
<1> QED
  BY <1>1, <1>2, <1>3, <1>4 DEF Typed

(* The error goes back, as it is or as another one that names no value. *)
LEMMA BackSteps ==
  ASSUME DataInv, CaughtByCallCall3 \/ Caught2 \/ MessageFails, fired' = "none"
  PROVE  DataInv'
<1>1. /\ pc \in {"caught4", "caught2"} /\ pc' \in {"caught2", "caught"} /\ way = "lua"
      /\ UNCHANGED <<way, timed, args, outcome, got, results>>
      /\ error' = error \/ error' = Error("raw", error.index)
  BY DEF CaughtByCallCall3, Caught2, MessageFails, callVars, DataInv, WaysAgree
<1>2. Typed(frames')
  <2>1. CASE CaughtByCallCall3
    BY <1>1, <2>1, FrontIsTyped DEF CaughtByCallCall3
  <2>2. CASE Caught2 \/ MessageFails
    BY <2>2, UnwoundIsTyped, MessageIsTyped DEF Caught2, MessageFails, DataInv
  <2> QED
    BY <2>1, <2>2
<1>3. FramesAgree'
  BY <1>1, <1>2 DEF FramesAgree, Typed, Running, InCallback
<1>4. ErrorAgrees'
  BY <1>1 DEF DataInv, ErrorAgrees, Names, FirstRefused, Error
<1>5. WaysAgree'
  BY <1>1 DEF DataInv, WaysAgree
<1>6. /\ timed' \in BOOLEAN /\ ListsAgree' /\ ArgsAgree' /\ CallbackAgrees'
      /\ ReturnAgrees' /\ ResultsAgree' /\ GotAgrees' /\ OutcomeAgrees'
  BY <1>1 DEF DataInv, ListsAgree, ArgsAgree, CallbackAgrees, ReturnAgrees, ResultsAgree,
              GotAgrees, OutcomeAgrees
<1> QED
  BY <1>3, <1>4, <1>5, <1>6 DEF DataInv

LEMMA AnswerData ==
  ASSUME DataInv, NEW o, Answer(o), fired' = "none", Typed(frames'),
         (ValuesArrive /\ ErrorsNameTheValue)'
  PROVE  DataInv'
<1>1. /\ pc' = "done" /\ UNCHANGED <<way, timed, args, error, got, results>>
  BY DEF Answer, callVars
<1>2. FramesAgree'
  BY <1>1 DEF FramesAgree, Typed, Running, InCallback
<1>3. /\ WaysAgree' /\ timed' \in BOOLEAN /\ ListsAgree' /\ ArgsAgree' /\ CallbackAgrees'
      /\ ReturnAgrees' /\ ResultsAgree' /\ GotAgrees' /\ ErrorAgrees' /\ OutcomeAgrees'
  BY <1>1 DEF DataInv, WaysAgree, ListsAgree, ArgsAgree, CallbackAgrees, ReturnAgrees,
              ResultsAgree, GotAgrees, ErrorAgrees, OutcomeAgrees
<1> QED
  BY <1>2, <1>3 DEF DataInv

LEMMA ErrorOutcome ==
  ASSUME NEW o, Answer(o), o.kind # "ok", Names(o)
  PROVE  (ValuesArrive /\ ErrorsNameTheValue)'
<1>1. /\ pc' = "done" /\ outcome' = o
      /\ UNCHANGED <<way, timed, args, error, got, results>>
  BY DEF Answer, callVars
<1>2. ValuesArrive'
  BY <1>1 DEF ValuesArrive
<1>3. ErrorsNameTheValue'
  BY <1>1 DEF ErrorsNameTheValue, Names, FirstRefused
<1> QED
  BY <1>2, <1>3

LEMMA ErrorEnds ==
  ASSUME DataInv, Caught \/ NativeError \/ NativeDoesNotFit, fired' = "none"
  PROVE  DataInv'
<1>1. CASE Caught
  <2>1. Answer(error) /\ pc = "caught"
    BY <1>1 DEF Caught
  <2>2. Typed(frames)
    BY DEF DataInv, FramesAgree, Typed
  <2>3. Typed(frames')
    BY <1>1, <2>2, SetTopIsTyped, LeftIsTyped DEF Caught
  <2> QED
    BY <2>1, <2>3, ErrorOutcome, AnswerData DEF DataInv, ErrorAgrees
<1>2. CASE NativeError
  <2>1. Answer(error) /\ pc = "caught2"
    BY <1>2 DEF NativeError
  <2>2. Typed(Unwound)
    BY UnwoundIsTyped DEF DataInv
  <2>3. Typed(frames')
    BY <1>2, <2>2, MessageIsTyped, SetTopIsTyped, LeftIsTyped DEF NativeError
  <2> QED
    BY <2>1, <2>3, ErrorOutcome, AnswerData DEF DataInv, ErrorAgrees
<1>3. CASE NativeDoesNotFit
  <2> DEFINE o == Error("memory", 0)
  <2>1. Answer(o) /\ UNCHANGED frames
    BY <1>3 DEF NativeDoesNotFit
  <2>2. Typed(frames')
    BY <2>1 DEF DataInv, FramesAgree, Typed
  <2>3. o.kind # "ok" /\ Names(o)
    BY DEF Error, Names
  <2> HIDE DEF o
  <2> QED
    BY <2>1, <2>2, <2>3, ErrorOutcome, AnswerData
<1> QED
  BY <1>1, <1>2, <1>3

LEMMA AllPassed ==
  ASSUME NEW values \in Seq(Values), IsPassed(values, Len(values))
  PROVE  Unsupported \cap ToSet(values) = {}
<1>1. DOMAIN values = 1 .. Len(values)
  OBVIOUS
<1> QED
  BY <1>1, TransferAssumption DEF IsPassed, ToSet

LEMMA ReturnedData == ASSUME DataInv, Returned, fired' = "none" PROVE DataInv'
<1> DEFINE f == Frame("L")
           t == IF timed THEN <<True>> ELSE <<>>
           nrslts == last - Func + 1 + (IF timed THEN 1 ELSE 0)
           vs == IF way = "native" THEN <<>> ELSE SubSeq(f, Len(f) - nrslts + 1, Len(f))
           o == [kind |-> "ok", values |-> vs]
<1>1. Leaving /\ Answer(o)
  BY DEF Returned
<1>2. /\ pc' = "done" /\ outcome' = o /\ UNCHANGED <<way, timed, args, got, results>>
  BY <1>1 DEF Answer, callVars
<1>3. Typed(frames')
  <2>1. Typed(frames) /\ Typed(Unwound)
    BY UnwoundIsTyped DEF DataInv, FramesAgree, Typed
  <2> QED
    BY <2>1, SetTopIsTyped, LeftIsTyped DEF Returned
<1>4. args \in Seq(Values) /\ results \in Seq(Values) /\ IsPassed(args, Len(args))
  BY <1>1 DEF Leaving, DataInv, ListsAgree, GotAgrees
<1>5. way # "native" => vs = t \o results /\ IsPassed(results, Len(results))
  <2> SUFFICES ASSUME way # "native"
               PROVE  vs = t \o results /\ IsPassed(results, Len(results))
    OBVIOUS
  <2> PICK n : n = next - Func
    OBVIOUS
  <2>1. pc = "results" /\ next > last /\ ResultsCopied(n) /\ next \in Nat
    BY <1>1 DEF Leaving, DataInv, ResultsAgree
  <2>2. /\ CallerReturns \in Seq(Cells) /\ UnderCopies = CallerReturns \o t /\ t \in Seq(Cells)
        /\ results \in Seq(Cells) /\ Len(results) \in Nat /\ Func \in Nat
    BY CopiesAre, UnderIs
  <2>3. n = Len(results) /\ last = Func - 1 + Len(results)
    BY <2>1, <2>2 DEF ResultsCopied
  <2>4. SubSeq(results, 1, n) = results
    BY <2>2, <2>3, SubSeqFull
  <2>5. f = (CallerReturns \o t) \o results
    BY <2>1, <2>2, <2>4 DEF ResultsCopied
  <2>6. Len(t) = IF timed THEN 1 ELSE 0
    OBVIOUS
  <2>7. nrslts = Len(results) + Len(t)
    BY <2>2, <2>3, <2>6
  <2> HIDE DEF t, f
  <2> DEFINE u == t \o results
  <2>8. u \in Seq(Cells) /\ Len(u) = Len(t) + Len(results) /\ Len(t) \in Nat
    BY <2>2, ConcatProperties
  <2>9. f = CallerReturns \o u
    <3>1. CallerReturns \in Seq(Cells) /\ t \in Seq(Cells) /\ results \in Seq(Cells)
      BY <2>2
    <3>2. (CallerReturns \o t) \o results = CallerReturns \o (t \o results)
      BY <3>1, ConcatAssociative
    <3> QED
      BY <2>5, <3>2
  <2> HIDE DEF u
  <2>10. Len(f) = Len(CallerReturns) + Len(u) /\ Len(CallerReturns) \in Nat
    <3>1. CallerReturns \in Seq(Cells) /\ u \in Seq(Cells)
      BY <2>2, <2>8
    <3>2. Len(CallerReturns \o u) = Len(CallerReturns) + Len(u)
      BY <3>1, ConcatProperties
    <3> QED
      BY <2>9, <3>1, <3>2, LenProperties
  <2>11. SubSeq(f, Len(CallerReturns) + 1, Len(CallerReturns) + Len(u)) = u
    BY <2>2, <2>8, <2>9, Halves
  <2>12. Len(f) - nrslts + 1 = Len(CallerReturns) + 1
    BY <2>2, <2>7, <2>8, <2>10
  <2> QED
    BY <2>1, <2>3, <2>10, <2>11, <2>12 DEF u, ResultsCopied
<1>6. ValuesArrive'
  BY <1>2, <1>5 DEF ValuesArrive
<1>7. ErrorsNameTheValue'
  <2>1. Unsupported \cap ToSet(args) = {}
    BY <1>4, AllPassed
  <2>2. way # "native" => Unsupported \cap ToSet(results) = {}
    BY <1>4, <1>5, AllPassed
  <2>3. outcome'.kind = "ok"
    BY <1>2
  <2> QED
    BY <1>2, <2>1, <2>2, <2>3 DEF ErrorsNameTheValue
<1> HIDE DEF o
<1> QED
  BY <1>1, <1>3, <1>6, <1>7, AnswerData

LEMMA ForgetData == ASSUME DataInv, Forget, fired' = "none" PROVE DataInv'
<1>1. /\ pc = "done" /\ pc' = "idle" /\ way' = "lua" /\ timed' = FALSE /\ args' = <<>>
      /\ outcome' = None /\ got' = <<>> /\ results' = <<>> /\ UNCHANGED frames
  BY DEF Forget
<1>2. <<>> \in Seq(Values)
  OBVIOUS
<1>3. FramesAgree'
  BY <1>1 DEF DataInv, FramesAgree, Running, InCallback
<1>4. /\ WaysAgree' /\ timed' \in BOOLEAN /\ ListsAgree' /\ ArgsAgree' /\ CallbackAgrees'
      /\ ReturnAgrees' /\ ResultsAgree' /\ GotAgrees' /\ ErrorAgrees' /\ OutcomeAgrees'
  BY <1>1, <1>2 DEF DataInv, WaysAgree, ListsAgree, ArgsAgree, CallbackAgrees, ReturnAgrees,
                    ResultsAgree, GotAgrees, ErrorAgrees, OutcomeAgrees
<1> QED
  BY <1>3, <1>4 DEF DataInv

LEMMA InitDataInv == InterruptInit => DataInv
<1> SUFFICES ASSUME InterruptInit PROVE DataInv
  OBVIOUS
<1>1. /\ pc = "idle" /\ way = "lua" /\ frames = [L |-> <<>>, L2 |-> Resting] /\ timed = FALSE
      /\ args = <<>> /\ got = <<>> /\ results = <<>> /\ outcome = None /\ fired = "none"
  BY DEF InterruptInit, TransferInit
<1>2. Resting \in Seq(Full) /\ Len(Resting) = 1 /\ <<>> \in Seq(Full)
  <2>1. <<"kept">> \in Full
    BY DEF Full, Cells
  <2> QED
    BY <2>1 DEF Resting
<1>3. \A u, v \in Seq(Full) : LET h == [L |-> u, L2 |-> v] IN
          h["L2"] = v /\ h \in [{"L", "L2"} -> Seq(Full)]
  OBVIOUS
<1>4. FramesAgree
  <2>1. frames \in [{"L", "L2"} -> Seq(Full)] /\ frames["L2"] = Resting
    BY <1>1, <1>2, <1>3
  <2> QED
    BY <1>1, <1>2, <2>1 DEF FramesAgree, Running, InCallback
<1>5. <<>> \in Seq(Values)
  OBVIOUS
<1>6. /\ WaysAgree /\ timed \in BOOLEAN /\ ListsAgree /\ ArgsAgree /\ CallbackAgrees
      /\ ReturnAgrees /\ ResultsAgree /\ GotAgrees /\ ErrorAgrees /\ OutcomeAgrees
  BY <1>1, <1>5 DEF WaysAgree, ListsAgree, ArgsAgree, CallbackAgrees, ReturnAgrees,
                    ResultsAgree, GotAgrees, ErrorAgrees, OutcomeAgrees
<1> QED
  BY <1>4, <1>6 DEF DataInv

(* What no variable of the call but the hook changes. *)
LEMMA SameData ==
  ASSUME DataInv, UNCHANGED transferVars, fired' # "none" => pc \in Running \/ InHandler
  PROVE  DataInv'
<1>1. UNCHANGED <<pc, way, timed, args, frames, next, last, error, outcome, got, results>>
  BY DEF transferVars, callVars
<1>2. ArgsAgree'
  BY <1>1 DEF DataInv, ArgsAgree, ArgsCopied, FirstArg, Frame, Callee, Under, CallerKeepsArgs,
              IsPassed
<1>3. ResultsAgree'
  BY <1>1 DEF DataInv, ResultsAgree, ResultsCopied, Func, Frame, Under, UnderCopies, IsPassed
<1>4. CallbackAgrees' /\ ReturnAgrees'
  BY <1>1 DEF DataInv, CallbackAgrees, ReturnAgrees, Frame, Callee, Under, CallerKeepsArgs
<1>5. WaysAgree' /\ timed' \in BOOLEAN /\ FramesAgree' /\ ListsAgree' /\ GotAgrees'
  BY <1>1 DEF DataInv, WaysAgree, InHandler, FramesAgree, ListsAgree, GotAgrees, IsPassed
<1>6. ErrorAgrees' /\ OutcomeAgrees'
  BY <1>1 DEF DataInv, ErrorAgrees, Names, FirstRefused, OutcomeAgrees, ValuesArrive,
              ErrorsNameTheValue
<1> QED
  BY <1>2, <1>3, <1>4, <1>5, <1>6 DEF DataInv

LEMMA OutsideCallCall3Data ==
  ASSUME DataInv, OutsideCallCall3, fired' = "none" PROVE DataInv'
<1>1. /\ way = "lua" /\ pc \in Running /\ pc' = "caught2" /\ error' = InvocationError
      /\ frames' = [frames EXCEPT !["L2"] = Front(@)]
      /\ UNCHANGED <<way, timed, args, next, last, outcome, got, results>>
  BY DEF OutsideCallCall3, Leaving, callVars, Running, InCallback
<1>2. Typed(frames')
  BY <1>1, FrontIsTyped
<1>3. FramesAgree'
  BY <1>1, <1>2 DEF FramesAgree, Typed, Running, InCallback
<1>4. ErrorAgrees'
  BY <1>1 DEF ErrorAgrees, Names, InvocationError, Error
<1>5. /\ WaysAgree' /\ timed' \in BOOLEAN /\ ListsAgree' /\ ArgsAgree' /\ CallbackAgrees'
      /\ ReturnAgrees' /\ ResultsAgree' /\ GotAgrees' /\ OutcomeAgrees'
  BY <1>1 DEF DataInv, WaysAgree, ListsAgree, ArgsAgree, CallbackAgrees, ReturnAgrees,
              ResultsAgree, GotAgrees, OutcomeAgrees, Running, InCallback
<1> QED
  BY <1>3, <1>4, <1>5 DEF DataInv

LEMMA HooksData ==
  ASSUME DataInv, interruptHook1 \/ interruptHook2
  PROVE  DataInv'
<1>1. RaiseInterrupted /\ fired # "none"
  BY DEF interruptHook1, interruptHook2
<1>2. /\ fired' = "none"
      /\ \/ UNCHANGED transferVars
         \/ RefuseArg \/ RefuseResult \/ OutsideCallCall3
         \/ pc \in Running /\ Raise(InvocationError, Callee) /\ UNCHANGED <<msgVars, got>>
  BY <1>1, InterruptedAt DEF DataInv
<1>3. CASE UNCHANGED transferVars
  BY <1>2, <1>3, SameData
<1>4. CASE pc \in Running /\ Raise(InvocationError, Callee) /\ UNCHANGED got
  <2>1. InvocationError.kind # "ok" /\ Names(InvocationError)
    BY DEF InvocationError, Error, Names
  <2> QED
    BY <1>2, <1>4, <2>1, RaiseData
<1> QED
  BY <1>2, <1>3, <1>4, RefuseArgData, RefuseResultData, OutsideCallCall3Data

LEMMA NextDataInv ==
  ASSUME DataInv, [InterruptNext]_<<transferVars, hookVars>>
  PROVE  DataInv'
<1>1. fired # "none" => pc \in Running \/ InHandler
  BY DEF DataInv, WaysAgree
<1>2. CASE UNCHANGED transferVars /\ (fired' = fired \/ HookFires)
  BY <1>1, <1>2, SameData DEF HookFires, Leaving, Cloning, Running, InCallback
<1>3. CASE interruptHook1 \/ interruptHook2
  BY <1>3, HooksData
<1>4. CASE TransferNext /\ fired' = "none"
  <2>1. CASE \E w \in {"lua", "self", "native"}, isTimed \in BOOLEAN, as \in Lists :
               Start(w, isTimed, as)
    BY <1>4, <2>1, StartData
  <2>2. CASE PushArgStep
    BY <1>4, <2>2, CopyArgData, RefuseArgData, CopyResultData, RefuseResultData DEF PushArgStep
  <2>3. CASE LuaStep
    BY <1>4, <2>2, <2>3, EnteredData, CallbackReturnsData, OtherErrorsData, ReturnedData DEF LuaStep
  <2> QED
    BY <1>4, <2>1, <2>2, <2>3, OtherErrorsData, CallbackData, ResultsData,
       BackSteps, ErrorEnds, ForgetData
       DEF TransferNext, CStep
<1>5. \A flag : MtState_interrupt(flag) => UNCHANGED transferVars /\ fired' = fired
  BY DEF MtState_interrupt
<1>6. Protect => UNCHANGED transferVars /\ fired' = fired
  BY DEF Protect
<1>7. HookFires => UNCHANGED transferVars
  BY DEF HookFires
<1>8. UNCHANGED hookVars => fired' = fired
  BY DEF hookVars
<1> QED
  BY <1>2, <1>3, <1>4, <1>5, <1>6, <1>7, <1>8 DEF InterruptNext, TransferNext

LEMMA AlwaysDataInv == InterruptSpec => []DataInv
BY InitDataInv, NextDataInv, PTL DEF InterruptSpec

(* What goes in comes out, for any values and numbers of them, with every  *)
(* interrupt and every shortage of memory: the callback runs with the      *)
(* arguments of the call, and a call that succeeds gives its results back. *)
THEOREM ValuesGetThrough == InterruptSpec => []ValuesArrive
<1>1. DataInv => ValuesArrive
  BY DEF DataInv, GotAgrees, OutcomeAgrees, ValuesArrive, None
<1> QED
  BY <1>1, AlwaysDataInv, PTL

(* The error of a value that cannot be copied names the first such value,  *)
(* an argument before the callback runs, a result after that.              *)
THEOREM TheRightValueIsNamed == InterruptSpec => []ErrorsNameTheValue
<1>1. DataInv => ErrorsNameTheValue
  BY DEF DataInv, OutcomeAgrees, ErrorsNameTheValue, None
<1> QED
  BY <1>1, AlwaysDataInv, PTL

-----------------------------------------------------------------------------
(* The types of the variables, whoever's memory runs short *)

CountsInv ==
  /\ next \in Nat /\ last \in Nat /\ blocks \in Nat
  /\ errorMsg \in {"none", "buffer", "heap"}
  /\ errorMsg = "heap" => blocks >= 1

MessagesCounted ==
  /\ blocks \in Nat /\ errorMsg \in {"none", "buffer", "heap"}
  /\ errorMsg = "heap" => blocks >= 1

LEMMA MessageStepsCounted ==
  ASSUME CountsInv, setErrorMsg \/ freeErrorMsg \/ UNCHANGED msgVars
  PROVE  MessagesCounted'
BY DEF CountsInv, MessagesCounted, setErrorMsg, freeErrorMsg, Freed, msgVars

LEMMA IndicesKept ==
  ASSUME CountsInv, UNCHANGED <<next, last>>, setErrorMsg \/ freeErrorMsg \/ UNCHANGED msgVars
  PROVE  CountsInv'
BY MessageStepsCounted DEF CountsInv, MessagesCounted

LEMMA StartCounted ==
  ASSUME CountsInv, NEW w, NEW isTimed \in BOOLEAN, NEW as \in Lists, Start(w, isTimed, as)
  PROVE  CountsInv'
<1>1. CallerFrame(isTimed, as) \in Seq(Cells) /\ FirstArg(isTimed) \in Nat
  BY ListsAreSeqs, CallerFrameIs DEF FirstArg
<1>2. next' \in Nat /\ last' \in Nat
  BY <1>1, LenProperties DEF Start
<1>3. errorMsg' = "none" /\ blocks' = blocks
  BY DEF Start
<1> QED
  BY <1>2, <1>3 DEF CountsInv

LEMMA CopyCounted ==
  ASSUME DataInv, CountsInv, CopyArg \/ CopyResult
  PROVE  CountsInv'
<1>1. next' = next + 1 /\ UNCHANGED <<last, errorMsg, blocks>>
  BY DEF CopyArg, CopyResult, PushArg, msgVars
<1> QED
  BY <1>1 DEF CountsInv

LEMMA ResultsCounted ==
  ASSUME DataInv, CountsInv, Results
  PROVE  CountsInv'
<1>1. pc = "return" /\ next' = Func /\ last' = Len(Frame(Callee)) /\ UNCHANGED <<errorMsg, blocks>>
  BY DEF Results, LastResult, msgVars
<1>2. Func \in Nat
  BY UnderIs
<1>3. Callee \in {"L", "L2"} /\ Len(frames[Callee]) >= 1 /\ FramesAgree
  BY <1>1 DEF DataInv, FramesAgree, Running, InCallback, Callee
<1>4. PICK x \in {"L", "L2"} : x = Callee
  BY <1>3
<1>5. Frame(x) \in Seq(Cells)
  BY <1>3, <1>4, TopFrame
<1>6. last' \in Nat
  BY <1>1, <1>4, <1>5, LenProperties
<1> QED
  BY <1>1, <1>2, <1>6 DEF CountsInv

LEMMA RaiseCounted ==
  ASSUME CountsInv, NEW e, NEW x, Raise(e, x), setErrorMsg \/ UNCHANGED msgVars
  PROVE  CountsInv'
BY IndicesKept DEF Raise

LEMMA InitCounted == InterruptInit => CountsInv
BY DEF InterruptInit, TransferInit, CountsInv

LEMMA NextCounted ==
  ASSUME DataInv, CountsInv, [InterruptNext]_<<transferVars, hookVars>>
  PROVE  CountsInv'
<1>1. CASE UNCHANGED transferVars
  BY <1>1 DEF transferVars, msgVars, CountsInv
<1>2. CASE interruptHook1 \/ interruptHook2
  <2>1. \/ UNCHANGED transferVars
        \/ \E e, x : Raise(e, x) /\ (setErrorMsg \/ UNCHANGED msgVars)
        \/ UNCHANGED <<next, last, msgVars>>
    BY <1>2 DEF interruptHook1, interruptHook2, RaiseInterrupted, CallIsInterrupted,
                RefuseArg, RefuseResult, OutsideCallCall3
  <2> QED
    BY <1>1, <2>1, RaiseCounted, IndicesKept
<1>3. CASE \E w \in {"lua", "self", "native"}, isTimed \in BOOLEAN, as \in Lists :
             Start(w, isTimed, as)
  BY <1>3, StartCounted
<1>4. CASE RefuseArg \/ ArgsDoNotFit \/ CalleeFails \/ CallbackFails \/ RefuseResult
           \/ ResultsDoNotFit \/ CallerFails
  <2>1. \E e, x : Raise(e, x) /\ (setErrorMsg \/ UNCHANGED msgVars)
    BY <1>4 DEF RefuseArg, ArgsDoNotFit, CalleeFails, CallbackFails, RefuseResult,
                ResultsDoNotFit, CallerFails
  <2> QED
    BY <2>1, RaiseCounted
<1>5. CASE \/ Entered \/ Callback \/ (\E rs \in Lists : CallbackReturns(rs)) \/ Returned
           \/ CaughtByCallCall3 \/ Caught2 \/ MessageFails \/ NativeError \/ Caught
           \/ NativeDoesNotFit
  <2>1. UNCHANGED <<next, last>>
    BY <1>5 DEF Entered, Callback, CallbackReturns, Returned, CaughtByCallCall3, Caught2,
                MessageFails, NativeError, Caught, NativeDoesNotFit, Answer
  <2>2. setErrorMsg \/ freeErrorMsg \/ UNCHANGED msgVars
    BY <1>5 DEF Entered, Callback, CallbackReturns, Returned, CaughtByCallCall3, Caught2,
                MessageFails, NativeError, Caught, NativeDoesNotFit
  <2> QED
    BY <2>1, <2>2, IndicesKept
<1>6. CASE Forget
  <2>1. next' = 0 /\ last' = 0 /\ errorMsg' = "none" /\ blocks' = blocks
    BY <1>6 DEF Forget
  <2> QED
    BY <2>1 DEF CountsInv
<1>7. ASSUME TransferNext PROVE CountsInv'
  BY <1>3, <1>4, <1>5, <1>6, <1>7, CopyCounted, ResultsCounted
     DEF TransferNext, LuaStep, CStep, PushArgStep
<1>8. \A flag : MtState_interrupt(flag) => UNCHANGED transferVars
  BY DEF MtState_interrupt
<1>9. HookFires \/ Protect => UNCHANGED transferVars
  BY DEF HookFires, Protect
<1> QED
  BY <1>1, <1>2, <1>7, <1>8, <1>9 DEF InterruptNext, TransferNext

LEMMA FramesAreTyped ==
  ASSUME DataInv, NEW x \in {"L", "L2"}, NEW f \in DOMAIN frames[x]
  PROVE  ToSet(frames[x][f]) \subseteq Cells
<1>1. frames[x] \in Seq(Full)
  BY DEF DataInv, FramesAgree
<1>2. f \in 1 .. Len(frames[x])
  BY <1>1, LenProperties
<1>3. PICK s : s = frames[x][f]
  OBVIOUS
<1>4. s \in Full
  <2> HIDE DEF Full
  <2> QED
    BY <1>1, <1>2, <1>3, ElementOfSeq
<1>5. s \in Seq(Cells)
  BY <1>4 DEF Full
<1>6. \A i \in DOMAIN s : s[i] \in Cells
  <2> HIDE DEF Cells
  <2> QED
    BY <1>5, LenProperties, ElementOfSeq
<1> QED
  BY <1>3, <1>6 DEF ToSet

LEMMA TransferIsTyped == ASSUME DataInv, CountsInv PROVE TransferTypeOK
<1>1. /\ pc \in {"idle", "enter", "args", "callback", "return", "results",
                 "caught4", "caught2", "caught", "done"}
      /\ way \in {"lua", "self", "native"} /\ timed \in BOOLEAN
  BY DEF DataInv, WaysAgree, Running, InCallback
<1>2. {args, got, results} \subseteq Seq(Values)
  BY DEF DataInv, ListsAgree
<1>3. {next, last, blocks} \subseteq Nat /\ errorMsg \in {"none", "buffer", "heap"}
  BY DEF CountsInv
<1>4. \A x \in {"L", "L2"}, f \in {1, 2, 3} :
        f \in DOMAIN frames[x] => ToSet(frames[x][f]) \subseteq Cells
  BY FramesAreTyped
<1> QED
  BY <1>1, <1>2, <1>3, <1>4 DEF TransferTypeOK, Cells

LEMMA AlwaysTransferTyped == InterruptSpec => []TransferTypeOK
<1>1. InterruptInit => DataInv /\ CountsInv
  BY InitDataInv, InitCounted
<1>2. DataInv /\ CountsInv /\ [InterruptNext]_<<transferVars, hookVars>> => DataInv' /\ CountsInv'
  BY NextDataInv, NextCounted
<1>3. DataInv /\ CountsInv => TransferTypeOK
  BY TransferIsTyped
<1> QED
  BY <1>1, <1>2, <1>3, PTL DEF InterruptSpec

=============================================================================
