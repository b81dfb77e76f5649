--------------------------- MODULE StateCallProofs ---------------------------
(***************************************************************************)
(* Proofs that the safety properties of StateCall hold for any threads,    *)
(* any states, any kinds of call and any depth of nesting.                 *)
(***************************************************************************)
EXTENDS StateCall, SequenceTheorems, TLAPS

(* Taking the last element off a stack keeps the others where they are. *)
LEMMA PopFacts ==
  ASSUME NEW S, NEW q \in Seq(S), q # <<>>
  PROVE  /\ SubSeq(q, 1, Len(q) - 1) \in Seq(S)
         /\ Len(q) \in Nat \ {0}
         /\ Len(SubSeq(q, 1, Len(q) - 1)) = Len(q) - 1
         /\ \A i \in 1 .. Len(q) - 1 : SubSeq(q, 1, Len(q) - 1)[i] = q[i]
<1> DEFINE n == Len(q) - 1
<1>1. /\ Len(q) \in Nat \ {0} /\ \A i \in 1 .. Len(q) : q[i] \in S
      /\ n \in Nat /\ n \in Int /\ 1 \in Int
  OBVIOUS
<1>2. \A i \in 1 .. n : q[i] \in S
  BY <1>1
<1>3. SubSeq(q, 1, n) \in Seq(S)
  <2> HIDE DEF n
  <2> QED BY <1>1, <1>2, SubSeqProperties
<1>4. Len(SubSeq(q, 1, n)) = IF 1 <= n THEN n - 1 + 1 ELSE 0
  <2> HIDE DEF n
  <2> QED BY <1>1, <1>2, SubSeqProperties
<1>5. \A i \in 1 .. n : SubSeq(q, 1, n)[i] = q[i]
  <2> HIDE DEF n
  <2> QED BY <1>1, <1>2, SubSeqProperties
<1>6. Len(SubSeq(q, 1, n)) = n
  <2> HIDE DEF n
  <2>1. n \in Nat
    BY <1>1
  <2> DEFINE l == Len(SubSeq(q, 1, n))
  <2>2. l = IF 1 <= n THEN n - 1 + 1 ELSE 0
    BY <1>4
  <2> HIDE DEF l
  <2>3. l = n
    BY <2>1, <2>2
  <2> QED BY <2>3 DEF l
<1> QED BY <1>1, <1>3, <1>5, <1>6

(* Pushing puts the new element on top of the others. *)
LEMMA PushFacts ==
  ASSUME NEW S, NEW q \in Seq(S), NEW e \in S
  PROVE  /\ Append(q, e) \in Seq(S)
         /\ Len(q) \in Nat
         /\ Len(Append(q, e)) = Len(q) + 1
         /\ \A i \in 1 .. Len(q) : Append(q, e)[i] = q[i]
         /\ Append(q, e)[Len(q) + 1] = e
  OBVIOUS

(* The innermost call of a thread is a call of some state. *)
LEMMA TopFacts ==
  ASSUME VarTypes, NEW t \in Threads, stack[t] # <<>>
  PROVE  /\ Top(t) \in Frames /\ Top(t).state \in States
         /\ Len(stack[t]) \in 1 .. Len(stack[t])
         /\ Len(stack[t]) \in Nat
<1>1. stack[t] \in Seq(Frames)
  BY DEF VarTypes
<1>2. /\ Len(stack[t]) \in Nat /\ Len(stack[t]) # 0
      /\ \A i \in 1 .. Len(stack[t]) : stack[t][i] \in Frames
  BY <1>1
<1>3. Top(t) \in Frames
  BY <1>2 DEF Top
<1> QED BY <1>2, <1>3 DEF Frames

(* The first states are well typed. *)
LEMMA TypeOKInit == Init => TypeOK
<1> SUFFICES ASSUME Init PROVE TypeOK
  OBVIOUS
<1>1. stack \in [Threads -> Seq(Frames)]
  BY DEF Init
<1>2. owned \in [States -> SUBSET Threads]
  BY DEF Init
<1>3. VarTypes
  BY <1>1, <1>2 DEF Init, VarTypes, PCs, AllKinds
<1>4. \A t \in Threads : Placed(t)
  BY DEF Init, Placed
<1> QED BY <1>3, <1>4 DEF TypeOK

(* Every action writes values of the right types. *)
LEMMA VarTypesStep == TypeOK /\ [Next]_vars => VarTypes'
<1> SUFFICES ASSUME TypeOK, [Next]_vars PROVE VarTypes'
  OBVIOUS
<1> VarTypes
  BY DEF TypeOK
<1> USE CallAssumption DEF CallAssumption, PCs, AllKinds
<1>1. CASE UNCHANGED vars
  BY <1>1 DEF vars, VarTypes
<1>2. ASSUME NEW t \in Threads, NEW s \in States, NEW k \in Kinds, StartCall(t, s, k)
      PROVE  VarTypes'
  BY <1>2 DEF StartCall, EnterC, VarTypes
<1>3. ASSUME NEW t \in Threads, NEW s \in States, StartClose(t, s)
      PROVE  VarTypes'
  BY <1>3 DEF StartClose, EnterC, VarTypes
<1>4. ASSUME NEW t \in Threads, NEW s \in States, StartDrop(t, s)
      PROVE  VarTypes'
  BY <1>4 DEF StartDrop, EnterC, VarTypes
<1>5. ASSUME NEW t \in Threads, Return(t) PROVE VarTypes'
  <2>1. CASE Top(t).isSelfCall
    <3>1. stack' = [stack EXCEPT ![t] = Pop(t)] /\ stack[t] # <<>>
      BY <1>5, <2>1 DEF Return
    <3>2. Pop(t) \in Seq(Frames)
      BY <3>1, PopFacts, stack[t] \in Seq(Frames) DEF VarTypes, Pop
    <3> QED BY <1>5, <2>1, <3>1, <3>2 DEF Return, VarTypes
  <2>2. CASE ~Top(t).isSelfCall
    BY <1>5, <2>2 DEF Return, Goto, VarTypes
  <2> QED BY <2>1, <2>2
<1>6. ASSUME NEW t \in Threads, StopWaiting(t) PROVE VarTypes'
  BY <1>6 DEF StopWaiting, Goto, VarTypes
<1>7. ASSUME NEW t \in Threads, NEW s, NEW p \in PCs, NEW q \in PCs,
             LockMutex(t, s, p, q)
      PROVE  VarTypes'
  BY <1>7 DEF LockMutex, Goto, VarTypes
<1>8. ASSUME NEW t \in Threads, TrylockFails(t) PROVE VarTypes'
  BY <1>8 DEF TrylockFails, LeaveC, VarTypes
<1>9. ASSUME NEW t \in Threads, ObjectClosed(t) PROVE VarTypes'
  BY <1>9 DEF ObjectClosed, LeaveC, UnlockMutex, VarTypes
<1>10. ASSUME NEW t \in Threads, Enter(t) PROVE VarTypes'
  <2> DEFINE s == target[t]
             f == [state |-> s, isSelfCall |-> IsSelfCall(t, s)]
  <2>1. s \in States
    BY <1>10 DEF Enter, Looking, Holding, TypeOK, Placed, VarTypes
  <2>2. f \in Frames /\ Append(stack[t], f) \in Seq(Frames)
    <3>1. IsSelfCall(t, s) \in BOOLEAN
      BY DEF IsSelfCall
    <3>2. f \in Frames
      BY <2>1, <3>1 DEF Frames
    <3> QED BY <3>2, PushFacts, stack[t] \in Seq(Frames) DEF VarTypes
  <2>3. stack' = [stack EXCEPT ![t] = Append(stack[t], f)]
    BY <1>10 DEF Enter, VarTypes
  <2>4. stack' \in [Threads -> Seq(Frames)]
    BY <2>2, <2>3 DEF VarTypes
  <2> HIDE DEF f
  <2> QED BY <1>10, <2>1, <2>4 DEF Enter, UnlockMutex, VarTypes
<1>11. ASSUME NEW t \in Threads, Wait(t) PROVE VarTypes'
  BY <1>11 DEF Wait, UnlockMutex, Goto, VarTypes
<1>12. ASSUME NEW t \in Threads, TimeOut(t) PROVE VarTypes'
  BY <1>12 DEF TimeOut, UnlockMutex, LeaveC, VarTypes
<1>13. ASSUME NEW t \in Threads, Invoke(t) PROVE VarTypes'
  BY <1>13 DEF Invoke, Goto, VarTypes
<1>14. ASSUME NEW t \in Threads, End(t) PROVE VarTypes'
  <2>1. Pop(t) \in Seq(Frames)
    BY <1>14, PopFacts, stack[t] \in Seq(Frames) DEF VarTypes, Pop, End
  <2>2. PICK woken \in NotifyChoices(Top(t).state) :
          /\ waiting' = [waiting EXCEPT ![Top(t).state] = @ \ woken]
          /\ pc' = [u \in Threads |-> IF u = t THEN "run"
                                      ELSE IF u \in woken THEN "relock"
                                      ELSE pc[u]]
    BY <1>14 DEF End
  <2>3. pc' \in [Threads -> PCs] /\ waiting' \in [States -> SUBSET Threads]
    BY <2>2 DEF VarTypes
  <2> QED BY <1>14, <2>1, <2>3 DEF End, UnlockMutex, BusyAfterEnd, L2AfterEnd,
                                   VarTypes
<1>15. ASSUME NEW t \in Threads, Close(t) PROVE VarTypes'
  BY <1>15 DEF Close, UnlockMutex, LeaveC, CloseRefused, VarTypes
<1>16. ASSUME NEW t \in Threads, Drop(t) PROVE VarTypes'
  <2>1. L2AfterDrop(t, target[t]) \in BOOLEAN /\ ClosedAfterDrop(t, target[t]) \in BOOLEAN
    BY DEF L2AfterDrop, ClosedAfterDrop
  <2> QED BY <1>16, <2>1 DEF Drop, UnlockMutex, LeaveC, VarTypes
<1> QED
  BY <1>1, <1>2, <1>3, <1>4, <1>5, <1>6, <1>7, <1>8, <1>9, <1>10, <1>11,
     <1>12, <1>13, <1>14, <1>15, <1>16
  DEF Next, Request, Step, Lock, LockCall, Relock, LockEnd, LockClose, LockDrop,
      SpuriousWakeup, WaitTimesOut

(* A thread that goes from one place to another, neither of them a wait. *)
LEMMA PlacedMove ==
  ASSUME VarTypes, \A u \in Threads : Placed(u),
         NEW t \in Threads, NEW p \in PCs,
         pc' = [pc EXCEPT ![t] = p], waiting' = waiting,
         \A u \in Threads \ {t} : target'[u] = target[u],
         pc[t] # "wait", p # "wait",
         target'[t] = NoState <=> p \in {"run", "entered", "endlock", "ending"}
  PROVE  \A u \in Threads : Placed(u)'
  BY DEF Placed, VarTypes

(* pc, target and waiting change together: a thread that leaves the C      *)
(* functions loses its target, one that is woken leaves waiting.           *)
LEMMA PlacedStep == TypeOK /\ [Next]_vars => \A u \in Threads : Placed(u)'
<1> SUFFICES ASSUME TypeOK, [Next]_vars PROVE \A u \in Threads : Placed(u)'
  OBVIOUS
<1> VarTypes /\ \A u \in Threads : Placed(u)
  BY DEF TypeOK
<1> USE CallAssumption DEF CallAssumption
<1>1. CASE UNCHANGED vars
  BY <1>1 DEF vars, Placed
<1>2. ASSUME NEW t \in Threads, NEW s \in States, NEW k, NEW p,
             p \in {"lock", "closelock", "droplock"},
             EnterC(t, s, k, p), waiting' = waiting
      PROVE  \A u \in Threads : Placed(u)'
  BY <1>2, PlacedMove DEF EnterC, VarTypes, PCs
<1>3. ASSUME NEW t \in Threads, LeaveC(t), waiting' = waiting, pc[t] # "wait"
      PROVE  \A u \in Threads : Placed(u)'
  BY <1>3, PlacedMove DEF LeaveC, VarTypes, PCs
<1>4. ASSUME NEW t \in Threads, NEW s, NEW p, NEW q,
             <<p, q>> \in {<<"lock", "check">>, <<"relock", "recheck">>,
                           <<"endlock", "ending">>, <<"closelock", "closing">>,
                           <<"droplock", "dropping">>},
             LockMutex(t, s, p, q)
      PROVE  \A u \in Threads : Placed(u)'
  BY <1>4, PlacedMove DEF LockMutex, Goto, PCs, Placed
<1>5. ASSUME NEW t \in Threads, Return(t)
      PROVE  \A u \in Threads : Placed(u)'
  <2>1. CASE Top(t).isSelfCall
    BY <1>5, <2>1 DEF Return, Placed
  <2>2. CASE ~Top(t).isSelfCall
    BY <1>5, <2>2, PlacedMove DEF Return, Goto, PCs, Placed
  <2> QED BY <2>1, <2>2
<1>6. ASSUME NEW t \in Threads, StopWaiting(t)
      PROVE  \A u \in Threads : Placed(u)'
  BY <1>6 DEF StopWaiting, Goto, Placed, VarTypes
<1>7. ASSUME NEW t \in Threads, Enter(t)
      PROVE  \A u \in Threads : Placed(u)'
  BY <1>7, PlacedMove DEF Enter, Looking, Holding, PCs, VarTypes
<1>8. ASSUME NEW t \in Threads, Wait(t)
      PROVE  \A u \in Threads : Placed(u)'
  BY <1>8 DEF Wait, Looking, Holding, Goto, Placed, VarTypes
<1>9. ASSUME NEW t \in Threads, Invoke(t)
      PROVE  \A u \in Threads : Placed(u)'
  <2>1. CASE pc' = pc
    BY <1>9, <2>1 DEF Invoke, Placed
  <2>2. CASE pc' # pc
    BY <1>9, <2>2, PlacedMove DEF Invoke, Goto, PCs, Placed
  <2> QED BY <2>1, <2>2
<1>10. ASSUME NEW t \in Threads, End(t)
       PROVE  \A u \in Threads : Placed(u)'
  <2>1. PICK woken \in NotifyChoices(Top(t).state) :
          /\ waiting' = [waiting EXCEPT ![Top(t).state] = @ \ woken]
          /\ pc' = [u \in Threads |-> IF u = t THEN "run"
                                      ELSE IF u \in woken THEN "relock"
                                      ELSE pc[u]]
    BY <1>10 DEF End
  <2>2. woken \subseteq waiting[Top(t).state]
    BY <2>1 DEF NotifyChoices
  <2>3. pc[t] = "ending" /\ target' = target /\ Top(t).state \in States
    BY <1>10, TopFacts DEF End, Holding
  <2>4. \A u \in Threads : u \in woken => pc[u] = "wait" /\ target[u] = Top(t).state
    BY <2>2, <2>3 DEF Placed
  <2> QED BY <2>1, <2>2, <2>3, <2>4 DEF Placed, VarTypes
<1> QED
  BY <1>1, <1>2, <1>3, <1>4, <1>5, <1>6, <1>7, <1>8, <1>9, <1>10
  DEF Next, Request, Step, Lock, LockCall, Relock, LockEnd, LockClose, LockDrop,
      SpuriousWakeup, WaitTimesOut, StartCall, StartClose, StartDrop,
      TrylockFails, ObjectClosed, TimeOut, Close, Drop, Looking, Holding

(* The variables keep their types, and a thread sleeps exactly in the      *)
(* condition variable of the state that its C function works on.           *)
THEOREM TypeCorrect == Spec => []TypeOK
<1>1. TypeOK /\ [Next]_vars => TypeOK'
  BY VarTypesStep, PlacedStep DEF TypeOK
<1> QED BY <1>1, TypeOKInit, PTL DEF Spec

-----------------------------------------------------------------------------
(* A step that neither enters nor leaves a call nor closes a busy state *)
Quiet ==
  /\ UNCHANGED <<stack, isBusy, calledByThread>>
  /\ \A u \in Threads :
       \/ pc'[u] = pc[u]
       \/ /\ pc[u] \notin {"entered", "endlock", "ending"}
          /\ pc'[u] \notin {"entered", "endlock", "ending"}
  /\ \A s \in States : isBusy[s] => L2'[s] = L2[s]

(* All steps but a few are quiet. *)
LEMMA StepKinds ==
  ASSUME TypeOK, [Next]_vars
  PROVE  \/ Quiet
         \/ \E t \in Threads : \/ Return(t) \/ LockEnd(t) \/ Enter(t)
                               \/ Invoke(t) \/ End(t)
<1> VarTypes /\ \A u \in Threads : Placed(u)
  BY DEF TypeOK
<1>1. CASE UNCHANGED vars
  BY <1>1 DEF vars, Quiet
<1>2. ASSUME NEW t \in Threads, NEW s \in States,
             \/ StartClose(t, s) \/ StartDrop(t, s)
             \/ \E k \in Kinds : StartCall(t, s, k)
      PROVE  Quiet
  BY <1>2 DEF StartClose, StartDrop, StartCall, EnterC, Quiet, VarTypes
<1>3. ASSUME NEW t \in Threads,
             LockCall(t) \/ Relock(t) \/ LockClose(t) \/ LockDrop(t)
      PROVE  Quiet
  BY <1>3 DEF LockCall, Relock, LockClose, LockDrop, LockMutex, Goto, Quiet, VarTypes
<1>4. ASSUME NEW t \in Threads, TrylockFails(t) \/ ObjectClosed(t) \/ TimeOut(t)
      PROVE  Quiet
  BY <1>4 DEF TrylockFails, ObjectClosed, TimeOut, Looking, Holding, LeaveC,
              Quiet, VarTypes
<1>5. ASSUME NEW t \in Threads, Wait(t) \/ StopWaiting(t)
      PROVE  Quiet
  BY <1>5 DEF Wait, StopWaiting, Looking, Holding, Goto, Quiet, VarTypes
<1>6. ASSUME NEW t \in Threads, Close(t)
      PROVE  Quiet
  BY <1>6 DEF Close, CloseRefused, Holding, LeaveC, Quiet, VarTypes
<1>7. ASSUME NEW t \in Threads, Drop(t)
      PROVE  Quiet
  <2>1. \A s \in States : isBusy[s] => L2'[s] = L2[s]
    BY <1>7 DEF Drop, L2AfterDrop, VarTypes
  <2> QED BY <1>7, <2>1 DEF Drop, Holding, LeaveC, Quiet, VarTypes
<1> QED
  BY <1>1, <1>2, <1>3, <1>4, <1>5, <1>6, <1>7
  DEF Next, Request, Step, Lock, SpuriousWakeup, WaitTimesOut

(* the part of IInv about stacks *)
StackInv == FramesAreBusy /\ SelfCallsAreNested /\ BusyHasRunner /\ EndingIsOuter

(* a thread that enters a state finds it idle or is inside of it already *)
LEMMA EnterFacts ==
  ASSUME TypeOK, StackInv, NEW t \in Threads, Enter(t)
  PROVE  /\ target[t] \in States
         /\ isBusy[target[t]] => calledByThread[target[t]] = t
         /\ isBusy' = [isBusy EXCEPT ![target[t]] = TRUE]
         /\ calledByThread' = [calledByThread EXCEPT ![target[t]] = t]
         /\ pc' = [pc EXCEPT ![t] = "entered"]
         /\ \A u \in Threads \ {t} : stack'[u] = stack[u]
         /\ Len(stack[t]) \in Nat
         /\ Len(stack'[t]) = Len(stack[t]) + 1
         /\ \A i \in 1 .. Len(stack[t]) : stack'[t][i] = stack[t][i]
         /\ stack'[t][Len(stack[t]) + 1] =
              [state |-> target[t], isSelfCall |-> IsSelfCall(t, target[t])]
<1> DEFINE s == target[t]
           f == [state |-> s, isSelfCall |-> IsSelfCall(t, s)]
<1>1. s \in States
  BY DEF Enter, Looking, Holding, TypeOK, VarTypes, Placed
<1>2. isBusy[s] => calledByThread[s] = t
  BY DEF Enter, Looking, Holding, MayEnter, IsSelfCall
<1>3. f \in Frames
  <2>1. IsSelfCall(t, s) \in BOOLEAN
    BY DEF IsSelfCall
  <2> QED BY <1>1, <2>1 DEF Frames
<1>4. stack' = [stack EXCEPT ![t] = Append(stack[t], f)]
  BY DEF Enter, TypeOK, VarTypes
<1>5. stack \in [Threads -> Seq(Frames)]
  BY DEF TypeOK, VarTypes
<1>6. /\ isBusy' = [isBusy EXCEPT ![s] = TRUE]
      /\ calledByThread' = [calledByThread EXCEPT ![s] = t]
      /\ pc' = [pc EXCEPT ![t] = "entered"]
  BY DEF Enter
<1>7. /\ Len(stack[t]) \in Nat
      /\ Len(stack'[t]) = Len(stack[t]) + 1
      /\ \A i \in 1 .. Len(stack[t]) : stack'[t][i] = stack[t][i]
      /\ stack'[t][Len(stack[t]) + 1] = f
  <2> HIDE DEF f
  <2> QED BY <1>3, <1>4, <1>5, PushFacts
<1>8. \A u \in Threads \ {t} : stack'[u] = stack[u]
  BY <1>4, <1>5
<1> QED BY <1>1, <1>2, <1>6, <1>7, <1>8

(* a step that takes the innermost call off the stack of t *)
LEMMA LeaveFacts ==
  ASSUME TypeOK, NEW t \in Threads, stack[t] # <<>>,
         stack' = [stack EXCEPT ![t] = Pop(t)]
  PROVE  /\ Len(stack[t]) \in Nat \ {0}
         /\ Len(stack'[t]) = Len(stack[t]) - 1
         /\ \A i \in 1 .. Len(stack[t]) - 1 : stack'[t][i] = stack[t][i]
         /\ \A u \in Threads \ {t} : stack'[u] = stack[u]
<1>1. stack \in [Threads -> Seq(Frames)]
  BY DEF TypeOK, VarTypes
<1> QED BY <1>1, PopFacts DEF Pop

(* The calls that remain on the stack of t were there before. *)
LEMMA LeaveFrames ==
  ASSUME TypeOK, NEW t \in Threads, stack[t] # <<>>,
         stack' = [stack EXCEPT ![t] = Pop(t)]
  PROVE  \A u \in Threads : \A i \in 1 .. Len(stack'[u]) :
           /\ i \in 1 .. Len(stack[u])
           /\ stack'[u][i] = stack[u][i]
<1> DEFINE n == Len(stack[t])
<1>1. /\ n \in Nat \ {0}
      /\ Len(stack'[t]) = n - 1
      /\ \A i \in 1 .. n - 1 : stack'[t][i] = stack[t][i]
      /\ \A u \in Threads \ {t} : stack'[u] = stack[u]
  BY LeaveFacts
<1> HIDE DEF n
<1> QED BY <1>1 DEF n

(* Steps that neither push nor pop a call nor touch isBusy keep StackInv. *)
LEMMA StackInvQuiet ==
  ASSUME TypeOK, StackInv, Quiet PROVE StackInv'
  BY DEF Quiet, StackInv, FramesAreBusy, SelfCallsAreNested, BusyHasRunner,
         EndingIsOuter, Top

(* Entering a state keeps StackInv: an outer call makes an idle state busy *)
(* for its thread, a self call finds the outer call below it.              *)
LEMMA StackInvEnter ==
  ASSUME TypeOK, StackInv, NEW t \in Threads, Enter(t) PROVE StackInv'
<1> DEFINE s == target[t]
           n == Len(stack[t])
           new == stack'[t][n + 1]
<1>1. /\ s \in States
      /\ isBusy[s] => calledByThread[s] = t
      /\ isBusy' = [isBusy EXCEPT ![s] = TRUE]
      /\ calledByThread' = [calledByThread EXCEPT ![s] = t]
      /\ pc' = [pc EXCEPT ![t] = "entered"]
      /\ \A u \in Threads \ {t} : stack'[u] = stack[u]
      /\ n \in Nat
      /\ Len(stack'[t]) = n + 1
      /\ \A i \in 1 .. n : stack'[t][i] = stack[t][i]
      /\ new = [state |-> s, isSelfCall |-> IsSelfCall(t, s)]
  BY EnterFacts
<1> HIDE DEF s, n, new
<1>1a. /\ new.state = s
      /\ new.isSelfCall <=> isBusy[s] /\ calledByThread[s] = t
  BY <1>1 DEF IsSelfCall
<1>2. /\ isBusy'[s] /\ calledByThread'[s] = t
      /\ \A r \in States \ {s} : /\ isBusy'[r] = isBusy[r]
                                 /\ calledByThread'[r] = calledByThread[r]
  BY <1>1 DEF TypeOK, VarTypes
<1>3. \A u \in Threads : \A i \in 1 .. Len(stack[u]) :
        /\ stack[u][i].state \in States
        /\ stack[u][i].state = s => u = t
  <2>1. \A u \in Threads : \A i \in 1 .. Len(stack[u]) : stack[u][i] \in Frames
    BY DEF TypeOK, VarTypes
  <2> QED BY <1>1, <2>1 DEF StackInv, FramesAreBusy, Frames
<1>4. FramesAreBusy'
  <2>1. ASSUME NEW u \in Threads, NEW i \in 1 .. Len(stack[u])
        PROVE  isBusy'[stack[u][i].state] /\ calledByThread'[stack[u][i].state] = u
    BY <1>2, <1>3 DEF StackInv, FramesAreBusy
  <2>2. ASSUME NEW i \in 1 .. Len(stack'[t])
        PROVE  isBusy'[stack'[t][i].state] /\ calledByThread'[stack'[t][i].state] = t
    <3>1. CASE i = n + 1
      BY <1>1, <1>2, <3>1 DEF new
    <3>2. CASE i \in 1 .. n
      BY <1>1, <2>1, <3>2 DEF n
    <3> QED BY <1>1, <3>1, <3>2
  <2> QED BY <1>1, <2>1, <2>2 DEF FramesAreBusy
<1>5. SelfCallsAreNested'
  <2>1. ASSUME NEW i \in 1 .. n
        PROVE  stack'[t][i].isSelfCall <=>
                 \E j \in 1 .. i - 1 : /\ stack'[t][j].state = stack'[t][i].state
                                       /\ ~stack'[t][j].isSelfCall
    <3>1. \A j \in 1 .. i - 1 : stack'[t][j] = stack[t][j]
      BY <1>1
    <3>2. stack[t][i].isSelfCall <=>
            \E j \in 1 .. i - 1 : /\ stack[t][j].state = stack[t][i].state
                                  /\ ~stack[t][j].isSelfCall
      BY DEF StackInv, SelfCallsAreNested, n
    <3> QED BY <1>1, <3>1, <3>2
  <2>2. new.isSelfCall <=> \E j \in 1 .. n : /\ stack'[t][j].state = s
                                             /\ ~stack'[t][j].isSelfCall
    <3>1. ASSUME new.isSelfCall
          PROVE  \E j \in 1 .. n : stack[t][j].state = s /\ ~stack[t][j].isSelfCall
      BY <1>1, <1>1a, <3>1 DEF StackInv, BusyHasRunner, n
    <3>2. ASSUME NEW j \in 1 .. n, stack[t][j].state = s
          PROVE  new.isSelfCall
      BY <1>1, <1>1a, <3>2 DEF StackInv, FramesAreBusy, n
    <3> QED BY <1>1, <3>1, <3>2
  <2>3. ASSUME NEW i \in 1 .. n + 1
        PROVE  stack'[t][i].isSelfCall <=>
                 \E j \in 1 .. i - 1 : /\ stack'[t][j].state = stack'[t][i].state
                                       /\ ~stack'[t][j].isSelfCall
    <3>1. CASE i = n + 1
      <4>1. 1 .. i - 1 = 1 .. n
        BY <1>1, <3>1
      <4> QED BY <1>1, <2>2, <3>1, <4>1 DEF new
    <3>2. CASE i # n + 1
      BY <1>1, <2>1, <3>2
    <3> QED BY <3>1, <3>2
  <2>4. ASSUME NEW u \in Threads \ {t}, NEW i \in 1 .. Len(stack'[u])
        PROVE  stack'[u][i].isSelfCall <=>
                 \E j \in 1 .. i - 1 : /\ stack'[u][j].state = stack'[u][i].state
                                       /\ ~stack'[u][j].isSelfCall
    <3>1. stack'[u] = stack[u]
      BY <1>1
    <3> QED BY <3>1 DEF SelfCallsAreNested, StackInv
  <2>5. \A i \in 1 .. Len(stack'[t]) : i \in 1 .. n + 1
    BY <1>1
  <2> QED BY <2>3, <2>4, <2>5 DEF SelfCallsAreNested
<1>6. BusyHasRunner'
  <2>1. ASSUME NEW r \in States, isBusy'[r], isBusy[r],
               calledByThread'[r] = calledByThread[r]
        PROVE  /\ calledByThread'[r] \in Threads
               /\ \E i \in 1 .. Len(stack'[calledByThread'[r]]) :
                    /\ stack'[calledByThread'[r]][i].state = r
                    /\ ~stack'[calledByThread'[r]][i].isSelfCall
    <3> DEFINE c == calledByThread[r]
    <3>1. c \in Threads /\ \E i \in 1 .. Len(stack[c]) :
                             stack[c][i].state = r /\ ~stack[c][i].isSelfCall
      BY <2>1 DEF StackInv, BusyHasRunner
    <3>2. CASE c = t
      BY <1>1, <2>1, <3>1, <3>2 DEF n
    <3>3. CASE c # t
      BY <1>1, <2>1, <3>1, <3>3
    <3> QED BY <3>2, <3>3
  <2>2. CASE isBusy[s]
    BY <1>1, <1>2, <2>1, <2>2 DEF BusyHasRunner
  <2>3. CASE ~isBusy[s]
    <3>1. \E i \in 1 .. Len(stack'[t]) : stack'[t][i].state = s /\ ~stack'[t][i].isSelfCall
      <4>1. n + 1 \in 1 .. Len(stack'[t])
        BY <1>1
      <4> QED BY <1>1, <1>1a, <2>3, <4>1 DEF new
    <3> QED BY <1>1, <1>2, <2>1, <3>1 DEF BusyHasRunner
  <2> QED BY <2>2, <2>3
<1>7. EndingIsOuter'
  <2>1. stack'[t] # <<>>
    BY <1>1
  <2> QED BY <1>1, <2>1 DEF EndingIsOuter, StackInv, TypeOK, VarTypes, Top
<1> QED BY <1>4, <1>5, <1>6, <1>7 DEF StackInv

(* the innermost call of t, when it is no self call, is its only call of *)
(* that state                                                           *)
LEMMA OuterIsOnly ==
  ASSUME TypeOK, StackInv, NEW t \in Threads, stack[t] # <<>>, ~Top(t).isSelfCall
  PROVE  /\ \A i \in 1 .. Len(stack[t]) - 1 : stack[t][i].state # Top(t).state
         /\ \A u \in Threads \ {t} : \A i \in 1 .. Len(stack[u]) :
              stack[u][i].state # Top(t).state
<1> DEFINE n == Len(stack[t])
<1>1. n \in 1 .. n /\ n \in Nat
  BY TopFacts DEF TypeOK
<1>2. Top(t) = stack[t][n]
  BY DEF Top
<1>3. \A j \in 1 .. n - 1 : stack[t][j].state = Top(t).state => stack[t][j].isSelfCall
  BY <1>1, <1>2 DEF StackInv, SelfCallsAreNested
<1>4. ASSUME NEW i \in 1 .. n - 1, stack[t][i].state = Top(t).state
      PROVE  FALSE
  <2> HIDE DEF n
  <2>1. stack[t][i].isSelfCall /\ i \in 1 .. n
    BY <1>1, <1>3, <1>4
  <2>2. PICK j \in 1 .. i - 1 : /\ stack[t][j].state = Top(t).state
                                /\ ~stack[t][j].isSelfCall
    BY <1>4, <2>1 DEF StackInv, SelfCallsAreNested, n
  <2>3. j \in 1 .. n - 1
    BY <1>1, <2>2
  <2> QED BY <1>3, <2>2, <2>3
<1>5. calledByThread[Top(t).state] = t
  BY <1>1, <1>2 DEF StackInv, FramesAreBusy
<1>6. \A u \in Threads \ {t} : \A i \in 1 .. Len(stack[u]) :
        stack[u][i].state # Top(t).state
  BY <1>5 DEF StackInv, FramesAreBusy
<1> QED BY <1>4, <1>6

(* Leaving a state keeps StackInv: only the end of the outer call clears   *)
(* isBusy, and then no call of the state is left.                          *)
LEMMA StackInvLeave ==
  ASSUME TypeOK, StackInv, NEW t \in Threads, Return(t) \/ End(t) \/ LockEnd(t)
  PROVE  StackInv'
<1> DEFINE n == Len(stack[t])
<1>0. \A u \in Threads : \A i \in 1 .. Len(stack[u]) : stack[u][i].state \in States
  <2>1. \A u \in Threads : \A i \in 1 .. Len(stack[u]) : stack[u][i] \in Frames
    BY DEF TypeOK, VarTypes
  <2> QED BY <2>1 DEF Frames
<1>1. ASSUME LockEnd(t) PROVE StackInv'
  BY <1>1 DEF LockEnd, LockMutex, Goto, StackInv, FramesAreBusy, EndingIsOuter,
              SelfCallsAreNested, BusyHasRunner, TypeOK, VarTypes, Top
<1>2. ASSUME Return(t), ~Top(t).isSelfCall PROVE StackInv'
  BY <1>2 DEF Return, Goto, StackInv, FramesAreBusy, EndingIsOuter,
              SelfCallsAreNested, BusyHasRunner, TypeOK, VarTypes, Top
<1>3. ASSUME stack[t] # <<>>, stack' = [stack EXCEPT ![t] = Pop(t)],
             NEW s \in States,
             \A r \in States \ {s} : isBusy'[r] = isBusy[r],
             isBusy'[s] => isBusy[s] /\ Top(t).isSelfCall,
             ~isBusy'[s] => \A u \in Threads : \A i \in 1 .. Len(stack'[u]) :
                              stack'[u][i].state # s,
             Top(t).state = s, calledByThread' = calledByThread,
             \A u \in Threads : pc'[u] \in {"entered", "endlock", "ending"} =>
                                  pc'[u] = pc[u] /\ u # t
      PROVE  StackInv'
  <2>1. /\ n \in Nat \ {0}
        /\ Len(stack'[t]) = n - 1
        /\ \A i \in 1 .. n - 1 : stack'[t][i] = stack[t][i]
        /\ \A u \in Threads \ {t} : stack'[u] = stack[u]
    BY <1>3, LeaveFacts
  <2>2. Top(t) = stack[t][n]
    BY DEF Top
  <2> HIDE DEF n
  <2>3. \A u \in Threads : \A i \in 1 .. Len(stack'[u]) :
          /\ i \in 1 .. Len(stack[u])
          /\ stack'[u][i] = stack[u][i]
    BY <1>3, LeaveFrames
  <2>4. FramesAreBusy'
    BY <1>0, <1>3, <2>3 DEF FramesAreBusy, StackInv
  <2>5. SelfCallsAreNested'
    <3>1. ASSUME NEW u \in Threads, NEW i \in 1 .. Len(stack'[u])
          PROVE  stack'[u][i].isSelfCall <=>
                   \E j \in 1 .. i - 1 : /\ stack'[u][j].state = stack'[u][i].state
                                         /\ ~stack'[u][j].isSelfCall
      <4>1. Len(stack'[u]) \in Nat
        BY <2>1 DEF TypeOK, VarTypes
      <4>2. \A j \in 1 .. i - 1 : stack'[u][j] = stack[u][j]
        BY <2>3, <4>1
      <4>3. stack[u][i].isSelfCall <=>
              \E j \in 1 .. i - 1 : /\ stack[u][j].state = stack[u][i].state
                                    /\ ~stack[u][j].isSelfCall
        BY <2>3 DEF StackInv, SelfCallsAreNested
      <4> QED BY <2>3, <4>2, <4>3
    <3> QED BY <3>1 DEF SelfCallsAreNested
  <2>6. BusyHasRunner'
    <3>1. ASSUME NEW r \in States, isBusy'[r]
          PROVE  /\ calledByThread'[r] \in Threads
                 /\ \E i \in 1 .. Len(stack'[calledByThread'[r]]) :
                      /\ stack'[calledByThread'[r]][i].state = r
                      /\ ~stack'[calledByThread'[r]][i].isSelfCall
      <4> DEFINE c == calledByThread[r]
      <4>1. PICK i \in 1 .. Len(stack[c]) :
              stack[c][i].state = r /\ ~stack[c][i].isSelfCall
        BY <1>3, <3>1 DEF StackInv, BusyHasRunner
      <4>2. c \in Threads
        BY <1>3, <3>1 DEF StackInv, BusyHasRunner
      <4>3. CASE c = t
        <5>1. i # n
          BY <1>3, <2>2, <3>1, <4>1, <4>3
        <5>2. i \in 1 .. n - 1
          BY <2>1, <4>1, <4>3, <5>1 DEF n
        <5> QED BY <1>3, <2>1, <4>1, <4>3, <5>2
      <4>4. CASE c # t
        BY <1>3, <2>1, <4>1, <4>2, <4>4
      <4> QED BY <4>3, <4>4
    <3> QED BY <3>1 DEF BusyHasRunner
  <2>7. EndingIsOuter'
    <3>1. ASSUME NEW u \in Threads, pc'[u] \in {"entered", "endlock", "ending"}
          PROVE  pc'[u] = pc[u] /\ stack'[u] = stack[u]
      BY <1>3, <2>1, <3>1
    <3> QED BY <3>1 DEF EndingIsOuter, StackInv, Top
  <2> QED BY <2>4, <2>5, <2>6, <2>7 DEF StackInv
<1>4. ASSUME Return(t), Top(t).isSelfCall PROVE StackInv'
  <2>1. /\ stack[t] # <<>> /\ stack' = [stack EXCEPT ![t] = Pop(t)]
        /\ UNCHANGED <<isBusy, calledByThread, pc>> /\ pc[t] = "run"
    BY <1>4 DEF Return
  <2>2. Top(t).state \in States /\ isBusy[Top(t).state]
    BY <2>1, TopFacts DEF TypeOK, StackInv, FramesAreBusy, Top
  <2> QED BY <1>3, <1>4, <2>1, <2>2
<1>5. ASSUME End(t) PROVE StackInv'
  <2> DEFINE s == Top(t).state
  <2>1. /\ stack[t] # <<>> /\ stack' = [stack EXCEPT ![t] = Pop(t)]
        /\ isBusy' = [isBusy EXCEPT ![s] = FALSE]
        /\ calledByThread' = calledByThread
        /\ pc[t] = "ending"
    BY <1>5 DEF End, Holding, BusyAfterEnd
  <2>2. s \in States /\ ~Top(t).isSelfCall
    BY <2>1, TopFacts DEF TypeOK, StackInv, EndingIsOuter
  <2>3. \A u \in Threads : pc'[u] \in {"entered", "endlock", "ending"} =>
                             pc'[u] = pc[u] /\ u # t
    BY <1>5 DEF End
  <2>4. \A u \in Threads : \A i \in 1 .. Len(stack'[u]) : stack'[u][i].state # s
    <3>1. \A i \in 1 .. Len(stack'[t]) : stack'[t][i].state # s
      BY <2>1, <2>2, OuterIsOnly, LeaveFacts
    <3>2. \A u \in Threads \ {t} : \A i \in 1 .. Len(stack'[u]) : stack'[u][i].state # s
      BY <2>1, <2>2, OuterIsOnly, LeaveFacts
    <3> QED BY <3>1, <3>2
  <2>5. ~isBusy'[s] /\ \A r \in States \ {s} : isBusy'[r] = isBusy[r]
    BY <2>1, <2>2 DEF TypeOK, VarTypes
  <2> HIDE DEF s
  <2> QED BY <1>3, <2>1, <2>2, <2>3, <2>4, <2>5 DEF s
<1> QED BY <1>1, <1>2, <1>4, <1>5

(* Every step keeps StackInv. *)
LEMMA StackInvStep == TypeOK /\ StackInv /\ [Next]_vars => StackInv'
<1> SUFFICES ASSUME TypeOK, StackInv, [Next]_vars PROVE StackInv'
  OBVIOUS
<1>1. ASSUME NEW t \in Threads, Invoke(t) PROVE StackInv'
  BY <1>1 DEF Invoke, Goto, StackInv, FramesAreBusy, EndingIsOuter,
              SelfCallsAreNested, BusyHasRunner, TypeOK, VarTypes, Top
<1> QED BY <1>1, StepKinds, StackInvQuiet, StackInvEnter, StackInvLeave

-----------------------------------------------------------------------------
(* No callback loses its interpreter. *)
LEMMA RunningIsOpenStep ==
  ASSUME TypeOK, StackInv, RunningIsOpen, [Next]_vars PROVE RunningIsOpen'
<1>0. \A u \in Threads : \A i \in 1 .. Len(stack[u]) : stack[u][i].state \in States
  <2>1. \A u \in Threads : \A i \in 1 .. Len(stack[u]) : stack[u][i] \in Frames
    BY DEF TypeOK, VarTypes
  <2> QED BY <2>1 DEF Frames
<1>1. CASE Quiet
  <2>1. \A u \in Threads : \A i \in 1 .. Len(stack[u]) :
          L2'[stack[u][i].state] = L2[stack[u][i].state]
    BY <1>0, <1>1 DEF Quiet, StackInv, FramesAreBusy
  <2>2. \A u \in Threads : pc'[u] # "entered" => pc[u] # "entered"
    BY <1>1 DEF Quiet
  <2> QED BY <1>1, <2>1, <2>2 DEF Quiet, RunningIsOpen
<1>2. ASSUME NEW t \in Threads, Return(t) PROVE RunningIsOpen'
  <2>1. CASE Top(t).isSelfCall
    <3>1. /\ stack[t] # <<>> /\ stack' = [stack EXCEPT ![t] = Pop(t)]
          /\ UNCHANGED <<L2, pc>>
      BY <1>2, <2>1 DEF Return
    <3>2. \A u \in Threads : \A i \in 1 .. Len(stack'[u]) :
            /\ i \in 1 .. Len(stack[u])
            /\ stack'[u][i] = stack[u][i]
      BY <3>1, LeaveFrames
    <3>3. pc[t] = "run"
      BY <1>2 DEF Return
    <3> QED BY <3>1, <3>2, <3>3, LeaveFacts DEF RunningIsOpen
  <2>2. CASE ~Top(t).isSelfCall
    BY <1>2, <2>2 DEF Return, Goto, RunningIsOpen, TypeOK, VarTypes
  <2> QED BY <2>1, <2>2
<1>3. ASSUME NEW t \in Threads, LockEnd(t) PROVE RunningIsOpen'
  BY <1>3 DEF LockEnd, LockMutex, Goto, RunningIsOpen, TypeOK, VarTypes
<1>4. ASSUME NEW t \in Threads, Enter(t) PROVE RunningIsOpen'
  <2>1. /\ pc' = [pc EXCEPT ![t] = "entered"]
        /\ \A u \in Threads \ {t} : stack'[u] = stack[u]
        /\ Len(stack[t]) \in Nat
        /\ Len(stack'[t]) = Len(stack[t]) + 1
        /\ \A i \in 1 .. Len(stack[t]) : stack'[t][i] = stack[t][i]
    BY <1>4, EnterFacts
  <2>2. pc[t] # "entered" /\ L2' = L2
    BY <1>4 DEF Enter, Looking, Holding
  <2>3. pc \in [Threads -> PCs]
    BY DEF TypeOK, VarTypes
  <2> QED BY <2>1, <2>2, <2>3 DEF RunningIsOpen
<1>5. ASSUME NEW t \in Threads, Invoke(t) PROVE RunningIsOpen'
  BY <1>5 DEF Invoke, Goto, RunningIsOpen, Top, TypeOK, VarTypes
<1>6. ASSUME NEW t \in Threads, End(t) PROVE RunningIsOpen'
  <2> DEFINE s == Top(t).state
  <2>1. /\ stack[t] # <<>> /\ stack' = [stack EXCEPT ![t] = Pop(t)]
        /\ L2' = [L2 EXCEPT ![s] = L2AfterEnd(s)]
        /\ pc[t] = "ending"
    BY <1>6 DEF End, Holding
  <2>2. \A u \in Threads : \A i \in 1 .. Len(stack'[u]) :
          /\ i \in 1 .. Len(stack[u])
          /\ stack'[u][i] = stack[u][i]
    BY <2>1, LeaveFrames
  <2>3. \A u \in Threads : \A i \in 1 .. Len(stack'[u]) : stack'[u][i].state # s
    <3>1. ~Top(t).isSelfCall
      BY <2>1 DEF StackInv, EndingIsOuter
    <3>2. \A i \in 1 .. Len(stack'[t]) : stack'[t][i].state # s
      BY <2>1, <3>1, OuterIsOnly, LeaveFacts
    <3>3. \A u \in Threads \ {t} : \A i \in 1 .. Len(stack'[u]) : stack'[u][i].state # s
      BY <2>1, <3>1, OuterIsOnly, LeaveFacts
    <3> QED BY <3>2, <3>3
  <2>4. \A u \in Threads \ {t} :
          stack'[u] = stack[u] /\ (pc'[u] # "entered" => pc[u] # "entered")
    <3>1. PICK woken \in NotifyChoices(s) :
            /\ waiting' = [waiting EXCEPT ![s] = @ \ woken]
            /\ pc' = [u \in Threads |-> IF u = t THEN "run"
                                        ELSE IF u \in woken THEN "relock"
                                        ELSE pc[u]]
      BY <1>6 DEF End
    <3>2. \A u \in woken : u \in waiting[s]
      BY <3>1 DEF NotifyChoices
    <3>3. s \in States
      BY <2>1, TopFacts DEF TypeOK
    <3>4. \A u \in Threads : u \in woken => pc[u] = "wait"
      BY <3>2, <3>3 DEF TypeOK, Placed
    <3> QED BY <2>1, <3>1, <3>4, LeaveFacts
  <2>5. \A u \in Threads : \A i \in 1 .. Len(stack'[u]) :
          L2'[stack'[u][i].state] = L2[stack'[u][i].state]
    BY <1>0, <2>1, <2>2, <2>3 DEF TypeOK, VarTypes
  <2>6. \A i \in 1 .. Len(stack'[t]) : L2[stack'[t][i].state]
    BY <2>1, <2>2 DEF RunningIsOpen
  <2>7. \A u \in Threads \ {t} : \A i \in 1 .. Len(stack'[u]) :
          i < Len(stack'[u]) \/ pc'[u] # "entered" => L2[stack'[u][i].state]
    BY <2>4 DEF RunningIsOpen
  <2> QED BY <2>5, <2>6, <2>7 DEF RunningIsOpen
<1> QED BY <1>1, <1>2, <1>3, <1>4, <1>5, <1>6, StepKinds

(* A state without an owner is closed and cannot be found. *)
LEMMA OwnersStep ==
  ASSUME TypeOK, OrphanIsClosed, ClosedCannotBeFound, [Next]_vars
  PROVE  OrphanIsClosed' /\ ClosedCannotBeFound'
<1> VarTypes
  BY DEF TypeOK
<1>1. CASE UNCHANGED <<isBusy, L2, owned, closed>>
  BY <1>1 DEF OrphanIsClosed, ClosedCannotBeFound
<1>2. ASSUME NEW t \in Threads, Enter(t)
      PROVE  OrphanIsClosed' /\ ClosedCannotBeFound'
  BY <1>2 DEF Enter, OrphanIsClosed, ClosedCannotBeFound, VarTypes
<1>3. ASSUME NEW t \in Threads, End(t)
      PROVE  OrphanIsClosed' /\ ClosedCannotBeFound'
  <2> DEFINE s == Top(t).state
  <2>1. /\ isBusy' = [isBusy EXCEPT ![s] = FALSE]
        /\ L2' = [L2 EXCEPT ![s] = L2[s] /\ owned[s] # {}]
        /\ UNCHANGED <<owned, closed>>
    BY <1>3 DEF End, BusyAfterEnd, L2AfterEnd
  <2> HIDE DEF s
  <2>2. ASSUME NEW r \in States, r # s
        PROVE  isBusy'[r] = isBusy[r] /\ L2'[r] = L2[r]
    BY <2>1, <2>2 DEF VarTypes
  <2>3. ASSUME s \in States PROVE L2'[s] = (L2[s] /\ owned[s] # {})
    BY <2>1, <2>3 DEF VarTypes
  <2>4. OrphanIsClosed'
    BY <2>1, <2>2, <2>3 DEF OrphanIsClosed
  <2>5. ClosedCannotBeFound'
    BY <2>1, <2>2, <2>3 DEF ClosedCannotBeFound
  <2> QED BY <2>4, <2>5
<1>4. ASSUME NEW t \in Threads, Close(t)
      PROVE  OrphanIsClosed' /\ ClosedCannotBeFound'
  BY <1>4 DEF Close, CloseRefused, OrphanIsClosed, ClosedCannotBeFound, VarTypes
<1>5. ASSUME NEW t \in Threads, Drop(t)
      PROVE  OrphanIsClosed' /\ ClosedCannotBeFound'
  <2> DEFINE s == target[t]
  <2>1. /\ owned' = [owned EXCEPT ![s] = @ \ {t}]
        /\ L2' = [L2 EXCEPT ![s] = L2AfterDrop(t, s)]
        /\ closed' = [closed EXCEPT ![s] = ClosedAfterDrop(t, s)]
        /\ isBusy' = isBusy
    BY <1>5 DEF Drop
  <2>2. s \in States
    BY <1>5 DEF Drop, Holding, TypeOK, Placed, VarTypes
  <2> HIDE DEF s
  <2>3. /\ owned'[s] = owned[s] \ {t}
        /\ L2'[s] <=> L2[s] /\ (owned[s] # {t} \/ isBusy[s])
        /\ closed'[s] <=> closed[s] \/ owned[s] = {t}
    BY <2>1, <2>2 DEF L2AfterDrop, ClosedAfterDrop, VarTypes
  <2>4. \A r \in States \ {s} : /\ owned'[r] = owned[r]
                                /\ L2'[r] = L2[r]
                                /\ closed'[r] = closed[r]
    BY <2>1 DEF VarTypes
  <2> QED BY <2>1, <2>2, <2>3, <2>4 DEF OrphanIsClosed, ClosedCannotBeFound, VarTypes
<1> QED
  BY <1>1, <1>2, <1>3, <1>4, <1>5
  DEF Next, Request, Step, Lock, LockCall, Relock, LockEnd, LockClose, LockDrop,
      LockMutex, SpuriousWakeup, WaitTimesOut, StopWaiting, StartCall,
      StartClose, StartDrop, TrylockFails, ObjectClosed, TimeOut, Wait, Invoke,
      Return, vars

(* A thread that leaves the monitor without having seen an idle state has *)
(* no notification to hand on.                                           *)
LEMMA NoLostWakeupMove ==
  ASSUME TypeOK, NoLostWakeup, NEW t \in Threads,
         \A u \in Threads \ {t} : pc'[u] = pc[u] /\ target'[u] = target[u],
         waiting' = waiting, isBusy' = isBusy,
         \/ pc[t] \notin {"relock", "recheck"}
         \/ pc'[t] \in {"relock", "recheck"} /\ target'[t] = target[t]
         \/ isBusy[target[t]]
  PROVE  NoLostWakeup'
  BY DEF NoLostWakeup

(* Every step keeps a sleeper of an idle state awake. *)
LEMMA NoLostWakeupStep ==
  ASSUME TypeOK, NoLostWakeup, [Next]_vars PROVE NoLostWakeup'
<1> VarTypes /\ \A u \in Threads : Placed(u)
  BY DEF TypeOK
<1>1. CASE UNCHANGED vars
  BY <1>1 DEF vars, NoLostWakeup
<1>2. ASSUME NEW t \in Threads, NEW s \in States,
             \/ StartClose(t, s) \/ StartDrop(t, s)
             \/ \E k \in Kinds : StartCall(t, s, k)
      PROVE  NoLostWakeup'
  <2>1. /\ \A u \in Threads \ {t} : pc'[u] = pc[u] /\ target'[u] = target[u]
        /\ waiting' = waiting /\ isBusy' = isBusy /\ pc[t] = "run"
    BY <1>2 DEF StartClose, StartDrop, StartCall, EnterC, VarTypes
  <2> QED BY <2>1, NoLostWakeupMove
<1>3. ASSUME NEW t \in Threads, Lock(t) PROVE NoLostWakeup'
  <2>1. /\ \A u \in Threads \ {t} : pc'[u] = pc[u]
        /\ UNCHANGED <<waiting, isBusy, target>>
        /\ pc[t] = "relock" => pc'[t] = "recheck"
        /\ pc[t] # "recheck"
    BY <1>3 DEF Lock, LockCall, Relock, LockEnd, LockClose, LockDrop, LockMutex,
                Goto, VarTypes
  <2> QED BY <2>1, NoLostWakeupMove
<1>4. ASSUME NEW t \in Threads,
             \/ TrylockFails(t) \/ ObjectClosed(t) \/ TimeOut(t)
             \/ Close(t) \/ Drop(t)
      PROVE  NoLostWakeup'
  <2>1. /\ \A u \in Threads \ {t} : pc'[u] = pc[u] /\ target'[u] = target[u]
        /\ waiting' = waiting /\ isBusy' = isBusy
    BY <1>4 DEF TrylockFails, ObjectClosed, TimeOut, Close, Drop, LeaveC, VarTypes
  <2>2. pc[t] \notin {"relock", "recheck"} \/ isBusy[target[t]]
    BY <1>4 DEF TrylockFails, ObjectClosed, TimeOut, MustWait, Close, Drop,
                Looking, Holding
  <2> QED BY <2>1, <2>2, NoLostWakeupMove
<1>5. ASSUME NEW t \in Threads, Return(t) \/ Invoke(t) PROVE NoLostWakeup'
  <2>1. /\ \A u \in Threads \ {t} : pc'[u] = pc[u]
        /\ UNCHANGED <<waiting, isBusy, target>>
        /\ pc[t] \notin {"relock", "recheck"}
    BY <1>5 DEF Return, Invoke, Goto, VarTypes
  <2> QED BY <2>1, NoLostWakeupMove
<1>6. ASSUME NEW t \in Threads, Enter(t) PROVE NoLostWakeup'
  <2>1. /\ isBusy' = [isBusy EXCEPT ![target[t]] = TRUE]
        /\ waiting' = waiting
        /\ pc' = [pc EXCEPT ![t] = "entered"]
        /\ target' = [target EXCEPT ![t] = NoState]
    BY <1>6 DEF Enter
  <2>2. ASSUME NEW s \in States, waiting'[s] # {}, ~isBusy'[s]
        PROVE  \E u \in Threads : target'[u] = s /\ pc'[u] \in {"relock", "recheck"}
    <3>1. s # target[t] /\ ~isBusy[s] /\ waiting[s] # {}
      BY <2>1, <2>2 DEF VarTypes
    <3>2. PICK u \in Threads : target[u] = s /\ pc[u] \in {"relock", "recheck"}
      BY <3>1 DEF NoLostWakeup
    <3>3. pc'[u] = pc[u] /\ target'[u] = target[u]
      BY <2>1, <3>1, <3>2 DEF VarTypes
    <3> QED BY <3>2, <3>3
  <2> QED BY <2>2 DEF NoLostWakeup
<1>7. ASSUME NEW t \in Threads, Wait(t) PROVE NoLostWakeup'
  <2>1. /\ waiting' = [waiting EXCEPT ![target[t]] = @ \cup {t}]
        /\ isBusy' = isBusy /\ target' = target
        /\ \A u \in Threads \ {t} : pc'[u] = pc[u]
        /\ isBusy[target[t]]
    BY <1>7 DEF Wait, MustWait, Goto, VarTypes
  <2>2. \A s \in States \ {target[t]} : waiting'[s] = waiting[s]
    BY <2>1 DEF VarTypes
  <2> QED BY <2>1, <2>2 DEF NoLostWakeup
<1>8. ASSUME NEW t \in Threads, StopWaiting(t) PROVE NoLostWakeup'
  <2>1. /\ waiting' = [waiting EXCEPT ![target[t]] = @ \ {t}]
        /\ isBusy' = isBusy /\ target' = target
        /\ pc' = [pc EXCEPT ![t] = "relock"] /\ pc[t] = "wait"
    BY <1>8 DEF StopWaiting, Goto
  <2> QED BY <2>1 DEF NoLostWakeup, VarTypes
<1>9. ASSUME NEW t \in Threads, End(t) PROVE NoLostWakeup'
  <2> DEFINE s == Top(t).state
  <2>1. PICK woken \in NotifyChoices(s) :
          /\ waiting' = [waiting EXCEPT ![s] = @ \ woken]
          /\ pc' = [u \in Threads |-> IF u = t THEN "run"
                                      ELSE IF u \in woken THEN "relock"
                                      ELSE pc[u]]
    BY <1>9 DEF End
  <2>2. /\ s \in States /\ target' = target /\ pc[t] = "ending"
        /\ isBusy' = [isBusy EXCEPT ![s] = FALSE]
    BY <1>9, TopFacts DEF End, Holding, BusyAfterEnd
  <2> HIDE DEF s
  <2>3. /\ woken \subseteq waiting[s]
        /\ waiting[s] # {} => woken # {}
    BY <2>1 DEF NotifyChoices
  <2>4. \A u \in woken : u \in Threads /\ u # t /\ target[u] = s
    BY <2>2, <2>3 DEF VarTypes, Placed
  <2>5. waiting'[s] # {} => \E u \in Threads : target'[u] = s /\ pc'[u] = "relock"
    BY <2>1, <2>2, <2>3, <2>4 DEF VarTypes
  <2>6. ASSUME NEW r \in States \ {s}, waiting'[r] # {}, ~isBusy'[r]
        PROVE  \E u \in Threads : target'[u] = r /\ pc'[u] \in {"relock", "recheck"}
    <3>1. waiting[r] # {} /\ ~isBusy[r]
      BY <2>1, <2>2, <2>6 DEF VarTypes
    <3>2. PICK u \in Threads : target[u] = r /\ pc[u] \in {"relock", "recheck"}
      BY <3>1 DEF NoLostWakeup
    <3> QED BY <2>1, <2>2, <3>2
  <2> QED BY <2>5, <2>6 DEF NoLostWakeup
<1> QED
  BY <1>1, <1>2, <1>3, <1>4, <1>5, <1>6, <1>7, <1>8, <1>9
  DEF Next, Request, Step, SpuriousWakeup, WaitTimesOut

-----------------------------------------------------------------------------
(* IInv holds initially. *)
LEMMA IInvInit == Init => IInv
<1> SUFFICES ASSUME Init PROVE IInv
  OBVIOUS
<1>1. TypeOK
  BY TypeOKInit
<1>2. \A t \in Threads : stack[t] = <<>> /\ Len(stack[t]) = 0
  BY DEF Init
<1>3. FramesAreBusy /\ SelfCallsAreNested /\ RunningIsOpen
  BY <1>2 DEF FramesAreBusy, SelfCallsAreNested, RunningIsOpen
<1>4. BusyHasRunner /\ EndingIsOuter
  BY DEF Init, BusyHasRunner, EndingIsOuter
<1>5. OrphanIsClosed /\ ClosedCannotBeFound /\ NoLostWakeup
  BY DEF Init, OrphanIsClosed, ClosedCannotBeFound, NoLostWakeup
<1> QED BY <1>1, <1>3, <1>4, <1>5 DEF IInv

(* IInv is inductive. *)
LEMMA IInvStep == IInv /\ [Next]_vars => IInv'
<1> SUFFICES ASSUME IInv, [Next]_vars PROVE IInv'
  OBVIOUS
<1>1. TypeOK /\ StackInv
  BY DEF IInv, StackInv
<1>2. TypeOK'
  BY <1>1, VarTypesStep, PlacedStep DEF TypeOK
<1>3. StackInv'
  BY <1>1, StackInvStep
<1>4. RunningIsOpen' /\ OrphanIsClosed' /\ ClosedCannotBeFound' /\ NoLostWakeup'
  BY <1>1, RunningIsOpenStep, OwnersStep, NoLostWakeupStep DEF IInv
<1> QED BY <1>2, <1>3, <1>4 DEF IInv, StackInv

(* IInv is an invariant of the monitor. *)
THEOREM Invariance == Spec => []IInv
  BY IInvInit, IInvStep, PTL DEF Spec

(* Two threads are never in the same state: calledByThread names the only *)
(* thread that can have calls of it.                                      *)
THEOREM MutuallyExclusive == Spec => []MutualExclusion
<1>1. IInv => MutualExclusion
  BY DEF IInv, FramesAreBusy, MutualExclusion, Inside
<1> QED BY <1>1, Invariance, PTL

(* No callback loses the interpreter it runs in, and calls of a state by *)
(* itself are told from others correctly.                                *)
THEOREM CallbacksAreSafe == Spec => [](RunningIsOpen /\ SelfCallsAreNested)
<1>1. IInv => RunningIsOpen /\ SelfCallsAreNested
  BY DEF IInv
<1> QED BY <1>1, Invariance, PTL

(* The notification at the end of a call is never lost. *)
THEOREM WakeupsAreKept == Spec => []NoLostWakeup
<1>1. IInv => NoLostWakeup
  BY DEF IInv
<1> QED BY <1>1, Invariance, PTL

(* States that have lost their last owner are closed and not found again. *)
THEOREM OrphansAreClosed == Spec => [](OrphanIsClosed /\ ClosedCannotBeFound)
<1>1. IInv => OrphanIsClosed /\ ClosedCannotBeFound
  BY DEF IInv
<1> QED BY <1>1, Invariance, PTL

-----------------------------------------------------------------------------
(* The refinement: what the threads are inside of, as ExclusiveState has it *)

insideMap == [s \in States |-> {t \in Threads : Inside(t, s)}]

(* Nobody is inside of a state that is not busy. *)
LEMMA IdleIsEmpty ==
  ASSUME IInv, NEW s \in States, ~isBusy[s] PROVE insideMap[s] = {}
  BY DEF IInv, FramesAreBusy, Inside, insideMap

(* The thread that has a call of a state is the only one inside of it. *)
LEMMA InsideIsRunner ==
  ASSUME IInv, NEW t \in Threads, NEW s \in States, Inside(t, s)
  PROVE  insideMap[s] = {t}
  BY DEF IInv, FramesAreBusy, Inside, insideMap

(* closing an idle interpreter is a step of ExclusiveState *)
LEMMA ClosingRefines ==
  ASSUME IInv, NEW s \in States, stack' = stack,
         NEW b \in BOOLEAN, L2' = [L2 EXCEPT ![s] = b], (~b /\ ~isBusy[s]) \/ b = L2[s]
  PROVE  [Exclusive!Next]_<<insideMap, L2>>
<1>1. insideMap' = insideMap
  BY DEF insideMap, Inside
<1>2. CASE b = L2[s]
  <2>1. L2' = L2
    BY <1>2 DEF IInv, TypeOK, VarTypes
  <2> QED BY <1>1, <2>1
<1>3. CASE ~b /\ ~isBusy[s]
  <2>1. insideMap[s] = {}
    BY <1>3, IdleIsEmpty
  <2>2. L2' = [L2 EXCEPT ![s] = FALSE]
    BY <1>3
  <2>3. Exclusive!Close(s)
    BY <1>1, <2>1, <2>2 DEF Exclusive!Close, insideMap
  <2> QED BY <2>3 DEF Exclusive!Next
<1> QED BY <1>2, <1>3

(* An outer call begins, a self call stutters in ExclusiveState. *)
LEMMA EnterRefines ==
  ASSUME IInv, NEW t \in Threads, Enter(t)
  PROVE  [Exclusive!Next]_<<insideMap, L2>>
<1> DEFINE s == target[t]
           n == Len(stack[t])
<1>0. TypeOK /\ StackInv
  BY DEF IInv, StackInv
<1>1. /\ s \in States
      /\ isBusy[s] => calledByThread[s] = t
      /\ \A u \in Threads \ {t} : stack'[u] = stack[u]
      /\ n \in Nat
      /\ Len(stack'[t]) = n + 1
      /\ \A i \in 1 .. n : stack'[t][i] = stack[t][i]
      /\ stack'[t][n + 1] = [state |-> s, isSelfCall |-> IsSelfCall(t, s)]
      /\ L2' = L2
  BY <1>0, EnterFacts DEF Enter
<1> HIDE DEF s, n
<1>2. stack'[t][n + 1].state = s
  BY <1>1
<1>3. \A r \in States : Inside(t, r)' <=> Inside(t, r) \/ r = s
  <2>1. \A r \in States : r = s => Inside(t, r)'
    BY <1>1, <1>2 DEF Inside
  <2>2. \A r \in States : Inside(t, r) => Inside(t, r)'
    BY <1>1 DEF Inside, n
  <2>3. ASSUME NEW r \in States, Inside(t, r)', r # s PROVE Inside(t, r)
    <3>1. PICK i \in 1 .. n + 1 : stack'[t][i].state = r
      BY <1>1, <2>3 DEF Inside
    <3>2. i \in 1 .. n
      BY <1>1, <1>2, <2>3, <3>1
    <3> QED BY <1>1, <3>1, <3>2 DEF Inside, n
  <2> QED BY <2>1, <2>2, <2>3
<1>4. \A u \in Threads \ {t} : \A r \in States : Inside(u, r)' <=> Inside(u, r)
  BY <1>1 DEF Inside
<1>5. CASE isBusy[s]
  <2>1. Inside(t, s)
    BY <1>0, <1>1, <1>5 DEF StackInv, BusyHasRunner, Inside
  <2>2. insideMap' = insideMap
    BY <1>3, <1>4, <2>1 DEF insideMap
  <2> QED BY <1>1, <2>2
<1>6. CASE ~isBusy[s]
  <2>1. insideMap[s] = {}
    BY <1>1, <1>6, IdleIsEmpty
  <2>2. \A u \in Threads : ~Inside(u, s)
    BY <1>1, <2>1 DEF insideMap
  <2>3. insideMap' = [insideMap EXCEPT ![s] = {t}]
    BY <1>1, <1>3, <1>4, <2>2 DEF insideMap
  <2>4. Exclusive!Begin(t, s)
    BY <1>1, <2>1, <2>3 DEF Exclusive!Begin, insideMap
  <2> QED BY <1>1, <2>4 DEF Exclusive!Next
<1> QED BY <1>5, <1>6

(* the end of a self call is not seen from outside *)
LEMMA ReturnRefines ==
  ASSUME IInv, NEW t \in Threads, Return(t)
  PROVE  UNCHANGED <<insideMap, L2>>
<1>0. TypeOK /\ StackInv
  BY DEF IInv, StackInv
<1>1. CASE ~Top(t).isSelfCall
  BY <1>1 DEF Return, insideMap, Inside
<1>2. CASE Top(t).isSelfCall
  <2> DEFINE n == Len(stack[t])
             s == Top(t).state
  <2>1. /\ stack[t] # <<>> /\ stack' = [stack EXCEPT ![t] = Pop(t)]
        /\ L2' = L2
    BY <1>2 DEF Return
  <2>2. /\ n \in Nat \ {0}
        /\ Len(stack'[t]) = n - 1
        /\ \A i \in 1 .. n - 1 : stack'[t][i] = stack[t][i]
        /\ \A u \in Threads \ {t} : stack'[u] = stack[u]
    BY <1>0, <2>1, LeaveFacts
  <2>3. Top(t) = stack[t][n]
    BY DEF Top
  <2>4. n \in 1 .. Len(stack[t])
    BY <2>2
  <2>5. PICK j \in 1 .. n - 1 : stack[t][j].state = s
    BY <1>0, <1>2, <2>3, <2>4 DEF StackInv, SelfCallsAreNested
  <2> HIDE DEF n, s
  <2>6. ASSUME NEW r PROVE Inside(t, r)' <=> Inside(t, r)
    <3>1. ASSUME NEW i \in 1 .. n, stack[t][i].state = r
          PROVE  \E k \in 1 .. n - 1 : stack[t][k].state = r
      BY <2>2, <2>3, <2>5, <3>1 DEF s
    <3>2. Inside(t, r) <=> \E k \in 1 .. n - 1 : stack[t][k].state = r
      BY <2>2, <3>1 DEF Inside, n
    <3> QED BY <2>2, <3>2 DEF Inside
  <2>7. \A u \in Threads \ {t} : \A r \in States : Inside(u, r)' <=> Inside(u, r)
    BY <2>2 DEF Inside
  <2> QED BY <2>1, <2>6, <2>7 DEF insideMap
<1> QED BY <1>1, <1>2

(* The end of an outer call leaves the state, and may close it. *)
LEMMA EndRefines ==
  ASSUME IInv, NEW t \in Threads, End(t)
  PROVE  Exclusive!Next
<1> DEFINE s == Top(t).state
<1>0. TypeOK /\ StackInv
  BY DEF IInv, StackInv
<1>1. /\ stack[t] # <<>> /\ stack' = [stack EXCEPT ![t] = Pop(t)]
      /\ L2' = [L2 EXCEPT ![s] = L2AfterEnd(s)]
      /\ pc[t] = "ending"
  BY DEF End, Holding
<1>2. ~Top(t).isSelfCall /\ s \in States
  BY <1>0, <1>1, TopFacts DEF StackInv, EndingIsOuter, TypeOK
<1>3. insideMap[s] = {t}
  <2>1. Inside(t, s)
    BY <1>0, <1>1, TopFacts DEF Inside, Top, TypeOK
  <2> QED BY <1>2, <2>1, InsideIsRunner
<1>4. \A u \in Threads : \A i \in 1 .. Len(stack'[u]) : stack'[u][i].state # s
  <2>1. \A i \in 1 .. Len(stack'[t]) : stack'[t][i].state # s
    BY <1>0, <1>1, <1>2, OuterIsOnly, LeaveFacts
  <2>2. \A u \in Threads \ {t} : \A i \in 1 .. Len(stack'[u]) : stack'[u][i].state # s
    BY <1>0, <1>1, <1>2, OuterIsOnly, LeaveFacts
  <2> QED BY <2>1, <2>2
<1>5. \A u \in Threads : \A r \in States \ {s} : Inside(u, r)' <=> Inside(u, r)
  <2> DEFINE n == Len(stack[t])
  <2>1. /\ n \in Nat \ {0}
        /\ Len(stack'[t]) = n - 1
        /\ \A i \in 1 .. n - 1 : stack'[t][i] = stack[t][i]
        /\ \A u \in Threads \ {t} : stack'[u] = stack[u]
    BY <1>0, <1>1, LeaveFacts
  <2>2. stack[t][n].state = s
    BY DEF Top
  <2> HIDE DEF n, s
  <2>3. ASSUME NEW r \in States \ {s} PROVE Inside(t, r)' <=> Inside(t, r)
    <3>1. Inside(t, r) <=> \E k \in 1 .. n - 1 : stack[t][k].state = r
      BY <2>1, <2>2 DEF Inside, n
    <3> QED BY <2>1, <3>1 DEF Inside
  <2>4. ASSUME NEW u \in Threads \ {t}, NEW r \in States
        PROVE  Inside(u, r)' <=> Inside(u, r)
    <3>1. stack'[u] = stack[u]
      BY <2>1
    <3> QED BY <3>1 DEF Inside
  <2> QED BY <2>3, <2>4
<1> HIDE DEF s
<1>6. insideMap' = [insideMap EXCEPT ![s] = {}]
  <2>1. \A u \in Threads : \A r \in States : r = s => ~Inside(u, r)'
    BY <1>4 DEF Inside
  <2> QED BY <1>2, <1>5, <2>1 DEF insideMap
<1>7. L2' = L2 \/ L2' = [L2 EXCEPT ![s] = FALSE]
  <2>1. L2 \in [States -> BOOLEAN]
    BY <1>0 DEF TypeOK, VarTypes
  <2>2. L2AfterEnd(s) = L2[s] \/ L2AfterEnd(s) = FALSE
    BY <1>2, <2>1 DEF L2AfterEnd
  <2> QED BY <1>1, <1>2, <2>1, <2>2
<1>8. Exclusive!End(t, s)
  BY <1>3, <1>6, <1>7 DEF Exclusive!End, insideMap
<1> QED BY <1>2, <1>8 DEF Exclusive!Next

(* Every step of the monitor is a step of ExclusiveState or a stutter. *)
THEOREM Refinement == Spec => ImplementsExclusive
<1>1. Init => Exclusive!Init
  <2> SUFFICES ASSUME Init PROVE Exclusive!Init
    OBVIOUS
  <2>1. \A t \in Threads : Len(stack[t]) = 0
    BY DEF Init
  <2>2. \A s \in States : {t \in Threads : Inside(t, s)} = {}
    BY <2>1 DEF Inside
  <2> QED BY <2>2 DEF Init, Exclusive!Init
<1>2. IInv /\ [Next]_vars => [Exclusive!Next]_<<insideMap, L2>>
  <2> SUFFICES ASSUME IInv, [Next]_vars PROVE [Exclusive!Next]_<<insideMap, L2>>
    OBVIOUS
  <2>1. CASE UNCHANGED <<stack, L2>>
    BY <2>1 DEF insideMap, Inside
  <2>2. ASSUME NEW t \in Threads, Close(t)
        PROVE  [Exclusive!Next]_<<insideMap, L2>>
    <3>1. target[t] \in States /\ stack' = stack
      BY <2>2 DEF Close, Holding, IInv, TypeOK, Placed, VarTypes
    <3>2. CASE isBusy[target[t]]
      BY <2>2, <3>1, <3>2 DEF Close, CloseRefused, insideMap, Inside
    <3>3. CASE ~isBusy[target[t]]
      <4>1. L2' = [L2 EXCEPT ![target[t]] = FALSE]
        BY <2>2, <3>3 DEF Close, CloseRefused
      <4> QED BY <3>1, <3>3, <4>1, ClosingRefines
    <3> QED BY <3>2, <3>3
  <2>3. ASSUME NEW t \in Threads, Drop(t)
        PROVE  [Exclusive!Next]_<<insideMap, L2>>
    <3>1. /\ target[t] \in States /\ stack' = stack
          /\ L2' = [L2 EXCEPT ![target[t]] = L2AfterDrop(t, target[t])]
      BY <2>3 DEF Drop, Holding, IInv, TypeOK, Placed, VarTypes
    <3>2. L2[target[t]] \in BOOLEAN
      BY <3>1 DEF IInv, TypeOK, VarTypes
    <3>3. L2AfterDrop(t, target[t]) \in BOOLEAN
      BY DEF L2AfterDrop
    <3>4. \/ ~L2AfterDrop(t, target[t]) /\ ~isBusy[target[t]]
          \/ L2AfterDrop(t, target[t]) = L2[target[t]]
      BY <3>2 DEF L2AfterDrop
    <3> QED BY <3>1, <3>3, <3>4, ClosingRefines
  <2> QED
    BY <2>1, <2>2, <2>3, EnterRefines, ReturnRefines, EndRefines
    DEF Next, Request, Step, Lock, LockCall, Relock, LockEnd, LockClose,
        LockDrop, LockMutex, SpuriousWakeup, WaitTimesOut, StopWaiting,
        StartCall, StartClose, StartDrop, TrylockFails, ObjectClosed, TimeOut,
        Wait, Invoke, vars
<1>3. ImplementsExclusive <=> Exclusive!Init /\ [][Exclusive!Next]_<<insideMap, L2>>
  BY DEF ImplementsExclusive, Exclusive!Spec, insideMap
<1> QED BY <1>1, <1>2, <1>3, Invariance, PTL DEF Spec

=============================================================================
