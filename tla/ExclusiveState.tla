---------------------------- MODULE ExclusiveState ----------------------------
(***************************************************************************)
(* What the monitor of an MtState promises to the code that runs in it:    *)
(* an interpreter belongs to one thread at a time, it is closed only when  *)
(* no thread is inside (the thread that leaves may be the one that closes  *)
(* it), and it is never opened again.                                      *)
(***************************************************************************)
CONSTANTS Threads, States

VARIABLES
  inside, \* inside[s] : the threads that run code in the interpreter of s
  open    \* open[s] : the interpreter of s exists

Init ==
  /\ inside = [s \in States |-> {}]
  /\ open = [s \in States |-> TRUE]

Begin(t, s) ==
  /\ inside[s] = {}
  /\ inside' = [inside EXCEPT ![s] = {t}]
  /\ UNCHANGED open

(* t leaves s, as the last user of s it may close the interpreter *)
End(t, s) ==
  /\ inside[s] = {t}
  /\ inside' = [inside EXCEPT ![s] = {}]
  /\ \/ UNCHANGED open
     \/ open' = [open EXCEPT ![s] = FALSE]

Close(s) ==
  /\ inside[s] = {}
  /\ open' = [open EXCEPT ![s] = FALSE]
  /\ UNCHANGED inside

Next ==
  \E s \in States :
    \/ Close(s)
    \/ \E t \in Threads : Begin(t, s) \/ End(t, s)

Spec == Init /\ [][Next]_<<inside, open>>

=============================================================================
