------------------------------- MODULE Delivery -------------------------------
(***************************************************************************)
(* The two ways of values to a callback: native code fills a writer        *)
(* (module Writer), a Lua state calls with arguments (module Transfer) and *)
(* may be interrupted while it does (module Interrupt).                    *)
(* They share the interpreter of the callback only, which a call leaves as *)
(* it was found (StackIsRestored), so a writer is filled between calls.    *)
(***************************************************************************)
EXTENDS Writer, Interrupt

DeliveryInit == Init /\ InterruptInit

(* writers are looked at before all calls, calls with no writer open *)
DeliveryNext ==
  \/ Next /\ InterruptInit /\ UNCHANGED <<transferVars, hookVars>>
  \/ ~open /\ InterruptNext /\ UNCHANGED vars

DeliverySpec == DeliveryInit /\ [][DeliveryNext]_<<vars, transferVars, hookVars>>

(* The variables of both modules have their types. *)
DeliveryTypeOK == TypeOK /\ TransferTypeOK

=============================================================================
