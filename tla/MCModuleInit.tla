----------------------------- MODULE MCModuleInit -----------------------------
(* Three threads race; the start value is below or above other ids. *)
EXTENDS ModuleInit
=============================================================================
