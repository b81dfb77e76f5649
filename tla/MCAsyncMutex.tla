---------------------------- MODULE MCAsyncMutex ----------------------------
(* Three threads; 4 ticks are a millisecond, 2 milliseconds a second. *)
EXTENDS AsyncMutex
=============================================================================
