------------------------------ MODULE MCBuckets ------------------------------
(* A small table with low limits, so that it grows and shrinks. *)
EXTENDS Buckets
=============================================================================
