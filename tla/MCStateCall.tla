----------------------------- MODULE MCStateCall -----------------------------
(* Instances of StateCall for TLC *)
EXTENDS StateCall, TLC

(* the threads are alike, and so are the states *)
Symmetry == Permutations(Threads) \cup Permutations(States)

=============================================================================
