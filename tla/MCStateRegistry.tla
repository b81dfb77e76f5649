--------------------------- MODULE MCStateRegistry ---------------------------
(* Instances of StateRegistry for TLC *)
EXTENDS StateRegistry, TLC

(* threads, objects, references and names are each alike *)
Symmetry ==
  Permutations(Threads) \cup Permutations(States) \cup Permutations(Refs)
    \cup Permutations(Names)

=============================================================================
