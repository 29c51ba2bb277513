---------------------------- MODULE MCHashIndex ----------------------------
(* HashIndex for TLC: keys and values are interchangeable. *)
EXTENDS HashIndex, TLC

Symmetry == Permutations(Keys) \cup Permutations(Values)
=============================================================================
