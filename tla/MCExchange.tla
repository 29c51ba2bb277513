----------------------------- MODULE MCExchange -----------------------------
(* Exchange for TLC: users, funded alike, are interchangeable. *)
EXTENDS Exchange, TLC

Symmetry == Permutations(Users) \cup Permutations(Symbols)
=============================================================================
