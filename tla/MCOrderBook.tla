---------------------------- MODULE MCOrderBook ----------------------------
(* OrderBook for TLC: users are interchangeable. *)
EXTENDS OrderBook, TLC

Symmetry == Permutations(Users)
=============================================================================
