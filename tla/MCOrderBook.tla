----------------------------- MODULE MCOrderBook -----------------------------
(***************************************************************************)
(* Finite instances of OrderBook for TLC.  Order ids are interchangeable.  *)
(***************************************************************************)
EXTENDS OrderBook, TLC

CONSTANTS o1, o2, o3

IdSymmetry == Permutations(OrderIds)
=============================================================================
