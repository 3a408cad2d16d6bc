---------------------------- MODULE MCStateStore ----------------------------
(* The storage with two calls under way. *)
EXTENDS StateStore, TLC

Symmetry == Permutations(Calls)
=============================================================================
