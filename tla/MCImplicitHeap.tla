---------------------------- MODULE MCImplicitHeap ----------------------------
(* ImplicitHeap on a small instance, for TLC. *)
EXTENDS ImplicitHeap, TLC

Symmetry == Permutations(Ids)
===============================================================================
