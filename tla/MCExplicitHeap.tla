---------------------------- MODULE MCExplicitHeap ----------------------------
(* ExplicitHeap on a small instance, for TLC. *)
EXTENDS ExplicitHeap, TLC

Symmetry == Permutations(Ids)
===============================================================================
