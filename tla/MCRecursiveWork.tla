---------------------------- MODULE MCRecursiveWork ----------------------------
(* RecursiveWork on a small instance, for TLC. *)
EXTENDS RecursiveWork, TLC

ThreadSet == 0 .. NumWorkers
JobSet    == Tree
ValueSet  == Tree \cup {Null}
Symmetry  == Permutations(Addrs)
===============================================================================
