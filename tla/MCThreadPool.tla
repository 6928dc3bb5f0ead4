----------------------------- MODULE MCThreadPool -----------------------------
(* ThreadPool on a small instance, for TLC. *)
EXTENDS ThreadPool

ThreadSet == 0 .. NumWorkers
ValueSet  == Jobs \cup {Null}
===============================================================================
