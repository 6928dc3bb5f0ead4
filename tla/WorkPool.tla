------------------------------- MODULE WorkPool -------------------------------
(****************************************************************************)
(* What include/thread_pool.h promises, with no worker, queue or marker:    *)
(* work is added while the pool is open, each piece is performed exactly    *)
(* once, and thread_pool_finish returns only when all of it is finished.    *)
(****************************************************************************)
CONSTANT Jobs        \* the pieces of work

VARIABLES stage,     \* "open", "finishing" (in thread_pool_finish), "closed"
          added,     \* the work handed to thread_pool_add_work
          performed  \* the work whose function has returned

vars == <<stage, added, performed>>

Init == stage = "open" /\ added = {} /\ performed = {}

Add(j) ==
    /\ stage = "open"
    /\ j \notin added
    /\ added' = added \cup {j}
    /\ UNCHANGED <<stage, performed>>

Perform(j) ==
    /\ j \in added \ performed
    /\ performed' = performed \cup {j}
    /\ UNCHANGED <<stage, added>>

Finish ==
    /\ stage = "open"
    /\ stage' = "finishing"
    /\ UNCHANGED <<added, performed>>

Close ==
    /\ stage = "finishing"
    /\ performed = added
    /\ stage' = "closed"
    /\ UNCHANGED <<added, performed>>

Next == (\E j \in Jobs : Add(j) \/ Perform(j)) \/ Finish \/ Close

Spec == Init /\ [][Next]_vars

\* All work added is performed, finished or not; and finishing ends.
FairSpec == Spec /\ (\A j \in Jobs : WF_vars(Perform(j))) /\ WF_vars(Close)
===============================================================================
