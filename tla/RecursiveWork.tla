----------------------------- MODULE RecursiveWork -----------------------------
(****************************************************************************)
(* project05-wduan/tests/recursive_add_work.c: a client of the thread pool  *)
(* whose work adds more work, to a depth of MAX_DEPTH, and whose main       *)
(* thread decides when to call thread_pool_finish by counting the work that *)
(* remains.  Module ThreadPool supplies the pool and the queue; its         *)
(* contract for clients (ClientAdds, ClientFinishes) is NOT assumed here:   *)
(* this client has a protocol of its own that is meant to imply it.         *)
(*                                                                          *)
(* A piece of work is the path from the root to it in the tree of work, so  *)
(* its depth is its length.  The critical sections of remaining_work_mutex  *)
(* touch nothing but the counter and its condition, and are single steps.   *)
(****************************************************************************)
EXTENDS ThreadPool

CONSTANTS MaxDepth,      \* MAX_DEPTH
          BranchFactor,  \* BRANCH_FACTOR
          SizeMax        \* SIZE_MAX, scaled down

RootWork == <<>>

\* All the work there is: Jobs is to be this set.
Tree == UNION {[1 .. d -> 1 .. BranchFactor] : d \in 0 .. MaxDepth}

VARIABLES
    remaining,  \* remaining_work, a size_t
    todo,       \* where each thread is in recursive_add_work.c
    child,      \* the loop counter of recursive_work
    prints      \* lines printed so far

testVars == <<remaining, todo, child, prints>>
allVars  == <<vars, testVars>>

TodoPCs == {"add", "count", "loop", "uncount", "test", "asleep", "finish"}

TestInit ==
    /\ Init
    /\ remaining = 0
    /\ todo = [t \in Threads |-> IF t = Owner THEN "add" ELSE "loop"]
    /\ child = [t \in Threads |-> 0]
    /\ prints = 0

Then(t, l) == todo' = [todo EXCEPT ![t] = l]

\* The function add_work hands the work to the pool ...
MainAdds ==
    /\ at[Owner] = "open"
    /\ todo[Owner] = "add"
    /\ AddWork(Owner, RootWork)
    /\ Then(Owner, "count")
    /\ UNCHANGED <<remaining, child, prints>>

WorkAdds(w) ==
    /\ at[w] = "running"
    /\ todo[w] = "loop"
    /\ Len(work[w]) < MaxDepth
    /\ child[w] < BranchFactor
    /\ AddWork(w, Append(work[w], child[w] + 1))
    /\ child' = [child EXCEPT ![w] = @ + 1]
    /\ Then(w, "count")
    /\ UNCHANGED <<remaining, prints>>

\* ... and then counts it.
CountWork(t) ==
    /\ at[t] \in {"open", "running"}
    /\ todo[t] = "count"
    /\ remaining' = (remaining + 1) % (SizeMax + 1)
    /\ Then(t, IF t = Owner THEN "test" ELSE "loop")
    /\ UNCHANGED <<vars, child, prints>>

LeavesLoop(w) ==
    /\ at[w] = "running"
    /\ todo[w] = "loop"
    /\ \/ Len(work[w]) = MaxDepth /\ prints' = prints + 1
       \/ Len(work[w]) # MaxDepth /\ child[w] = BranchFactor /\ UNCHANGED prints
    /\ Then(w, "uncount")
    /\ UNCHANGED <<vars, remaining, child>>

\* --remaining_work wraps below zero; the last one signals done_cond.
UncountWork(w) ==
    /\ todo[w] = "uncount"
    /\ WorkReturns(w)
    /\ remaining' = (remaining + SizeMax) % (SizeMax + 1)
    /\ child' = [child EXCEPT ![w] = 0]
    /\ todo' = [todo EXCEPT ![w] = "loop",
                            ![Owner] = IF remaining' = 0 /\ @ = "asleep" THEN "test" ELSE @]
    /\ UNCHANGED prints

\* main waits for remaining_work to be zero, and finishes the pool.
MainTests ==
    /\ todo[Owner] = "test"
    /\ at[Owner] = "open"
    /\ Then(Owner, IF remaining > 0 THEN "asleep" ELSE "finish")
    /\ UNCHANGED <<vars, remaining, child, prints>>

MainFinishes ==
    /\ todo[Owner] = "finish"
    /\ at[Owner] = "open"
    /\ Move(Owner, "pill")
    /\ UNCHANGED <<queueVars, work, i, works, added, runs, testVars>>

PoolStep(t) ==
    /\ \/ QueueStep(t) /\ UNCHANGED poolVars
       \/ AddWorkReturns(t)
       \/ t = Owner /\ OwnerStep
       \/ t \in Workers /\ (Fetch(t) \/ Fetched(t) \/ FreeWork(t))
    /\ UNCHANGED testVars

TestNext ==
    \/ \E t \in Threads : PoolStep(t) \/ CountWork(t)
    \/ \E w \in Workers : WorkAdds(w) \/ LeavesLoop(w) \/ UncountWork(w)
    \/ MainAdds \/ MainTests \/ MainFinishes

TestSpec == TestInit /\ [][TestNext]_allVars

(* The test's expectation (Makefile: "Expected $(RECURSIVE_WORK) prints",   *)
(* 5^5 = 3125): when the pool is finished, every leaf of the tree of work   *)
(* has printed its line.                                                    *)
AllLeavesPrinted ==
    at[Owner] = "closed" => prints = BranchFactor ^ MaxDepth
===============================================================================
