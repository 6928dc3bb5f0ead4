------------------------------ MODULE ThreadPool ------------------------------
(****************************************************************************)
(* project05-wduan/src/thread_pool.c on top of src/queue.c: a fixed set of  *)
(* worker threads that take work from a shared queue, and an owner that     *)
(* creates them, adds work, and ends them with one NULL each.               *)
(*                                                                          *)
(* Thread 0 is the owner (the caller of thread_pool_init and _finish),      *)
(* thread k in 1 .. NumWorkers runs execute_work.  `at` is the position of  *)
(* a thread in thread_pool.c; while it is inside queue_enqueue or           *)
(* queue_dequeue its position in queue.c is `pc` of module Queue.           *)
(* A work_t is identified with the job it carries.                          *)
(****************************************************************************)
EXTENDS Queue

CONSTANTS NumWorkers,   \* num_worker_threads
          Jobs          \* the work that may be added, each at most once

Owner   == 0
Workers == 1 .. NumWorkers

\* A pool of no worker performs nothing; the callers all ask for at least one.
ASSUME PoolAssumption ==
    /\ NumWorkers \in Nat \ {0}
    /\ Threads = 0 .. NumWorkers
    /\ Null \notin Jobs
    /\ Values = Jobs \cup {Null}

VARIABLES
    at,     \* where each thread is in thread_pool.c
    work,   \* the local `work` of execute_work
    i,      \* the owner's loop counter
    works,  \* the work_t that are allocated
    added,  \* history: the jobs handed to thread_pool_add_work
    runs    \* history: how often each job's function has returned

poolVars == <<at, work, i, works, added, runs>>
vars == <<queueVars, poolVars>>

OwnerPCs  == {"create", "open", "adding", "pill", "pilling", "join", "closed"}
WorkerPCs == {"unborn", "fetch", "fetching", "running", "adding", "release", "exited"}

Move(t, l) == at' = [at EXCEPT ![t] = l]

\* thread_pool_init has allocated the pool and the queue, and no thread yet.
Init ==
    /\ QueueInit
    /\ at = [t \in Threads |-> IF t = Owner THEN "create" ELSE "unborn"]
    /\ work = [t \in Threads |-> Null]
    /\ i = 0
    /\ works = {}
    /\ added = {}
    /\ runs = [j \in Jobs |-> 0]

------------------------------------------------------------------------------
(* thread_pool_init: create the workers one by one; they start at once. *)

CreateWorker ==
    /\ at[Owner] = "create"
    /\ i < NumWorkers
    /\ at' = [at EXCEPT ![i + 1] = "fetch"]
    /\ i' = i + 1
    /\ UNCHANGED <<queueVars, work, works, added, runs>>

InitReturns ==
    /\ at[Owner] = "create"
    /\ i = NumWorkers
    /\ Move(Owner, "open")
    /\ i' = 0
    /\ UNCHANGED <<queueVars, work, works, added, runs>>

------------------------------------------------------------------------------
(* thread_pool_add_work, by the owner or from inside a work function. *)

AddWork(t, j) ==
    /\ j \notin added
    /\ works' = works \cup {j}
    /\ added' = added \cup {j}
    /\ CallEnqueue(t, j)
    /\ Move(t, "adding")
    /\ UNCHANGED <<work, i, runs>>

AddWorkReturns(t) ==
    /\ at[t] = "adding"
    /\ pc[t] = "idle"
    /\ Move(t, IF t = Owner THEN "open" ELSE "running")
    /\ UNCHANGED <<queueVars, work, i, works, added, runs>>

------------------------------------------------------------------------------
(* thread_pool_finish *)

EnqueueNull ==
    /\ at[Owner] = "pill"
    /\ i < NumWorkers
    /\ CallEnqueue(Owner, Null)
    /\ Move(Owner, "pilling")
    /\ UNCHANGED <<work, i, works, added, runs>>

NullEnqueued ==
    /\ at[Owner] = "pilling"
    /\ pc[Owner] = "idle"
    /\ Move(Owner, "pill")
    /\ i' = i + 1
    /\ UNCHANGED <<queueVars, work, works, added, runs>>

AllNullsEnqueued ==
    /\ at[Owner] = "pill"
    /\ i = NumWorkers
    /\ Move(Owner, "join")
    /\ i' = 0
    /\ UNCHANGED <<queueVars, work, works, added, runs>>

\* Mutant: do not wait for the worker.
JoinSkips ==
    /\ at[Owner] = "join"
    /\ i < NumWorkers
    /\ i' = i + 1
    /\ UNCHANGED <<queueVars, at, work, works, added, runs>>

Join ==
    /\ at[Owner] = "join"
    /\ i < NumWorkers
    /\ at[i + 1] = "exited"
    /\ i' = i + 1
    /\ UNCHANGED <<queueVars, at, work, works, added, runs>>

FreePool ==
    /\ at[Owner] = "join"
    /\ i = NumWorkers
    /\ QueueFree
    /\ Move(Owner, "closed")
    /\ UNCHANGED <<work, i, works, added, runs>>

------------------------------------------------------------------------------
(* execute_work *)

Fetch(w) ==
    /\ at[w] = "fetch"
    /\ CallDequeue(w)
    /\ Move(w, "fetching")
    /\ UNCHANGED <<work, i, works, added, runs>>

\* Mutant: NULL is skipped and the loop goes on.
FetchedGoesOn(w) ==
    /\ at[w] = "fetching"
    /\ pc[w] = "idle"
    /\ work' = [work EXCEPT ![w] = val[w]]
    /\ Move(w, IF val[w] = Null THEN "fetch" ELSE "running")
    /\ UNCHANGED <<queueVars, i, works, added, runs>>

Fetched(w) ==
    /\ at[w] = "fetching"
    /\ pc[w] = "idle"
    /\ work' = [work EXCEPT ![w] = val[w]]
    /\ Move(w, IF val[w] = Null THEN "exited" ELSE "running")
    /\ UNCHANGED <<queueVars, i, works, added, runs>>

WorkReturns(w) ==
    /\ at[w] = "running"
    /\ runs' = [runs EXCEPT ![work[w]] = @ + 1]
    /\ Move(w, "release")
    /\ UNCHANGED <<queueVars, work, i, works, added>>

\* Mutant: the work_t is not freed.
FreeWorkLeaks(w) ==
    /\ at[w] = "release"
    /\ work' = [work EXCEPT ![w] = Null]
    /\ Move(w, "fetch")
    /\ UNCHANGED <<queueVars, i, works, added, runs>>

FreeWork(w) ==
    /\ at[w] = "release"
    /\ works' = works \ {work[w]}
    /\ work' = [work EXCEPT ![w] = Null]
    /\ Move(w, "fetch")
    /\ UNCHANGED <<queueVars, i, added, runs>>

------------------------------------------------------------------------------
(* The clients of the pool.                                                 *)
(* thread_pool.h:43: "thread_pool_add_work() cannot be used on this pool    *)
(* once this function is called".  A client that honours it adds work from  *)
(* the owner or from running work only while the pool is open, and calls    *)
(* thread_pool_finish when no call of thread_pool_add_work is under way.    *)

PoolOpen == at[Owner] \in {"create", "open", "adding"}

ClientAdds(t, j) ==
    /\ at[t] = (IF t = Owner THEN "open" ELSE "running")
    /\ PoolOpen
    /\ AddWork(t, j)

ClientFinishes ==
    /\ at[Owner] = "open"
    /\ \A w \in Workers : at[w] # "adding"
    /\ Move(Owner, "pill")
    /\ UNCHANGED <<queueVars, work, i, works, added, runs>>

OwnerStep ==
    \/ CreateWorker \/ InitReturns
    \/ EnqueueNull \/ NullEnqueued \/ AllNullsEnqueued \/ Join \/ FreePool

WorkerStep(w) == Fetch(w) \/ Fetched(w) \/ WorkReturns(w) \/ FreeWork(w)

\* What thread t does of its own accord, the queue operations included.
Run(t) ==
    \/ QueueStep(t) /\ UNCHANGED poolVars
    \/ AddWorkReturns(t)
    \/ t = Owner /\ OwnerStep
    \/ t \in Workers /\ WorkerStep(t)

Spurious(t) == DeqSpurious(t) /\ UNCHANGED poolVars

Next ==
    \/ \E t \in Threads : Run(t) \/ Spurious(t) \/ \E j \in Jobs : ClientAdds(t, j)
    \/ ClientFinishes

Spec == Init /\ [][Next]_vars

(* Threads are scheduled, work functions return, and a free mutex is        *)
(* eventually granted (the number of calls of the queue is finite, so weak  *)
(* fairness suffices).  A client need not add work nor finish.              *)
Fairness == \A t \in Threads : WF_vars(Run(t))

FairSpec == Spec /\ Fairness

------------------------------------------------------------------------------
(* Properties *)

PoolTypeOK ==
    /\ QueueTypeOK
    /\ at \in [Threads -> OwnerPCs \cup WorkerPCs]
    /\ at[Owner] \in OwnerPCs
    /\ \A w \in Workers : at[w] \in WorkerPCs
    /\ work \in [Threads -> Values]
    /\ i \in 0 .. NumWorkers
    /\ works \subseteq Jobs
    /\ added \subseteq Jobs
    /\ runs \in [Jobs -> Nat]

\* Threads past the take of a NULL: they have it as result, or have exited.
GotNull ==
    {w \in Workers :
        \/ at[w] = "exited"
        \/ at[w] = "fetching" /\ Phase[w] \in {"dequeued", "idle"} /\ val[w] = Null}

\* Where v is in the queue.
Queueing(v) == {k \in DOMAIN Queued : Queued[k] = v}

(* Nothing is queued behind a marker, and a worker stops only when no work  *)
(* is left in the queue: thread_pool_finish cannot cut work off             *)
(* (thread_pool.c:24, 55-57).                                               *)
NothingBehindMarkers ==
    /\ \A k, l \in DOMAIN Queued : k < l /\ Queued[k] = Null => Queued[l] = Null
    /\ GotNull # {} => \A k \in DOMAIN Queued : Queued[k] = Null

(* Each marker ends one worker: those queued and those already consumed are *)
(* as many as the owner has linked so far, at most one per worker, so that  *)
(* no worker waits for a marker that another one took twice.                *)
MarkersLinked ==
    CASE at[Owner] = "pill" -> i
      [] at[Owner] = "pilling" -> IF Phase[Owner] = "enqueue" THEN i ELSE i + 1
      [] at[Owner] \in {"join", "closed"} -> NumWorkers
      [] OTHER -> 0

OneMarkerPerWorker ==
    Cardinality(GotNull) + Cardinality(Queueing(Null)) = MarkersLinked

(* Who is responsible for the work_t of job j: a thread that is handing it  *)
(* to the queue, the queue, or the worker that took it.                     *)
Handing(j)  == {t \in Threads : at[t] = "adding" /\ Phase[t] = "enqueue" /\ val[t] = j}
Holding(j) ==
    {w \in Workers :
        \/ at[w] = "fetching" /\ Phase[w] \in {"dequeued", "idle"} /\ val[w] = j
        \/ at[w] \in {"running", "adding", "release"} /\ work[w] = j}

(* Every allocated work_t has exactly one owner at every instant, a freed   *)
(* one has none: it cannot be run or freed twice, nor leak, whatever the    *)
(* interleaving of add, take, run and free (thread_pool.c:23-30, 48-51).    *)
OneOwnerPerWork ==
    \A j \in Jobs :
        Cardinality(Handing(j)) + Cardinality(Queueing(j)) + Cardinality(Holding(j))
            = (IF j \in works THEN 1 ELSE 0)

(* thread_pool_finish "waits for all work added to a thread pool to finish" *)
(* (thread_pool.h:40): when it frees the pool each job has run exactly once *)
(* and its work_t is freed, every worker has exited, and the queue it frees *)
(* has no node left to leak (queue.h:42).                                   *)
FinishWaits ==
    at[Owner] = "closed" =>
        /\ \A j \in added : runs[j] = 1
        /\ works = {}
        /\ alloc = {}
        /\ \A w \in Workers : at[w] = "exited"

\* The refinement mapping to what thread_pool.h promises.
AbsStage == IF PoolOpen THEN "open" ELSE IF at[Owner] = "closed" THEN "closed" ELSE "finishing"

Pool == INSTANCE WorkPool
            WITH stage <- AbsStage, performed <- {j \in Jobs : runs[j] > 0}

(* The workers, the queue and the markers together are a pool as            *)
(* thread_pool.h describes it: nothing is performed that was not added,     *)
(* finish returns only when all is performed, and it does return.           *)
ImplementsPool == Pool!FairSpec

(* Once finish is called every worker exits and the pool is freed, wherever *)
(* the workers were: running, between two calls, or asleep on the condition *)
(* variable.                                                                *)
FinishTerminates == (at[Owner] = "pill") ~> (at[Owner] = "closed")
===============================================================================
