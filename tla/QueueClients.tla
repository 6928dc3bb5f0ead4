----------------------------- MODULE QueueClients -----------------------------
(****************************************************************************)
(* The queue of module Queue under arbitrary callers: every thread enqueues *)
(* and dequeues what it likes, in any order, as the tests mqueue_push_pop   *)
(* and mqueue_empty and the thread pool do.  Each thread makes at most      *)
(* MaxCalls calls, and none enqueues when memory is short.                  *)
(****************************************************************************)
EXTENDS Queue

CONSTANT MaxCalls    \* bound: calls per thread

ASSUME ClientsAssumption == MaxCalls \in Nat

VARIABLE calls       \* calls made so far by each thread

clientsVars == <<queueVars, calls>>

ClientsInit == QueueInit /\ calls = [t \in Threads |-> 0]

Count(t) ==
    /\ calls[t] < MaxCalls
    /\ calls' = [calls EXCEPT ![t] = @ + 1]

\* queue_enqueue "should succeed unless the program runs out of memory"
\* (queue.h:18): bound, every enqueue under way has a node left to allocate.
MemoryLeft ==
    Cardinality(alloc) + Cardinality({t \in Threads : pc[t] \in {"enq_lock", "enq_node"}})
        < Cardinality(Addrs)

ClientEnqueue(t, v) == MemoryLeft /\ CallEnqueue(t, v) /\ Count(t)
ClientDequeue(t)    == CallDequeue(t) /\ Count(t)
ClientStep(t)       == QueueStep(t) /\ UNCHANGED calls
ClientSpurious(t)   == DeqSpurious(t) /\ UNCHANGED calls

ClientsNext ==
    \E t \in Threads :
        \/ \E v \in Values : ClientEnqueue(t, v)
        \/ ClientDequeue(t)
        \/ ClientStep(t)
        \/ ClientSpurious(t)

ClientsSpec == ClientsInit /\ [][ClientsNext]_clientsVars

(* A thread that is inside an operation is scheduled again, and a free      *)
(* mutex is eventually granted to it.  Weak fairness is enough although     *)
(* several threads compete for the mutex: calls and spurious wakeups are    *)
(* finite in number, so the others cannot take it ahead of a thread forever.*)
(* Nobody is obliged to call the queue.                                     *)
ClientsFairness == \A t \in Threads : WF_clientsVars(ClientStep(t))

ClientsFairSpec == ClientsSpec /\ ClientsFairness

------------------------------------------------------------------------------
(* Properties *)

(* The linked list behind its lock is linearizable: every behaviour of      *)
(* queue.c is one of the FIFO queue that queue.h describes.                 *)
ImplementsFifo == Fifo!Spec

(* And it completes the calls the abstract queue completes: each enqueue,   *)
(* and each dequeue for which a value stays available.                      *)
ImplementsFairFifo == Fifo!FairSpec

(* When the callers stop, everyone has returned except dequeues blocked on  *)
(* a queue that really is empty: no value is stranded behind a sleeping     *)
(* consumer, and the mutex is free.                                         *)
Quiescence ==
    <>[](/\ lock = NoThread
         /\ \A t \in Threads : pc[t] = "idle" \/ (pc[t] = "deq_wait" /\ size = 0))
===============================================================================
