------------------------------ MODULE FifoQueue ------------------------------
(****************************************************************************)
(* What include/queue.h promises its callers, with no lock, node or signal: *)
(* a sequence of values; a call takes effect in one indivisible step at     *)
(* some instant between its invocation and its return; a dequeue takes the  *)
(* first value that was enqueued and not yet dequeued, and takes effect     *)
(* only when there is one.                                                  *)
(****************************************************************************)
EXTENDS Sequences

CONSTANTS Threads,  \* the threads that call the queue
          Values,   \* what may be enqueued (void * in the code)
          Null      \* the NULL value

VARIABLES items,    \* the values enqueued and not yet dequeued, oldest first
          phase,    \* where each thread is in its current call
          val       \* argument of an enqueue, then result of a dequeue

vars == <<items, phase, val>>

Phases == {"idle", "enqueue", "enqueued", "dequeue", "dequeued"}

Init ==
    /\ items = <<>>
    /\ phase = [t \in Threads |-> "idle"]
    /\ val = [t \in Threads |-> Null]

InvokeEnqueue(t, v) ==
    /\ phase[t] = "idle"
    /\ phase' = [phase EXCEPT ![t] = "enqueue"]
    /\ val' = [val EXCEPT ![t] = v]
    /\ UNCHANGED items

InvokeDequeue(t) ==
    /\ phase[t] = "idle"
    /\ phase' = [phase EXCEPT ![t] = "dequeue"]
    /\ val' = [val EXCEPT ![t] = Null]
    /\ UNCHANGED items

Enqueue(t) ==
    /\ phase[t] = "enqueue"
    /\ phase' = [phase EXCEPT ![t] = "enqueued"]
    /\ items' = Append(items, val[t])
    /\ UNCHANGED val

Dequeue(t) ==
    /\ phase[t] = "dequeue"
    /\ items # <<>>
    /\ phase' = [phase EXCEPT ![t] = "dequeued"]
    /\ val' = [val EXCEPT ![t] = Head(items)]
    /\ items' = Tail(items)

ReturnEnqueue(t) ==
    /\ phase[t] = "enqueued"
    /\ phase' = [phase EXCEPT ![t] = "idle"]
    /\ val' = [val EXCEPT ![t] = Null]
    /\ UNCHANGED items

ReturnDequeue(t) ==
    /\ phase[t] = "dequeued"
    /\ phase' = [phase EXCEPT ![t] = "idle"]
    /\ UNCHANGED <<items, val>>

\* What the queue itself does, as opposed to what its callers choose to do.
Progress(t) ==
    Enqueue(t) \/ Dequeue(t) \/ ReturnEnqueue(t) \/ ReturnDequeue(t)

Next ==
    \E t \in Threads :
        \/ \E v \in Values : InvokeEnqueue(t, v)
        \/ InvokeDequeue(t)
        \/ Progress(t)

Spec == Init /\ [][Next]_vars

\* Every call completes, a dequeue provided there is something to take.
FairSpec == Spec /\ \A t \in Threads : WF_vars(Progress(t))
==============================================================================
