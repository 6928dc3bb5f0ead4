-------------------------------- MODULE Queue --------------------------------
(****************************************************************************)
(* project05-wduan/src/queue.c: an unbounded FIFO queue as a doubly linked  *)
(* list of malloc'd nodes, one mutex and one condition variable.            *)
(*                                                                          *)
(* The queue has no thread of its own.  Each operation is a sequence of     *)
(* steps of its caller, cut wherever another thread could observe or        *)
(* disturb the struct: at every pthread call, and inside the critical       *)
(* sections between the changes of the list and the changes of the struct.  *)
(* Modules that compose the queue with its callers (QueueClients,           *)
(* ThreadPool) extend this one and supply the calls.                        *)
(****************************************************************************)
EXTENDS Naturals, Sequences, FiniteSets

CONSTANTS Threads,      \* the threads that may call the queue
          Values,       \* what is enqueued: void *, NULL included
          Addrs,        \* addresses malloc may return for a node_t
          Null,         \* the NULL pointer
          NoThread,     \* "the mutex has no owner"
          MaxSpurious   \* bound: spurious returns of pthread_cond_wait

ASSUME QueueAssumption ==
    /\ Null \in Values
    /\ Null \notin Addrs
    /\ NoThread \notin Threads
    /\ MaxSpurious \in Nat

VARIABLES
    live,      \* the struct queue is allocated (queue_init .. queue_free)
    head,      \* queue->head
    tail,      \* queue->tail
    size,      \* queue->size
    node,      \* contents of the node_t at each address
    alloc,     \* addresses of the node_t that are allocated
    lock,      \* owner of queue->lock
    pc,        \* where each thread is inside a queue operation
    val,       \* the operation's argument, then its result
    loc,       \* the local pointer: `node` of an enqueue, `nxt` of a dequeue
    spurious,  \* spurious wakeups so far (only there to bound them)
    order      \* history: the linked nodes, in the order they were linked

queueVars ==
    <<live, head, tail, size, node, alloc, lock, pc, val, loc, spurious, order>>

\* What node_init writes; freed memory, never read, is kept blank.
NewNode(v) == [value |-> v, left |-> Null, right |-> Null]
Blank      == NewNode(Null)
Node       == [value : Values, left : Addrs \cup {Null}, right : Addrs \cup {Null}]

\* Steps of queue_enqueue and queue_dequeue, each named for what comes next.
EnqueuePCs == {"enq_lock", "enq_node", "enq_link", "enq_signal", "enq_unlock"}
DequeuePCs == {"deq_lock", "deq_test", "deq_wait", "deq_relock",
               "deq_clear", "deq_advance", "deq_unlock"}
PCs        == {"idle"} \cup EnqueuePCs \cup DequeuePCs

\* Between pthread_mutex_lock (or the return of pthread_cond_wait) and
\* pthread_mutex_unlock.
Critical == {"enq_node", "enq_link", "enq_signal", "enq_unlock",
             "deq_test", "deq_clear", "deq_advance", "deq_unlock"}

\* Threads blocked in pthread_cond_wait that no signal has picked yet.
Waiting == {t \in Threads : pc[t] = "deq_wait"}

Goto(t, l) == pc' = [pc EXCEPT ![t] = l]

QueueInit ==
    /\ live = TRUE
    /\ head = Null
    /\ tail = Null
    /\ size = 0
    /\ node = [a \in Addrs |-> Blank]
    /\ alloc = {}
    /\ lock = NoThread
    /\ pc = [t \in Threads |-> "idle"]
    /\ val = [t \in Threads |-> Null]
    /\ loc = [t \in Threads |-> Null]
    /\ spurious = 0
    /\ order = <<>>

------------------------------------------------------------------------------
(* queue_enqueue *)

CallEnqueue(t, v) ==
    /\ pc[t] = "idle"
    /\ Goto(t, "enq_lock")
    /\ val' = [val EXCEPT ![t] = v]
    /\ UNCHANGED <<live, head, tail, size, node, alloc, lock, loc, spurious, order>>

\* Mutant: the list is changed without the lock.
EnqLockUnguarded(t) ==
    /\ pc[t] = "enq_lock"
    /\ lock' = t
    /\ Goto(t, "enq_node")
    /\ UNCHANGED <<live, head, tail, size, node, alloc, val, loc, spurious, order>>

EnqLock(t) ==
    /\ pc[t] = "enq_lock"
    /\ lock = NoThread
    /\ lock' = t
    /\ Goto(t, "enq_node")
    /\ UNCHANGED <<live, head, tail, size, node, alloc, val, loc, spurious, order>>

\* node_init; malloc is taken to succeed, as the code takes it.
EnqNode(t) ==
    /\ pc[t] = "enq_node"
    /\ \E a \in Addrs \ alloc :
          /\ alloc' = alloc \cup {a}
          /\ node' = [node EXCEPT ![a] = NewNode(val[t])]
          /\ loc' = [loc EXCEPT ![t] = a]
    /\ Goto(t, "enq_link")
    /\ UNCHANGED <<live, head, tail, size, lock, val, spurious, order>>

EnqLinkFirst(t) ==
    /\ pc[t] = "enq_link"
    /\ head = Null
    /\ head' = loc[t]
    /\ tail' = loc[t]
    /\ size' = 1
    /\ order' = Append(order, loc[t])
    /\ Goto(t, "enq_signal")
    /\ UNCHANGED <<live, node, alloc, lock, val, loc, spurious>>

EnqLinkLast(t) ==
    /\ pc[t] = "enq_link"
    /\ head # Null
    /\ node' = [node EXCEPT ![tail].right = loc[t], ![loc[t]].left = tail]
    /\ tail' = loc[t]
    /\ size' = size + 1
    /\ order' = Append(order, loc[t])
    /\ Goto(t, "enq_signal")
    /\ UNCHANGED <<live, head, alloc, lock, val, loc, spurious>>

\* Mutant: signal only when the queue was empty.
EnqSignalFirstOnly(t) ==
    /\ pc[t] = "enq_signal"
    /\ IF size = 1 /\ Waiting # {}
       THEN \E w \in Waiting : pc' = [pc EXCEPT ![t] = "enq_unlock", ![w] = "deq_relock"]
       ELSE Goto(t, "enq_unlock")
    /\ UNCHANGED <<live, head, tail, size, node, alloc, lock, val, loc, spurious, order>>

\* pthread_cond_signal: some waiter, if there is one, must take the lock again.
EnqSignal(t) ==
    /\ pc[t] = "enq_signal"
    /\ \/ /\ Waiting = {}
          /\ Goto(t, "enq_unlock")
       \/ \E w \in Waiting :
             pc' = [pc EXCEPT ![t] = "enq_unlock", ![w] = "deq_relock"]
    /\ UNCHANGED <<live, head, tail, size, node, alloc, lock, val, loc, spurious, order>>

EnqUnlock(t) ==
    /\ pc[t] = "enq_unlock"
    /\ lock' = NoThread
    /\ val' = [val EXCEPT ![t] = Null]
    /\ loc' = [loc EXCEPT ![t] = Null]
    /\ Goto(t, "idle")
    /\ UNCHANGED <<live, head, tail, size, node, alloc, spurious, order>>

------------------------------------------------------------------------------
(* queue_dequeue *)

CallDequeue(t) ==
    /\ pc[t] = "idle"
    /\ Goto(t, "deq_lock")
    /\ val' = [val EXCEPT ![t] = Null]
    /\ UNCHANGED <<live, head, tail, size, node, alloc, lock, loc, spurious, order>>

DeqLock(t) ==
    /\ pc[t] = "deq_lock"
    /\ lock = NoThread
    /\ lock' = t
    /\ Goto(t, "deq_test")
    /\ UNCHANGED <<live, head, tail, size, node, alloc, val, loc, spurious, order>>

\* pthread_cond_wait: release the lock and block, in one step.
DeqWait(t) ==
    /\ pc[t] = "deq_test"
    /\ size = 0
    /\ lock' = NoThread
    /\ Goto(t, "deq_wait")
    /\ UNCHANGED <<live, head, tail, size, node, alloc, val, loc, spurious, order>>

\* pthread_cond_wait may return though nobody signalled.
DeqSpurious(t) ==
    /\ pc[t] = "deq_wait"
    /\ spurious < MaxSpurious
    /\ spurious' = spurious + 1
    /\ Goto(t, "deq_relock")
    /\ UNCHANGED <<live, head, tail, size, node, alloc, lock, val, loc, order>>

\* A woken waiter owns the lock again before it tests the size again.
DeqRelock(t) ==
    /\ pc[t] = "deq_relock"
    /\ lock = NoThread
    /\ lock' = t
    /\ Goto(t, "deq_test")
    /\ UNCHANGED <<live, head, tail, size, node, alloc, val, loc, spurious, order>>

\* size == 1: read the value and free the node, the struct still names it.
DeqTakeLast(t) ==
    /\ pc[t] = "deq_test"
    /\ size = 1
    /\ val' = [val EXCEPT ![t] = node[head].value]
    /\ alloc' = alloc \ {head}
    /\ node' = [node EXCEPT ![head] = Blank]
    /\ order' = Tail(order)
    /\ Goto(t, "deq_clear")
    /\ UNCHANGED <<live, head, tail, size, lock, loc, spurious>>

DeqClear(t) ==
    /\ pc[t] = "deq_clear"
    /\ head' = Null
    /\ tail' = Null
    /\ size' = 0
    /\ Goto(t, "deq_unlock")
    /\ UNCHANGED <<live, node, alloc, lock, val, loc, spurious, order>>

\* Mutants: the old head is not freed; the value is read at the wrong end.
DeqTakeFirstNoFree(t) ==
    /\ pc[t] = "deq_test"
    /\ size \notin {0, 1}
    /\ val' = [val EXCEPT ![t] = node[head].value]
    /\ loc' = [loc EXCEPT ![t] = node[head].right]
    /\ node' = [node EXCEPT ![node[head].right].left = Null]
    /\ order' = Tail(order)
    /\ Goto(t, "deq_advance")
    /\ UNCHANGED <<live, head, tail, size, alloc, lock, spurious>>

DeqTakeFirstWrongEnd(t) ==
    /\ pc[t] = "deq_test"
    /\ size \notin {0, 1}
    /\ val' = [val EXCEPT ![t] = node[tail].value]
    /\ loc' = [loc EXCEPT ![t] = node[head].right]
    /\ node' = [node EXCEPT ![node[head].right].left = Null, ![head] = Blank]
    /\ alloc' = alloc \ {head}
    /\ order' = Tail(order)
    /\ Goto(t, "deq_advance")
    /\ UNCHANGED <<live, head, tail, size, lock, spurious>>

\* size > 1: unlink the successor from the head, then free the head.
DeqTakeFirst(t) ==
    /\ pc[t] = "deq_test"
    /\ size \notin {0, 1}
    /\ val' = [val EXCEPT ![t] = node[head].value]
    /\ loc' = [loc EXCEPT ![t] = node[head].right]
    /\ node' = [node EXCEPT ![node[head].right].left = Null, ![head] = Blank]
    /\ alloc' = alloc \ {head}
    /\ order' = Tail(order)
    /\ Goto(t, "deq_advance")
    /\ UNCHANGED <<live, head, tail, size, lock, spurious>>

\* Mutant: the size is not counted down.
DeqAdvanceSameSize(t) ==
    /\ pc[t] = "deq_advance"
    /\ head' = loc[t]
    /\ Goto(t, "deq_unlock")
    /\ UNCHANGED <<live, tail, size, node, alloc, lock, val, loc, spurious, order>>

DeqAdvance(t) ==
    /\ pc[t] = "deq_advance"
    /\ head' = loc[t]
    /\ size' = size - 1
    /\ Goto(t, "deq_unlock")
    /\ UNCHANGED <<live, tail, node, alloc, lock, val, loc, spurious, order>>

DeqUnlock(t) ==
    /\ pc[t] = "deq_unlock"
    /\ lock' = NoThread
    /\ loc' = [loc EXCEPT ![t] = Null]
    /\ Goto(t, "idle")
    /\ UNCHANGED <<live, head, tail, size, node, alloc, val, spurious, order>>

------------------------------------------------------------------------------

\* queue_free frees the struct, and neither the nodes nor the mutex.
QueueFree ==
    /\ live' = FALSE
    /\ UNCHANGED <<head, tail, size, node, alloc, lock, pc, val, loc, spurious, order>>

\* The steps of an operation once it is called.
EnqueueStep(t) ==
    \/ EnqLock(t) \/ EnqNode(t) \/ EnqLinkFirst(t) \/ EnqLinkLast(t)
    \/ EnqSignal(t) \/ EnqUnlock(t)

DequeueStep(t) ==
    \/ DeqLock(t) \/ DeqWait(t) \/ DeqRelock(t)
    \/ DeqTakeLast(t) \/ DeqClear(t) \/ DeqTakeFirst(t) \/ DeqAdvance(t)
    \/ DeqUnlock(t)

QueueStep(t) == EnqueueStep(t) \/ DequeueStep(t)

------------------------------------------------------------------------------
(* What FifoQueue promises: the values of the linked nodes are the abstract *)
(* sequence, a call takes effect when its node is linked, or taken out of   *)
(* the list.                                                                *)

PhaseOf(l) ==
    CASE l = "idle" -> "idle"
      [] l \in {"enq_lock", "enq_node", "enq_link"} -> "enqueue"
      [] l \in {"enq_signal", "enq_unlock"} -> "enqueued"
      [] l \in {"deq_lock", "deq_test", "deq_wait", "deq_relock"} -> "dequeue"
      [] l \in {"deq_clear", "deq_advance", "deq_unlock"} -> "dequeued"

Phase == [t \in Threads |-> PhaseOf(pc[t])]

Queued == [k \in 1 .. Len(order) |-> node[order[k]].value]

Fifo == INSTANCE FifoQueue WITH items <- Queued, phase <- Phase

------------------------------------------------------------------------------
(* Invariants of the queue, whoever calls it. *)

\* Types of the struct, the nodes and the threads' locals.
QueueTypeOK ==
    /\ live \in BOOLEAN
    /\ head \in Addrs \cup {Null}
    /\ tail \in Addrs \cup {Null}
    /\ size \in Nat
    /\ node \in [Addrs -> Node]
    /\ alloc \subseteq Addrs
    /\ lock \in Threads \cup {NoThread}
    /\ pc \in [Threads -> PCs]
    /\ val \in [Threads -> Values]
    /\ loc \in [Threads -> Addrs \cup {Null}]
    /\ spurious \in 0 .. MaxSpurious
    /\ order \in Seq(Addrs)

\* The thread that has taken a node out and not yet updated the struct.
Between(l) == \E t \in Threads : pc[t] = l

(* The list, the struct and the history agree (queue.c:44-55, 71-92).  When *)
(* no dequeue is half way, head, tail and size describe exactly the nodes   *)
(* linked and not yet taken; half way, they describe them plus the node     *)
(* just freed.  Neighbours point at each other, the ends point at NULL.     *)
HeadTailSize ==
    IF Between("deq_clear")
    THEN order = <<>> /\ size = 1
    ELSE IF Between("deq_advance")
    THEN order # <<>> /\ size = Len(order) + 1 /\ tail = order[Len(order)]
    ELSE /\ size = Len(order)
         /\ IF order = <<>> THEN head = Null /\ tail = Null
            ELSE head = order[1] /\ tail = order[Len(order)]

Links ==
    \A i \in 1 .. Len(order) :
        /\ order[i] \in alloc
        /\ node[order[i]].left = (IF i = 1 THEN Null ELSE order[i - 1])
        /\ node[order[i]].right = (IF i = Len(order) THEN Null ELSE order[i + 1])

\* No node is linked twice, so no node can be freed while still linked.
NoDuplicates ==
    \A i, j \in 1 .. Len(order) : order[i] = order[j] => i = j

ListShape == HeadTailSize /\ Links /\ NoDuplicates

(* The mutex is owned exactly by the thread inside a critical section, so   *)
(* none of the intermediate states above is visible to another thread, and  *)
(* pthread_cond_wait has given the lock back while it blocks.               *)
LockDiscipline ==
    \A t \in Threads : (lock = t) <=> (pc[t] \in Critical)

(* What a local pointer names is still what it was when the pointer was     *)
(* set (queue.c:43, 86): a new node that nobody else has linked or written, *)
(* or the node after the one just freed.                                    *)
LocalPointers ==
    \A t \in Threads :
        /\ pc[t] = "enq_link" => /\ loc[t] \in alloc
                                 /\ node[loc[t]] = NewNode(val[t])
                                 /\ \A i \in 1 .. Len(order) : order[i] # loc[t]
        /\ pc[t] = "deq_advance" => order # <<>> /\ loc[t] = order[1]

(* Together these are preserved by every step of the queue: what holds of   *)
(* the list when a thread gets the lock does not depend on how the others   *)
(* were interleaved.                                                        *)
QueueInv == QueueTypeOK /\ ListShape /\ LockDiscipline /\ LocalPointers

(* Every pointer that the next step of a thread dereferences, frees or      *)
(* stores in the struct names an allocated node: no use after free, no      *)
(* double free and no NULL dereference (queue.c:51-52, 72-74, 84-90).       *)
SafeDereference ==
    \A t \in Threads :
        /\ pc[t] = "enq_link" =>
              /\ loc[t] \in alloc
              /\ head # Null => tail \in alloc \ {loc[t]}
        /\ pc[t] = "deq_test" /\ size > 0 =>
              /\ head \in alloc
              /\ size > 1 => node[head].right \in alloc \ {head}
        /\ pc[t] = "deq_advance" => loc[t] \in alloc

(* Every allocated node is linked, or is about to be by the thread that     *)
(* allocated it: the queue leaks none.                                      *)
NoNodeLeak ==
    \A a \in alloc :
        \/ \E i \in 1 .. Len(order) : order[i] = a
        \/ \E t \in Threads : pc[t] = "enq_link" /\ loc[t] = a

(* No lost wakeup (queue.c:57, 67-69).  While a thread is blocked in        *)
(* pthread_cond_wait, every value in the queue is matched by a thread that  *)
(* will come for it (it is past its call and not blocked) or by an enqueue  *)
(* that has not sent its signal yet.  One signal per value is enough even   *)
(* when a newcomer overtakes the thread the signal woke.                    *)
Coming ==
    {t \in Threads : pc[t] \in {"deq_lock", "deq_relock", "deq_test", "enq_signal"}}

NoLostWakeup ==
    Waiting # {} => Len(order) <= Cardinality(Coming)

(* Once the struct is freed nobody is inside an operation on it             *)
(* (queue_free frees it, mutex included, without taking the lock).          *)
NobodyInsideFreed ==
    ~live => \A t \in Threads : pc[t] = "idle"
==============================================================================
