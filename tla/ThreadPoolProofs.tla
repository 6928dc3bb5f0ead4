--------------------------- MODULE ThreadPoolProofs ---------------------------
(****************************************************************************)
(* Theorems of thread_pool.c, for any number of workers and jobs: the       *)
(* invariant of the queue (QueueProofs) holds under the pool's threads too, *)
(* since every step of theirs is a step of the queue or leaves it alone.    *)
(****************************************************************************)
EXTENDS ThreadPool, QueueProofs, FiniteSetTheorems

LEMMA RunQueueInv ==
    ASSUME QueueInv, NEW t \in Threads, Run(t)
    PROVE  QueueInv'
<1> USE PoolAssumption DEF Owner
<1>1. CASE QueueStep(t)
    BY <1>1, QueueStepInv
<1>2. CASE AddWorkReturns(t)
    BY <1>2, QueueStutterInv DEF AddWorkReturns
<1>3. CASE OwnerStep
    <2>1. CASE EnqueueNull
        BY <2>1, CallEnqueueInv DEF EnqueueNull
    <2>2. CASE FreePool
        BY <2>2, QueueFreeInv DEF FreePool
    <2>3. CASE UNCHANGED queueVars
        BY <2>3, QueueStutterInv
    <2> QED
        BY <1>3, <2>1, <2>2, <2>3 DEF OwnerStep, CreateWorker, InitReturns, NullEnqueued,
           AllNullsEnqueued, Join
<1>4. CASE WorkerStep(t)
    <2>1. CASE Fetch(t)
        BY <2>1, CallDequeueInv DEF Fetch
    <2>2. CASE UNCHANGED queueVars
        BY <2>2, QueueStutterInv
    <2> QED
        BY <1>4, <2>1, <2>2 DEF WorkerStep, Fetched, WorkReturns, FreeWork
<1> QED
    BY <1>1, <1>2, <1>3, <1>4 DEF Run

LEMMA PoolNextQueueInv == QueueInv /\ [Next]_vars => QueueInv'
<1> SUFFICES ASSUME QueueInv, [Next]_vars PROVE QueueInv'
    OBVIOUS
<1>1. ASSUME NEW t \in Threads, Run(t)
      PROVE  QueueInv'
    BY <1>1, RunQueueInv
<1>2. ASSUME NEW t \in Threads, Spurious(t)
      PROVE  QueueInv'
    BY <1>2, DeqSpuriousInv DEF Spurious
<1>3. ASSUME NEW t \in Threads, NEW j \in Jobs, ClientAdds(t, j)
      PROVE  QueueInv'
    BY <1>3, CallEnqueueInv, PoolAssumption DEF ClientAdds, AddWork
<1>4. CASE ClientFinishes
    BY <1>4, QueueStutterInv DEF ClientFinishes
<1>5. CASE UNCHANGED vars
    BY <1>5, QueueStutterInv DEF vars
<1> QED
    BY <1>1, <1>2, <1>3, <1>4, <1>5 DEF Next

THEOREM PoolQueueInvariant == Spec => []QueueInv
<1>1. Init => QueueInv
    BY InitInv DEF Init
<1> QED
    BY <1>1, PoolNextQueueInv, PTL DEF Spec

(* The queue inside the pool always holds exactly the work and the markers  *)
(* that were enqueued and not yet taken, whatever the workers do.           *)
THEOREM PoolListCorrect == Spec => []ListShape
<1>1. QueueInv => ListShape
    BY DEF QueueInv
<1> QED
    BY <1>1, PoolQueueInvariant, PTL

------------------------------------------------------------------------------

(* What the owner and the workers know of each other.  It is inductive, and *)
(* gives that nobody uses the queue when thread_pool_finish frees it.       *)

Calling == {"adding", "pilling", "fetching"}

PoolInv ==
    /\ PoolTypeOK
    /\ at[Owner] = "create" => \A w \in i + 1 .. NumWorkers : at[w] = "unborn"
    /\ at[Owner] = "pilling" => i < NumWorkers
    /\ at[Owner] = "join" => \A w \in 1 .. i : at[w] = "exited"
    /\ at[Owner] = "closed" => \A w \in Workers : at[w] = "exited"
    /\ \A t \in Threads : at[t] \notin Calling => pc[t] = "idle"
    /\ ~live => at[Owner] = "closed"

\* A step of a thread inside the queue makes nobody else enter or leave it.
LEMMA OthersStay ==
    ASSUME QueueTypeOK, NEW t \in Threads, QueueStep(t)
    PROVE  /\ pc[t] # "idle"
           /\ live' = live
           /\ \A s \in Threads \ {t} : pc'[s] = "idle" <=> pc[s] = "idle"
<1> USE DEF QueueTypeOK, Goto
<1>1. CASE EnqSignal(t)
    BY <1>1 DEF EnqSignal, Waiting
<1>2. CASE EnqueueStep(t) /\ ~EnqSignal(t)
    BY <1>2 DEF EnqueueStep, EnqLock, EnqNode, EnqLinkFirst, EnqLinkLast, EnqUnlock
<1>3. CASE DequeueStep(t)
    BY <1>3 DEF DequeueStep, DeqLock, DeqWait, DeqRelock, DeqTakeLast, DeqClear,
       DeqTakeFirst, DeqAdvance, DeqUnlock
<1> QED
    BY <1>1, <1>2, <1>3 DEF QueueStep

LEMMA OwnerPoolInv ==
    ASSUME PoolInv, QueueTypeOK', OwnerStep
    PROVE  PoolInv'
<1> USE PoolAssumption DEF PoolInv, PoolTypeOK, Owner, Workers, OwnerPCs, WorkerPCs,
        Calling, Move, queueVars
<1>1. CASE CreateWorker
    BY <1>1 DEF CreateWorker
<1>2. CASE InitReturns
    BY <1>2 DEF InitReturns
<1>3. CASE EnqueueNull
    BY <1>3 DEF EnqueueNull, CallEnqueue, Goto, QueueTypeOK
<1>4. CASE NullEnqueued
    BY <1>4 DEF NullEnqueued
<1>5. CASE AllNullsEnqueued
    BY <1>5 DEF AllNullsEnqueued
<1>6. CASE Join
    BY <1>6 DEF Join
<1>7. CASE FreePool
    BY <1>7 DEF FreePool, QueueFree
<1> QED
    BY <1>1, <1>2, <1>3, <1>4, <1>5, <1>6, <1>7 DEF OwnerStep

LEMMA CountUp ==
    ASSUME NEW f \in [Jobs -> Nat], NEW v
    PROVE  [f EXCEPT ![v] = @ + 1] \in [Jobs -> Nat]
<1>1. \A j \in Jobs : [f EXCEPT ![v] = @ + 1][j] \in Nat
    OBVIOUS
<1> QED
    BY <1>1

LEMMA WorkerPoolInv ==
    ASSUME PoolInv, QueueTypeOK', NEW w \in Workers, WorkerStep(w)
    PROVE  PoolInv'
<1> USE PoolAssumption DEF PoolInv, PoolTypeOK, Owner, Workers, OwnerPCs, WorkerPCs,
        Calling, Move, queueVars
<1>1. CASE Fetch(w)
    BY <1>1 DEF Fetch, CallDequeue, Goto, QueueTypeOK
<1>2. CASE Fetched(w)
    BY <1>2 DEF Fetched, QueueTypeOK
<1>3. CASE WorkReturns(w)
    <2>1. runs' \in [Jobs -> Nat]
        BY <1>3, CountUp DEF WorkReturns
    <2>2. at' = [at EXCEPT ![w] = "release"] /\ UNCHANGED <<queueVars, work, i, works, added>>
        BY <1>3 DEF WorkReturns
    <2>3. at[w] = "running"
        BY <1>3 DEF WorkReturns
    <2> QED
        BY <2>1, <2>2, <2>3
<1>4. CASE FreeWork(w)
    BY <1>4, QueueAssumption DEF FreeWork
<1> QED
    BY <1>1, <1>2, <1>3, <1>4 DEF WorkerStep

LEMMA PoolNextInv ==
    ASSUME PoolInv, QueueTypeOK', [Next]_vars
    PROVE  PoolInv'
<1> USE PoolAssumption DEF PoolInv, PoolTypeOK, Owner, Workers, OwnerPCs, WorkerPCs,
        Calling, Move
<1>1. ASSUME NEW t \in Threads, Run(t)
      PROVE  PoolInv'
    <2>1. CASE QueueStep(t) /\ UNCHANGED poolVars
        BY <2>1, OthersStay DEF poolVars
    <2>2. CASE AddWorkReturns(t)
        BY <2>2 DEF AddWorkReturns, queueVars
    <2> QED
        BY <1>1, <2>1, <2>2, OwnerPoolInv, WorkerPoolInv DEF Run
<1>2. ASSUME NEW t \in Threads, Spurious(t)
      PROVE  PoolInv'
    BY <1>2 DEF Spurious, DeqSpurious, Goto, poolVars, QueueTypeOK
<1>3. ASSUME NEW t \in Threads, NEW j \in Jobs, ClientAdds(t, j)
      PROVE  PoolInv'
    BY <1>3 DEF ClientAdds, AddWork, PoolOpen, CallEnqueue, Goto, QueueTypeOK
<1>4. CASE ClientFinishes
    BY <1>4 DEF ClientFinishes, queueVars
<1>5. CASE UNCHANGED vars
    BY <1>5 DEF vars, poolVars, queueVars
<1> QED
    BY <1>1, <1>2, <1>3, <1>4, <1>5 DEF Next

THEOREM PoolInvariant == Spec => []PoolInv
<1>1. Init => PoolInv
    BY QueueAssumption, PoolAssumption, InitInv DEF Init, PoolInv, PoolTypeOK, QueueInit,
       QueueInv, Owner, Workers, OwnerPCs, WorkerPCs, Calling
<1>2. QueueInv => QueueTypeOK
    BY DEF QueueInv
<1> QED
    BY <1>1, <1>2, PoolNextInv, PoolQueueInvariant, PTL DEF Spec

(* The types of thread_pool.c; the owner's counter never passes the number  *)
(* of workers, so pool->threads[i] is inside the array.                     *)
THEOREM PoolTypeCorrect == Spec => []PoolTypeOK
<1>1. PoolInv => PoolTypeOK
    BY DEF PoolInv
<1> QED
    BY <1>1, PoolInvariant, PTL

(* thread_pool_finish frees the queue only when no thread is inside an      *)
(* operation on it, whatever number of workers there is.                    *)
THEOREM FreedUnused == Spec => []NobodyInsideFreed
<1>1. PoolInv => NobodyInsideFreed
    BY PoolAssumption DEF PoolInv, NobodyInsideFreed, Owner, Workers, Calling
<1> QED
    BY <1>1, PoolInvariant, PTL

------------------------------------------------------------------------------
(****************************************************************************)
(* Theorems about the markers and the work of thread_pool.c, for any number *)
(* of workers and jobs: every worker gets one marker and nothing is queued  *)
(* behind them, each work_t has one owner, and thread_pool_finish returns   *)
(* when all work is done.  Hence the pool is one of module WorkPool.        *)
(*                                                                          *)
(* The queue is taken for the FIFO queue it implements (QueueProofs): the   *)
(* proofs speak of Queued, Phase and val, not of nodes and locks.           *)
(****************************************************************************)

(* What a thread has handed to the queue, or got from it, in each place.    *)
CallInv ==
    /\ \A t \in Threads :
          /\ at[t] \notin Calling => Phase[t] = "idle"
          /\ at[t] \in {"adding", "pilling"} => Phase[t] \in {"idle", "enqueue", "enqueued"}
          /\ at[t] = "fetching" => Phase[t] \in {"idle", "dequeue", "dequeued"}
          /\ at[t] = "adding" /\ Phase[t] = "enqueue" => val[t] \in Jobs
          /\ at[t] = "pilling" /\ Phase[t] = "enqueue" => val[t] = Null
    /\ \A w \in Workers : at[w] = "adding" => PoolOpen
    /\ \A w \in Workers : at[w] \in {"running", "adding", "release"} => work[w] \in Jobs
    /\ at[Owner] \in {"open", "adding"} => i = 0

MarkerInv == OneMarkerPerWorker /\ NothingBehindMarkers

(* The owner of the work_t of j: the thread, the place in the queue, or the *)
(* worker.                                                                  *)
Nobodys(j) == Handing(j) = {} /\ Queueing(j) = {} /\ Holding(j) = {}
Handed(j)  == (\E t \in Threads : Handing(j) = {t}) /\ Queueing(j) = {} /\ Holding(j) = {}
InQueue(j) == Handing(j) = {} /\ (\E k \in Nat : Queueing(j) = {k}) /\ Holding(j) = {}
Held(j)    == Handing(j) = {} /\ Queueing(j) = {} /\ \E w \in Workers : Holding(j) = {w}

OwnerInv == \A j \in Jobs : IF j \in works THEN Handed(j) \/ InQueue(j) \/ Held(j) ELSE Nobodys(j)

\* j has run, and the worker that ran it has not freed it yet.
Ran(j) == \E w \in Workers : at[w] = "release" /\ work[w] = j

RunsInv ==
    /\ works \subseteq added
    /\ \A j \in Jobs : runs[j] = IF j \in added /\ (j \in works => Ran(j)) THEN 1 ELSE 0

WorkInv == CallInv /\ MarkerInv /\ OwnerInv /\ RunsInv

------------------------------------------------------------------------------
(* What a step of the pool is for its queue. *)

\* Steps outside the queue that move neither work nor a marker.
QuietOutside ==
    \/ CreateWorker \/ InitReturns \/ NullEnqueued \/ AllNullsEnqueued \/ Join \/ FreePool
    \/ ClientFinishes
    \/ \E t \in Threads : AddWorkReturns(t)
    \/ \E w \in Workers : Fetched(w) \/ WorkReturns(w)
    \/ UNCHANGED poolVars

QuietStep ==
    \/ \E t \in Threads : Fifo!ReturnEnqueue(t) /\ UNCHANGED poolVars
    \/ \E t \in Threads : Fifo!ReturnDequeue(t) /\ UNCHANGED poolVars
    \/ EnqueueNull /\ Fifo!InvokeEnqueue(Owner, Null)
    \/ \E w \in Workers : Fetch(w) /\ Fifo!InvokeDequeue(w)
    \/ QuietOutside /\ UNCHANGED Fifo!vars

\* Four kinds of steps do: work is added, a node is linked, a value is taken,
\* work is freed.
PoolStep ==
    \/ \E t \in Threads, j \in Jobs : ClientAdds(t, j) /\ Fifo!InvokeEnqueue(t, j)
    \/ \E t \in Threads : Fifo!Enqueue(t) /\ UNCHANGED poolVars
    \/ \E t \in Threads : Fifo!Dequeue(t) /\ UNCHANGED poolVars
    \/ \E w \in Workers : FreeWork(w) /\ UNCHANGED Fifo!vars
    \/ QuietStep

LEMMA NextIsPoolStep == QueueInv /\ [Next]_vars => PoolStep
<1> SUFFICES ASSUME QueueInv, [Next]_vars PROVE PoolStep
    OBVIOUS
<1> USE PoolAssumption, QueueAssumption DEF PoolStep, QuietStep
<1>1. ASSUME NEW t \in Threads, QueueStep(t) \/ DeqSpurious(t), UNCHANGED poolVars
      PROVE  PoolStep
    BY <1>1, QueueStepRefines DEF QuietOutside, Fifo!Progress
<1>2. ASSUME NEW t \in Threads, AddWorkReturns(t) PROVE PoolStep
    BY <1>2, QueueStutterRefines DEF AddWorkReturns, QuietOutside
<1>3. CASE OwnerStep
  <2>1. CASE EnqueueNull
      BY <2>1, CallsRefine DEF EnqueueNull, Owner
  <2>2. CASE FreePool
      BY <2>2 DEF FreePool, QueueFree, QuietOutside, Fifo!vars, Queued, Phase
  <2> QED
      BY <1>3, <2>1, <2>2, QueueStutterRefines
      DEF OwnerStep, QuietOutside, CreateWorker, InitReturns, NullEnqueued, AllNullsEnqueued, Join
<1>4. ASSUME NEW w \in Workers, WorkerStep(w) PROVE PoolStep
  <2>1. CASE Fetch(w)
      BY <2>1, CallsRefine DEF Fetch, Workers
  <2> QED
      BY <1>4, <2>1, QueueStutterRefines
      DEF WorkerStep, QuietOutside, Fetched, WorkReturns, FreeWork
<1>5. ASSUME NEW t \in Threads, NEW j \in Jobs, ClientAdds(t, j) PROVE PoolStep
    BY <1>5, CallsRefine DEF ClientAdds, AddWork
<1>6. CASE ClientFinishes
    BY <1>6, QueueStutterRefines DEF ClientFinishes, QuietOutside
<1>7. CASE UNCHANGED vars
    BY <1>7, QueueStutterRefines DEF vars, QuietOutside
<1> QED
    BY <1>1, <1>2, <1>3, <1>4, <1>5, <1>6, <1>7 DEF Next, Run, Spurious

(* The types that the following proofs need. *)
PoolFacts ==
    /\ PoolTypeOK
    /\ Queued \in Seq(Values) /\ Len(Queued) \in Nat
    /\ Phase \in [Threads -> {"idle", "enqueue", "enqueued", "dequeue", "dequeued"}]
    /\ \A t \in Threads : pc[t] = "idle" <=> Phase[t] = "idle"
    /\ val \in [Threads -> Values]

LEMMA PoolFactsHold == QueueInv /\ PoolInv => PoolFacts
<1> SUFFICES ASSUME QueueInv, PoolInv PROVE PoolFacts
    OBVIOUS
<1>1. Queued \in Seq(Values) /\ Len(Queued) \in Nat
    BY ItemsAreSeq DEF ItemsFacts
<1>2. \A t \in Threads : pc[t] \in PCs
    BY DEF QueueInv, QueueTypeOK
<1>3. \A t \in Threads : /\ PhaseOf(pc[t]) \in {"idle", "enqueue", "enqueued", "dequeue", "dequeued"}
                         /\ pc[t] = "idle" <=> PhaseOf(pc[t]) = "idle"
    BY <1>2 DEF PhaseOf, PCs, EnqueuePCs, DequeuePCs
<1> QED
    BY <1>1, <1>3 DEF PoolFacts, PoolInv, QueueInv, QueueTypeOK, Phase

------------------------------------------------------------------------------
(* Calls *)

LEMMA CallNext ==
    ASSUME PoolInv, PoolFacts, CallInv, PoolStep
    PROVE  CallInv'
<1> USE PoolAssumption DEF PoolFacts, PoolTypeOK, CallInv, Calling, PoolOpen, Owner, Workers, Move
<1>1. ASSUME NEW t \in Threads, Fifo!Progress(t), UNCHANGED poolVars PROVE CallInv'
  <2>1. UNCHANGED <<at, work, i>>
      BY <1>1 DEF poolVars
  <2>2. \A s \in Threads : \/ Phase'[s] = Phase[s] /\ val'[s] = val[s]
                           \/ Phase[s] = "enqueue" /\ Phase'[s] = "enqueued"
                           \/ Phase[s] = "dequeue" /\ Phase'[s] = "dequeued"
                           \/ Phase[s] # "idle" /\ Phase'[s] = "idle"
      BY <1>1 DEF Fifo!Progress, Fifo!Enqueue, Fifo!Dequeue, Fifo!ReturnEnqueue,
                  Fifo!ReturnDequeue
  <2> QED
      BY <2>1, <2>2
<1>2. ASSUME NEW t \in Threads, NEW j \in Jobs, ClientAdds(t, j), Fifo!InvokeEnqueue(t, j)
      PROVE  CallInv'
    BY <1>2 DEF ClientAdds, AddWork, Fifo!InvokeEnqueue
<1>3. ASSUME EnqueueNull, Fifo!InvokeEnqueue(Owner, Null) PROVE CallInv'
    BY <1>3 DEF EnqueueNull, Fifo!InvokeEnqueue
<1>4. ASSUME NEW w \in Workers, Fetch(w), Fifo!InvokeDequeue(w) PROVE CallInv'
    BY <1>4 DEF Fetch, Fifo!InvokeDequeue
<1>5. ASSUME QuietOutside, UNCHANGED Fifo!vars PROVE CallInv'
  <2> USE <1>5 DEF Fifo!vars
  <2>1. CASE CreateWorker
    <3>1. i + 1 \in Workers /\ at[i + 1] = "unborn"
        BY <2>1 DEF CreateWorker, PoolInv
    <3>2. /\ \A s \in Threads : at'[s] = IF s = i + 1 THEN "fetch" ELSE at[s]
          /\ at[0] = "create" /\ UNCHANGED work
        BY <2>1 DEF CreateWorker
    <3> QED
        BY <3>1, <3>2
  <2>2. CASE InitReturns
    <3>1. /\ \A s \in Threads : at'[s] = IF s = 0 THEN "open" ELSE at[s]
          /\ at[0] = "create" /\ i' = 0 /\ UNCHANGED work
        BY <2>2 DEF InitReturns
    <3> QED
        BY <3>1
  <2>3. CASE NullEnqueued \/ AllNullsEnqueued \/ Join \/ FreePool
      BY <2>3 DEF NullEnqueued, AllNullsEnqueued, Join, FreePool
  <2>4. CASE ClientFinishes
    <3>1. /\ \A t \in Threads : at'[t] = IF t = 0 THEN "pill" ELSE at[t]
          /\ at[0] = "open" /\ \A w \in 1 .. NumWorkers : at[w] # "adding"
          /\ UNCHANGED <<work, i>>
        BY <2>4 DEF ClientFinishes
    <3> QED
        BY <3>1
  <2>5. ASSUME NEW t \in Threads, AddWorkReturns(t) PROVE CallInv'
    <3>1. /\ \A s \in Threads : at'[s] = IF s = t THEN IF t = 0 THEN "open" ELSE "running" ELSE at[s]
          /\ at[t] = "adding" /\ pc[t] = "idle"
          /\ UNCHANGED <<work, i>>
        BY <2>5 DEF AddWorkReturns
    <3> QED
        BY <3>1
  <2>6. ASSUME NEW w \in Workers, Fetched(w) PROVE CallInv'
      BY <2>6 DEF Fetched
  <2>7. ASSUME NEW w \in Workers, WorkReturns(w) PROVE CallInv'
    <3>1. /\ \A s \in Threads : at'[s] = IF s = w THEN "release" ELSE at[s]
          /\ at[w] = "running" /\ UNCHANGED <<work, i>>
        BY <2>7 DEF WorkReturns
    <3> QED
        BY <3>1
  <2>8. CASE UNCHANGED poolVars
      BY <2>8 DEF poolVars
  <2> QED
      BY <2>1, <2>2, <2>3, <2>4, <2>5, <2>6, <2>7, <2>8 DEF QuietOutside
<1>6. ASSUME NEW w \in Workers, FreeWork(w), UNCHANGED Fifo!vars PROVE CallInv'
  <2>1. /\ \A s \in Threads \ {w} : at'[s] = at[s] /\ work'[s] = work[s]
        /\ at[w] = "release" /\ at'[w] = "fetch" /\ UNCHANGED <<i, Phase, val>>
      BY <1>6 DEF FreeWork, Fifo!vars
  <2> QED
      BY <2>1
<1> QED
    BY <1>1, <1>2, <1>3, <1>4, <1>5, <1>6 DEF PoolStep, QuietStep, Fifo!Progress

------------------------------------------------------------------------------
(* The places of a value in the queue, and how they move. *)

LEMMA QueueingFinite ==
    ASSUME PoolFacts, NEW x
    PROVE  /\ Queueing(x) \subseteq 1 .. Len(Queued)
           /\ IsFiniteSet(Queueing(x)) /\ Cardinality(Queueing(x)) \in Nat
<1>1. Queueing(x) \subseteq 1 .. Len(Queued)
    BY DEF PoolFacts, Queueing
<1>2. IsFiniteSet(1 .. Len(Queued))
    BY FS_Interval DEF PoolFacts
<1> QED
    BY <1>1, <1>2, FS_Subset, FS_CardinalityType

LEMMA QueueingAppend ==
    ASSUME PoolFacts, NEW v \in Values, Queued' = Append(Queued, v), NEW x
    PROVE  /\ Queueing(x)' = IF v = x THEN Queueing(x) \cup {Len(Queued) + 1} ELSE Queueing(x)
           /\ Cardinality(Queueing(x)') = Cardinality(Queueing(x)) + (IF v = x THEN 1 ELSE 0)
<1> DEFINE n == Len(Queued)
<1>1. /\ Queued \in Seq(Values) /\ n \in Nat /\ Len(Append(Queued, v)) = n + 1
      /\ Append(Queued, v)[n + 1] = v
      /\ \A k \in 1 .. n : Append(Queued, v)[k] = Queued[k]
    BY AppendProperties DEF PoolFacts
<1>2. DOMAIN Queued = 1 .. n /\ DOMAIN Append(Queued, v) = 1 .. n + 1
    BY <1>1
<1>3. Queueing(x)' = {k \in 1 .. n + 1 : Append(Queued, v)[k] = x}
    BY <1>2 DEF Queueing
<1>4. Queueing(x) = {k \in 1 .. n : Queued[k] = x}
    BY <1>2 DEF Queueing
<1>5. Queueing(x)' = IF v = x THEN Queueing(x) \cup {n + 1} ELSE Queueing(x)
    BY <1>1, <1>3, <1>4
<1>6. n + 1 \notin Queueing(x)
    BY <1>1, <1>4
<1>7. Cardinality(Queueing(x) \cup {n + 1}) = Cardinality(Queueing(x)) + 1
    BY <1>6, QueueingFinite, FS_AddElement
<1> QED
    BY <1>5, <1>7, QueueingFinite

LEMMA QueueingTail ==
    ASSUME PoolFacts, Queued # <<>>, Queued' = Tail(Queued), NEW x
    PROVE  /\ Queueing(x)' \subseteq Nat
           /\ \A k \in Nat : k \in Queueing(x)' <=> k # 0 /\ k + 1 \in Queueing(x)
           /\ 1 \in Queueing(x) <=> Head(Queued) = x
           /\ Cardinality(Queueing(x)') = Cardinality(Queueing(x)) - (IF Head(Queued) = x THEN 1 ELSE 0)
<1> DEFINE n == Len(Queued)
           rest == Queueing(x) \ {1}
           f == [k \in rest |-> k - 1]
<1>1. /\ Queued \in Seq(Values) /\ n \in Nat /\ n # 0 /\ Len(Tail(Queued)) = n - 1
      /\ Head(Queued) = Queued[1]
      /\ \A k \in 1 .. n - 1 : Tail(Queued)[k] = Queued[k + 1]
    BY HeadTailProperties DEF PoolFacts
<1>2. DOMAIN Queued = 1 .. n /\ Tail(Queued) \in Seq(Values) /\ DOMAIN Tail(Queued) = 1 .. n - 1
    BY <1>1
<1>3. Queueing(x)' = {k \in 1 .. n - 1 : Tail(Queued)[k] = x}
    BY <1>2 DEF Queueing
<1>4. Queueing(x) = {k \in 1 .. n : Queued[k] = x}
    BY <1>2 DEF Queueing
<1>5. \A k \in Nat : k \in Queueing(x)' <=> k # 0 /\ k + 1 \in Queueing(x)
    BY <1>1, <1>3, <1>4
<1>6. 1 \in Queueing(x) <=> Head(Queued) = x
    BY <1>1, <1>4
<1>7. f \in Bijection(rest, Queueing(x)')
  <2>1. f \in [rest -> Queueing(x)']
      BY <1>1, <1>4, <1>5
  <2>2. \A a, b \in rest : f[a] = f[b] => a = b
      BY <1>1, <1>4
  <2>3. \A b \in Queueing(x)' : \E a \in rest : f[a] = b
    <3> SUFFICES ASSUME NEW b \in Queueing(x)' PROVE \E a \in rest : f[a] = b
        OBVIOUS
    <3>1. b \in 1 .. n - 1 /\ b + 1 \in rest
        BY <1>1, <1>3, <1>5
    <3> QED
        BY <1>1, <3>1
  <2> QED
      BY <2>1, <2>2, <2>3 DEF Bijection, Injection, Surjection, IsInjective
<1>8. /\ IsFiniteSet(rest)
      /\ Cardinality(rest) = Cardinality(Queueing(x)) - (IF 1 \in Queueing(x) THEN 1 ELSE 0)
  <2>1. IsFiniteSet(Queueing(x)) /\ Cardinality(Queueing(x)) \in Nat
      BY QueueingFinite
  <2>2. /\ IsFiniteSet(rest)
        /\ Cardinality(rest) = IF 1 \in Queueing(x) THEN Cardinality(Queueing(x)) - 1
                               ELSE Cardinality(Queueing(x))
      BY <2>1, FS_RemoveElement
  <2> QED
      BY <2>1, <2>2
<1>9. Cardinality(Queueing(x)') = Cardinality(rest)
    BY <1>7, <1>8, FS_Bijection DEF ExistsBijection
<1>10. Queueing(x)' \subseteq Nat
    BY <1>1, <1>3
<1> QED
    BY <1>5, <1>6, <1>8, <1>9, <1>10

------------------------------------------------------------------------------
(* What a thread has in hand. *)

HasNull(w) ==
    \/ at[w] = "exited"
    \/ at[w] = "fetching" /\ Phase[w] \in {"dequeued", "idle"} /\ val[w] = Null

Hands(t, j) == at[t] = "adding" /\ Phase[t] = "enqueue" /\ val[t] = j

Holds(w, j) ==
    \/ at[w] = "fetching" /\ Phase[w] \in {"dequeued", "idle"} /\ val[w] = j
    \/ at[w] \in {"running", "adding", "release"} /\ work[w] = j

\* Thread s has in hand what it had before the step.
Keeps(s) ==
    /\ \A j \in Jobs : Hands(s, j)' <=> Hands(s, j)
    /\ s \in Workers => /\ HasNull(s)' <=> HasNull(s)
                       /\ \A j \in Jobs : Holds(s, j)' <=> Holds(s, j)

LEMMA InHand ==
    /\ GotNull = {w \in Workers : HasNull(w)}
    /\ \A j : Handing(j) = {t \in Threads : Hands(t, j)}
    /\ \A j : Holding(j) = {w \in Workers : Holds(w, j)}
BY DEF GotNull, Handing, Holding, HasNull, Hands, Holds

LEMMA AllKeep ==
    ASSUME \A s \in Threads : Keeps(s)
    PROVE  GotNull' = GotNull /\ \A j \in Jobs : Handing(j)' = Handing(j) /\ Holding(j)' = Holding(j)
<1>1. \A w \in Workers : w \in Threads
    BY PoolAssumption DEF Workers
<1>2. /\ GotNull' = {w \in Workers : HasNull(w)'}
      /\ \A j : Handing(j)' = {t \in Threads : Hands(t, j)'}
      /\ \A j : Holding(j)' = {w \in Workers : Holds(w, j)'}
    BY DEF GotNull, Handing, Holding, HasNull, Hands, Holds
<1> QED
    BY <1>1, <1>2, InHand DEF Keeps

\* A thread whose locals do not change.
Same(s) == at'[s] = at[s] /\ work'[s] = work[s] /\ Phase'[s] = Phase[s] /\ val'[s] = val[s]

LEMMA SameKeeps ==
    ASSUME NEW s, Same(s)
    PROVE  Keeps(s)
BY DEF Same, Keeps, HasNull, Hands, Holds

LEMMA QuietOutsideKeeps ==
    ASSUME PoolInv, PoolFacts, CallInv, QuietOutside, UNCHANGED Fifo!vars
    PROVE  \A s \in Threads : Keeps(s)
<1> USE PoolAssumption
<1>1. /\ at \in [Threads -> OwnerPCs \cup WorkerPCs] /\ work \in [Threads -> Values]
      /\ \A s \in Threads : Phase'[s] = Phase[s] /\ val'[s] = val[s]
    BY DEF Fifo!vars, PoolFacts, PoolTypeOK
<1>2. \A s \in Threads : Same(s) => Keeps(s)
    BY SameKeeps
<1>3. CASE CreateWorker
  <2>1. /\ at[i + 1] = "unborn" /\ UNCHANGED work
        /\ \A s \in Threads : at'[s] = IF s = i + 1 THEN "fetch" ELSE at[s]
      BY <1>1, <1>3 DEF CreateWorker, PoolInv, PoolFacts, PoolTypeOK
  <2> QED
      BY <1>1, <2>1 DEF Keeps, HasNull, Hands, Holds
<1>4. CASE InitReturns \/ NullEnqueued \/ AllNullsEnqueued \/ FreePool \/ ClientFinishes
  <2>1. /\ UNCHANGED work /\ at' = [at EXCEPT ![Owner] = at'[Owner]]
        /\ at[Owner] \in {"create", "pilling", "pill", "join", "open"}
        /\ at'[Owner] \in {"open", "pill", "join", "closed"}
      BY <1>1, <1>4 DEF InitReturns, NullEnqueued, AllNullsEnqueued, FreePool,
         ClientFinishes, Move, Owner
  <2>2. \A s \in Threads : at'[s] = IF s = Owner THEN at'[Owner] ELSE at[s]
      BY <1>1, <2>1
  <2> QED
      BY <1>1, <2>1, <2>2 DEF Keeps, HasNull, Hands, Holds
<1>5. CASE Join \/ UNCHANGED poolVars
    BY <1>1, <1>2, <1>5 DEF Join, poolVars, Same
<1>6. ASSUME NEW t \in Threads, AddWorkReturns(t) PROVE \A s \in Threads : Keeps(s)
  <2>1. /\ at[t] = "adding" /\ UNCHANGED work /\ Phase[t] = "idle"
        /\ \A s \in Threads : at'[s] = IF s = t THEN IF t = Owner THEN "open" ELSE "running" ELSE at[s]
      BY <1>1, <1>6 DEF AddWorkReturns, Move, PoolFacts
  <2>2. t \in Workers => at'[t] = "running"
      BY <2>1 DEF Workers, Owner
  <2>3. Keeps(t)
      BY <1>1, <2>1, <2>2 DEF Keeps, HasNull, Hands, Holds
  <2> QED
      BY <1>1, <1>2, <2>1, <2>3 DEF Same
<1>7. ASSUME NEW w \in Workers, Fetched(w) PROVE \A s \in Threads : Keeps(s)
  <2>1. /\ at[w] = "fetching" /\ Phase[w] = "idle" /\ work'[w] = val[w]
        /\ at'[w] = IF val[w] = Null THEN "exited" ELSE "running"
        /\ \A s \in Threads \ {w} : at'[s] = at[s] /\ work'[s] = work[s]
      BY <1>1, <1>7 DEF Fetched, Move, PoolFacts, Workers
  <2>2. Keeps(w)
      BY <1>1, <2>1 DEF Keeps, HasNull, Hands, Holds, Workers
  <2> QED
      BY <1>1, <1>2, <2>1, <2>2 DEF Same
<1>8. ASSUME NEW w \in Workers, WorkReturns(w) PROVE \A s \in Threads : Keeps(s)
  <2>1. /\ at[w] = "running" /\ UNCHANGED work
        /\ \A s \in Threads : at'[s] = IF s = w THEN "release" ELSE at[s]
      BY <1>1, <1>8 DEF WorkReturns, Move
  <2> QED
      BY <1>1, <2>1 DEF Keeps, HasNull, Hands, Holds
<1> QED
    BY <1>3, <1>4, <1>5, <1>6, <1>7, <1>8 DEF QuietOutside

LEMMA QuietStepKeeps ==
    ASSUME PoolInv, PoolFacts, CallInv, QuietStep
    PROVE  /\ Queued' = Queued /\ GotNull' = GotNull
           /\ \A j \in Jobs : Handing(j)' = Handing(j) /\ Holding(j)' = Holding(j)
<1> USE PoolAssumption
<1>1. /\ at \in [Threads -> OwnerPCs \cup WorkerPCs]
      /\ Phase \in [Threads -> {"idle", "enqueue", "enqueued", "dequeue", "dequeued"}]
      /\ val \in [Threads -> Values]
    BY DEF PoolFacts, PoolTypeOK
<1>2. \A s \in Threads : Same(s) => Keeps(s)
    BY SameKeeps
<1> SUFFICES Queued' = Queued /\ \A s \in Threads : Keeps(s)
    BY AllKeep
<1>3. ASSUME NEW t \in Threads, Fifo!ReturnEnqueue(t), UNCHANGED poolVars
      PROVE  \A s \in Threads : Keeps(s)
  <2>1. /\ Phase[t] = "enqueued" /\ UNCHANGED <<at, work>>
        /\ \A s \in Threads : Phase'[s] = IF s = t THEN "idle" ELSE Phase[s]
        /\ \A s \in Threads \ {t} : val'[s] = val[s]
      BY <1>1, <1>3 DEF Fifo!ReturnEnqueue, poolVars
  <2>2. at[t] # "fetching"
      BY <2>1 DEF CallInv
  <2>3. Keeps(t)
      BY <2>1, <2>2 DEF Keeps, HasNull, Hands, Holds
  <2> QED
      BY <1>2, <2>1, <2>3 DEF Same
<1>4. ASSUME NEW t \in Threads, Fifo!ReturnDequeue(t), UNCHANGED poolVars
      PROVE  \A s \in Threads : Keeps(s)
  <2>1. /\ Phase[t] = "dequeued" /\ UNCHANGED <<at, work, val>>
        /\ \A s \in Threads : Phase'[s] = IF s = t THEN "idle" ELSE Phase[s]
      BY <1>1, <1>4 DEF Fifo!ReturnDequeue, poolVars
  <2> QED
      BY <2>1 DEF Keeps, HasNull, Hands, Holds
<1>5. ASSUME EnqueueNull, Fifo!InvokeEnqueue(Owner, Null)
      PROVE  \A s \in Threads : Keeps(s)
  <2>1. /\ at[Owner] = "pill" /\ UNCHANGED work
        /\ \A s \in Threads : at'[s] = IF s = Owner THEN "pilling" ELSE at[s]
        /\ \A s \in Threads \ {Owner} : Phase'[s] = Phase[s] /\ val'[s] = val[s]
      BY <1>1, <1>5 DEF EnqueueNull, Move, Fifo!InvokeEnqueue, Owner
  <2>2. Keeps(Owner)
      BY <2>1 DEF Keeps, HasNull, Hands, Holds, Owner, Workers
  <2> QED
      BY <1>2, <2>1, <2>2 DEF Same
<1>6. ASSUME NEW w \in Workers, Fetch(w), Fifo!InvokeDequeue(w)
      PROVE  \A s \in Threads : Keeps(s)
  <2>1. /\ at[w] = "fetch" /\ UNCHANGED work /\ Phase'[w] = "dequeue"
        /\ \A s \in Threads : at'[s] = IF s = w THEN "fetching" ELSE at[s]
        /\ \A s \in Threads \ {w} : Phase'[s] = Phase[s] /\ val'[s] = val[s]
      BY <1>1, <1>6 DEF Fetch, Move, Fifo!InvokeDequeue, Workers
  <2>2. Keeps(w)
      BY <2>1 DEF Keeps, HasNull, Hands, Holds, Workers
  <2> QED
      BY <1>2, <2>1, <2>2 DEF Same
<1>7. ASSUME QuietOutside, UNCHANGED Fifo!vars PROVE \A s \in Threads : Keeps(s)
    BY <1>7, QuietOutsideKeeps
<1>8. Queued' = Queued
    BY DEF QuietStep, Fifo!ReturnEnqueue, Fifo!ReturnDequeue, Fifo!InvokeEnqueue,
       Fifo!InvokeDequeue, Fifo!vars
<1> QED
    BY <1>3, <1>4, <1>5, <1>6, <1>7, <1>8 DEF QuietStep

------------------------------------------------------------------------------
(* The four kinds of steps. *)

\* A node is linked: a job that was being handed over, while the pool is open,
\* or a marker of the owner's.
LEMMA LinkMoves ==
    ASSUME PoolInv, PoolFacts, CallInv, NEW t \in Threads, Fifo!Enqueue(t), UNCHANGED poolVars
    PROVE  /\ val[t] \in Values /\ Queued' = Append(Queued, val[t])
           /\ GotNull' = GotNull
           /\ \A j \in Jobs : /\ Holding(j)' = Holding(j)
                              /\ Handing(j)' = IF val[t] = j THEN Handing(j) \ {t} ELSE Handing(j)
           /\ \/ val[t] \in Jobs /\ t \in Handing(val[t]) /\ PoolOpen
              \/ t = Owner /\ at[t] = "pilling" /\ val[t] = Null
<1> USE PoolAssumption
<1>1. /\ Phase[t] = "enqueue" /\ UNCHANGED <<at, work, val>>
      /\ \A s \in Threads : Phase'[s] = IF s = t THEN "enqueued" ELSE Phase[s]
      /\ val[t] \in Values /\ Queued' = Append(Queued, val[t])
    BY DEF Fifo!Enqueue, PoolFacts, poolVars
<1>2. at[t] \in {"adding", "pilling"}
    BY <1>1 DEF CallInv, Calling
<1>3. /\ at[t] = "adding" => val[t] \in Jobs /\ PoolOpen
      /\ at[t] = "pilling" => val[t] = Null /\ t = Owner
  <2>1. t = Owner \/ (t \in Workers /\ at[t] \in WorkerPCs)
      BY DEF PoolFacts, PoolTypeOK, Workers, Owner
  <2>2. /\ at[t] = "adding" => val[t] \in Jobs
        /\ at[t] = "pilling" => val[t] = Null
        /\ t \in Workers /\ at[t] = "adding" => PoolOpen
      BY <1>1 DEF CallInv
  <2> QED
      BY <2>1, <2>2 DEF PoolOpen, WorkerPCs
<1>4. \A s \in Threads \ {t} : Keeps(s)
    BY <1>1, SameKeeps DEF Same
<1>5. \A w \in Workers : (HasNull(w)' <=> HasNull(w)) /\ \A j \in Jobs : Holds(w, j)' <=> Holds(w, j)
    BY <1>1, <1>2 DEF HasNull, Holds, Workers
<1>6. GotNull' = GotNull /\ \A j \in Jobs : Holding(j)' = Holding(j)
  <2>1. GotNull' = {w \in Workers : HasNull(w)'} /\ \A j : Holding(j)' = {w \in Workers : Holds(w, j)'}
      BY DEF GotNull, HasNull, Holding, Holds
  <2> QED
      BY <1>5, <2>1, InHand
<1>7. \A j \in Jobs : Handing(j)' = IF val[t] = j THEN Handing(j) \ {t} ELSE Handing(j)
    BY <1>1, <1>2, <1>3 DEF Handing
<1>8. at[t] = "adding" => t \in Handing(val[t])
    BY <1>1 DEF Handing
<1> QED
    BY <1>1, <1>2, <1>3, <1>6, <1>7, <1>8

\* A worker takes the value at the head.
LEMMA TakeMoves ==
    ASSUME PoolInv, PoolFacts, CallInv, NEW t \in Threads, Fifo!Dequeue(t), UNCHANGED poolVars
    PROVE  /\ Queued # <<>> /\ Queued' = Tail(Queued)
           /\ t \in Workers /\ t \notin GotNull
           /\ GotNull' = IF Head(Queued) = Null THEN GotNull \cup {t} ELSE GotNull
           /\ \A j \in Jobs :
                 /\ Handing(j)' = Handing(j)
                 /\ Holding(j)' = IF Head(Queued) = j THEN Holding(j) \cup {t} ELSE Holding(j)
<1> USE PoolAssumption
<1>1. /\ Phase[t] = "dequeue" /\ UNCHANGED <<at, work>>
      /\ \A s \in Threads : Phase'[s] = IF s = t THEN "dequeued" ELSE Phase[s]
      /\ \A s \in Threads : val'[s] = IF s = t THEN Head(Queued) ELSE val[s]
      /\ Queued # <<>> /\ Queued' = Tail(Queued)
    BY DEF Fifo!Dequeue, PoolFacts, poolVars
<1>2. at[t] = "fetching"
    BY <1>1 DEF CallInv, Calling
<1>3. t \in Workers
    BY <1>2 DEF PoolFacts, PoolTypeOK, OwnerPCs, Owner, Workers
<1>4. t \notin GotNull
    BY <1>1, <1>2 DEF GotNull
<1>5. /\ \A w \in Workers \ {t} : HasNull(w)' <=> HasNull(w)
      /\ HasNull(t)' <=> Head(Queued) = Null
    BY <1>1, <1>2, <1>3 DEF HasNull, Workers
<1>6. GotNull' = {w \in Workers : HasNull(w)'}
    BY DEF GotNull, HasNull
<1>7. GotNull' = IF Head(Queued) = Null THEN GotNull \cup {t} ELSE GotNull
    BY <1>3, <1>4, <1>5, <1>6, InHand
<1>8. ASSUME NEW j \in Jobs
      PROVE  /\ Handing(j)' = Handing(j)
             /\ Holding(j)' = IF Head(Queued) = j THEN Holding(j) \cup {t} ELSE Holding(j)
  <2>1. /\ \A w \in Workers \ {t} : Holds(w, j)' <=> Holds(w, j)
        /\ Holds(t, j)' <=> Head(Queued) = j
        /\ ~ Holds(t, j)
      BY <1>1, <1>2, <1>3 DEF Holds, Workers
  <2>2. Holding(j)' = {w \in Workers : Holds(w, j)'}
      BY DEF Holding, Holds
  <2>3. Holding(j)' = IF Head(Queued) = j THEN Holding(j) \cup {t} ELSE Holding(j)
      BY <1>3, <2>1, <2>2, InHand
  <2>4. Handing(j)' = Handing(j)
      BY <1>1, <1>2 DEF Handing
  <2> QED
      BY <2>3, <2>4
<1> QED
    BY <1>1, <1>3, <1>4, <1>7, <1>8

\* Work is added: the thread that adds it hands it over.
LEMMA AddMoves ==
    ASSUME PoolInv, PoolFacts, CallInv, NEW t \in Threads, NEW j \in Jobs,
           ClientAdds(t, j), Fifo!InvokeEnqueue(t, j)
    PROVE  /\ Queued' = Queued /\ GotNull' = GotNull
           /\ \A k \in Jobs :
                 /\ Holding(k)' = Holding(k)
                 /\ Handing(k)' = IF k = j THEN Handing(k) \cup {t} ELSE Handing(k)
<1> USE PoolAssumption
<1>1. /\ at[t] = (IF t = Owner THEN "open" ELSE "running")
      /\ UNCHANGED <<work, Queued>>
      /\ \A s \in Threads : at'[s] = IF s = t THEN "adding" ELSE at[s]
      /\ \A s \in Threads : Phase'[s] = IF s = t THEN "enqueue" ELSE Phase[s]
      /\ \A s \in Threads : val'[s] = IF s = t THEN j ELSE val[s]
    BY DEF ClientAdds, AddWork, Move, Fifo!InvokeEnqueue, PoolFacts, PoolTypeOK
<1>2. \A w \in Workers : (HasNull(w)' <=> HasNull(w)) /\ \A k \in Jobs : Holds(w, k)' <=> Holds(w, k)
  <2>1. ASSUME NEW w \in Workers
        PROVE  (HasNull(w)' <=> HasNull(w)) /\ \A k \in Jobs : Holds(w, k)' <=> Holds(w, k)
    <3>1. w \in Threads /\ w # Owner
        BY DEF Workers, Owner
    <3>2. CASE w = t
        BY <1>1, <3>1, <3>2 DEF HasNull, Holds
    <3>3. CASE w # t
        BY <1>1, <3>1, <3>3 DEF HasNull, Holds
    <3> QED
        BY <3>2, <3>3
  <2> QED
      BY <2>1
<1>3. GotNull' = {w \in Workers : HasNull(w)'} /\ \A k : Holding(k)' = {w \in Workers : Holds(w, k)'}
    BY DEF GotNull, HasNull, Holding, Holds
<1>4. \A k \in Jobs : Handing(k)' = IF k = j THEN Handing(k) \cup {t} ELSE Handing(k)
  <2>1. \A s \in Threads \ {t} : Same(s)
      BY <1>1 DEF Same
  <2>2. \A k \in Jobs : ~ Hands(t, k) /\ (Hands(t, k)' <=> k = j)
      BY <1>1 DEF Hands
  <2>3. \A k : Handing(k)' = {s \in Threads : Hands(s, k)'}
      BY DEF Handing, Hands
  <2>4. \A s \in Threads \ {t}, k \in Jobs : Hands(s, k)' <=> Hands(s, k)
      BY <2>1 DEF Same, Hands
  <2> QED
      BY <2>2, <2>3, <2>4, InHand
<1> QED
    BY <1>1, <1>2, <1>3, <1>4, InHand

\* A worker frees the work that it held.
LEMMA FreeMoves ==
    ASSUME PoolInv, PoolFacts, CallInv, NEW w \in Workers, FreeWork(w), UNCHANGED Fifo!vars
    PROVE  /\ Queued' = Queued /\ GotNull' = GotNull
           /\ work[w] \in Jobs /\ w \in Holding(work[w])
           /\ \A k \in Jobs :
                 /\ Handing(k)' = Handing(k)
                 /\ Holding(k)' = IF k = work[w] THEN Holding(k) \ {w} ELSE Holding(k)
<1> USE PoolAssumption
<1>1. /\ at[w] = "release" /\ UNCHANGED <<Queued, Phase, val>>
      /\ \A s \in Threads : at'[s] = IF s = w THEN "fetch" ELSE at[s]
      /\ \A s \in Threads : work'[s] = IF s = w THEN Null ELSE work[s]
    BY DEF FreeWork, Move, Fifo!vars, PoolFacts, PoolTypeOK
<1>2. work[w] \in Jobs /\ w \in Holding(work[w])
    BY <1>1 DEF CallInv, Holding
<1>3. \A v \in Workers : HasNull(v)' <=> HasNull(v)
    BY <1>1 DEF HasNull, Workers
<1>4. GotNull' = {v \in Workers : HasNull(v)'}
    BY DEF GotNull, HasNull
<1>5. ASSUME NEW k \in Jobs
      PROVE  Holding(k)' = IF k = work[w] THEN Holding(k) \ {w} ELSE Holding(k)
  <2>1. /\ \A v \in Workers \ {w} : Holds(v, k)' <=> Holds(v, k)
        /\ ~ Holds(w, k)' /\ (Holds(w, k) <=> k = work[w])
      BY <1>1 DEF Holds, Workers
  <2>2. Holding(k)' = {v \in Workers : Holds(v, k)'}
      BY DEF Holding, Holds
  <2> QED
      BY <2>1, <2>2, InHand
<1>6. \A k \in Jobs : Handing(k)' = Handing(k)
    BY <1>1 DEF Handing, Workers
<1> QED
    BY <1>1, <1>2, <1>3, <1>4, <1>5, <1>6, InHand

------------------------------------------------------------------------------
(* Markers *)

\* MarkersLinked counts the links of markers, and nothing else.
LEMMA MarkersLinkedStays ==
    ASSUME PoolInv, PoolFacts, CallInv,
           \/ QuietStep
           \/ \E t \in Threads, j \in Jobs : ClientAdds(t, j) /\ Fifo!InvokeEnqueue(t, j)
           \/ \E t \in Threads : /\ Fifo!Enqueue(t) \/ Fifo!Dequeue(t)
                                 /\ UNCHANGED poolVars /\ at[t] # "pilling"
           \/ \E w \in Workers : FreeWork(w) /\ UNCHANGED Fifo!vars
    PROVE  MarkersLinked' = MarkersLinked
<1> USE PoolAssumption
<1>1. /\ at \in [Threads -> OwnerPCs \cup WorkerPCs]
      /\ Phase \in [Threads -> {"idle", "enqueue", "enqueued", "dequeue", "dequeued"}]
      /\ Owner \in Threads /\ \A w \in Workers : w \in Threads /\ w # Owner
      /\ i \in Nat
    BY DEF PoolFacts, PoolTypeOK, Owner, Workers
<1>2. ASSUME at'[Owner] = at[Owner], i' = i, at[Owner] = "pilling" => Phase'[Owner] = Phase[Owner]
      PROVE  MarkersLinked' = MarkersLinked
    BY <1>2 DEF MarkersLinked
<1>3. ASSUME NEW t \in Threads, Fifo!ReturnEnqueue(t) \/ Fifo!ReturnDequeue(t), UNCHANGED poolVars
      PROVE  MarkersLinked' = MarkersLinked
  <2>1. /\ UNCHANGED <<at, i>> /\ Phase[t] \in {"enqueued", "dequeued"}
        /\ \A s \in Threads : Phase'[s] = IF s = t THEN "idle" ELSE Phase[s]
      BY <1>1, <1>3 DEF Fifo!ReturnEnqueue, Fifo!ReturnDequeue, poolVars
  <2> QED
      BY <1>1, <2>1 DEF MarkersLinked
<1>4. ASSUME EnqueueNull, Fifo!InvokeEnqueue(Owner, Null) PROVE MarkersLinked' = MarkersLinked
  <2>1. at[Owner] = "pill" /\ at'[Owner] = "pilling" /\ Phase'[Owner] = "enqueue" /\ i' = i
      BY <1>1, <1>4 DEF EnqueueNull, Move, Fifo!InvokeEnqueue
  <2> QED
      BY <2>1 DEF MarkersLinked
<1>5. ASSUME NEW w \in Workers, Fetch(w), Fifo!InvokeDequeue(w) PROVE MarkersLinked' = MarkersLinked
  <2>1. at'[Owner] = at[Owner] /\ Phase'[Owner] = Phase[Owner] /\ i' = i
      BY <1>1, <1>5 DEF Fetch, Move, Fifo!InvokeDequeue
  <2> QED
      BY <1>2, <2>1
<1>6. ASSUME QuietOutside, UNCHANGED Fifo!vars PROVE MarkersLinked' = MarkersLinked
  <2>0. UNCHANGED Phase
      BY <1>6 DEF Fifo!vars
  <2>1. CASE CreateWorker
    <3>1. at[Owner] = "create" /\ at'[Owner] = "create"
        BY <1>1, <2>1 DEF CreateWorker, Owner
    <3> QED
        BY <3>1 DEF MarkersLinked
  <2>2. CASE InitReturns
    <3>1. at[Owner] = "create" /\ at'[Owner] = "open"
        BY <1>1, <2>2 DEF InitReturns, Move
    <3> QED
        BY <3>1 DEF MarkersLinked
  <2>3. CASE NullEnqueued
    <3>1. at[Owner] = "pilling" /\ at'[Owner] = "pill" /\ Phase[Owner] = "idle" /\ i' = i + 1
        BY <1>1, <2>3 DEF NullEnqueued, Move, PoolFacts
    <3> QED
        BY <3>1 DEF MarkersLinked
  <2>4. CASE AllNullsEnqueued
    <3>1. at[Owner] = "pill" /\ at'[Owner] = "join" /\ i = NumWorkers
        BY <1>1, <2>4 DEF AllNullsEnqueued, Move
    <3> QED
        BY <3>1 DEF MarkersLinked
  <2>5. CASE Join
    <3>1. at[Owner] = "join" /\ at'[Owner] = "join"
        BY <2>5 DEF Join
    <3> QED
        BY <3>1 DEF MarkersLinked
  <2>6. CASE FreePool
    <3>1. at[Owner] = "join" /\ at'[Owner] = "closed"
        BY <1>1, <2>6 DEF FreePool, Move
    <3> QED
        BY <3>1 DEF MarkersLinked
  <2>7. CASE ClientFinishes
    <3>1. at[Owner] = "open" /\ at'[Owner] = "pill" /\ i = 0 /\ i' = 0
        BY <1>1, <2>7 DEF ClientFinishes, Move, CallInv
    <3> QED
        BY <3>1 DEF MarkersLinked
  <2>8. ASSUME NEW t \in Threads, AddWorkReturns(t) PROVE MarkersLinked' = MarkersLinked
    <3>1. /\ i' = i
          /\ \/ at'[Owner] = at[Owner]
             \/ at[Owner] = "adding" /\ at'[Owner] = "open"
        BY <1>1, <2>8 DEF AddWorkReturns, Move
    <3> QED
        BY <2>0, <3>1 DEF MarkersLinked
  <2>9. ASSUME NEW w \in Workers, Fetched(w) \/ WorkReturns(w) PROVE MarkersLinked' = MarkersLinked
    <3>1. at'[Owner] = at[Owner] /\ i' = i
        BY <1>1, <2>9 DEF Fetched, WorkReturns, Move
    <3> QED
        BY <1>2, <2>0, <3>1
  <2>10. CASE UNCHANGED poolVars
      BY <1>2, <2>0, <2>10 DEF poolVars
  <2> QED
      BY <1>6, <2>1, <2>2, <2>3, <2>4, <2>5, <2>6, <2>7, <2>8, <2>9, <2>10 DEF QuietOutside
<1>7. ASSUME NEW t \in Threads, NEW j \in Jobs, ClientAdds(t, j), Fifo!InvokeEnqueue(t, j)
      PROVE  MarkersLinked' = MarkersLinked
  <2>1. /\ i' = i
        /\ \/ at'[Owner] = at[Owner] /\ at[Owner] # "pilling"
           \/ at[Owner] = "open" /\ at'[Owner] = "adding"
      BY <1>1, <1>7 DEF ClientAdds, AddWork, Move, PoolOpen
  <2> QED
      BY <1>2, <2>1 DEF MarkersLinked
<1>8. ASSUME NEW t \in Threads, Fifo!Enqueue(t) \/ Fifo!Dequeue(t), UNCHANGED poolVars,
             at[t] # "pilling"
      PROVE  MarkersLinked' = MarkersLinked
  <2>1. UNCHANGED <<at, i>> /\ (at[Owner] = "pilling" => Phase'[Owner] = Phase[Owner])
      BY <1>1, <1>8 DEF Fifo!Enqueue, Fifo!Dequeue, poolVars
  <2> QED
      BY <1>2, <2>1
<1>9. ASSUME NEW w \in Workers, FreeWork(w), UNCHANGED Fifo!vars PROVE MarkersLinked' = MarkersLinked
  <2>1. at'[Owner] = at[Owner] /\ i' = i /\ UNCHANGED Phase
      BY <1>1, <1>9 DEF FreeWork, Move, Fifo!vars
  <2> QED
      BY <1>2, <2>1
<1> QED
    BY <1>3, <1>4, <1>5, <1>6, <1>7, <1>8, <1>9 DEF QuietStep

LEMMA GotNullFinite == IsFiniteSet(GotNull) /\ Cardinality(GotNull) \in Nat
<1>1. IsFiniteSet(1 .. NumWorkers)
    BY FS_Interval, PoolAssumption
<1>2. GotNull \subseteq 1 .. NumWorkers
    BY DEF GotNull, Workers
<1> QED
    BY <1>1, <1>2, FS_Subset, FS_CardinalityType

\* While the pool is open there is no marker, and nobody has got one.
LEMMA NoMarkerYet ==
    ASSUME PoolFacts, OneMarkerPerWorker, MarkersLinked = 0
    PROVE  GotNull = {} /\ Queueing(Null) = {}
<1>1. IsFiniteSet(GotNull) /\ Cardinality(GotNull) \in Nat
    BY GotNullFinite
<1>2. IsFiniteSet(Queueing(Null)) /\ Cardinality(Queueing(Null)) \in Nat
    BY QueueingFinite
<1>4. Cardinality(GotNull) = 0 /\ Cardinality(Queueing(Null)) = 0
    BY <1>1, <1>2 DEF OneMarkerPerWorker
<1> QED
    BY <1>1, <1>2, <1>4, FS_EmptySet

LEMMA MarkerNext ==
    ASSUME PoolInv, PoolFacts, CallInv, MarkerInv, PoolStep
    PROVE  MarkerInv'
<1> USE DEF MarkerInv
<1> DEFINE n == Len(Queued)
<1>1. Queued \in Seq(Values) /\ n \in Nat /\ DOMAIN Queued = 1 .. n
    BY DEF PoolFacts
<1>2. /\ Cardinality(GotNull) \in Nat /\ IsFiniteSet(GotNull)
      /\ Cardinality(Queueing(Null)) \in Nat /\ IsFiniteSet(Queueing(Null))
    BY GotNullFinite, QueueingFinite
<1>3. ASSUME Queued' = Queued, GotNull' = GotNull, MarkersLinked' = MarkersLinked
      PROVE  MarkerInv'
    BY <1>3 DEF OneMarkerPerWorker, NothingBehindMarkers, Queueing
<1>4. CASE QuietStep
    BY <1>3, <1>4, QuietStepKeeps, MarkersLinkedStays
<1>5. ASSUME NEW t \in Threads, NEW j \in Jobs, ClientAdds(t, j), Fifo!InvokeEnqueue(t, j)
      PROVE  MarkerInv'
    BY <1>3, <1>5, AddMoves, MarkersLinkedStays
<1>6. ASSUME NEW w \in Workers, FreeWork(w), UNCHANGED Fifo!vars PROVE MarkerInv'
    BY <1>3, <1>6, FreeMoves, MarkersLinkedStays
<1>7. ASSUME NEW t \in Threads, Fifo!Enqueue(t), UNCHANGED poolVars PROVE MarkerInv'
  <2>1. /\ val[t] \in Values /\ Queued' = Append(Queued, val[t]) /\ GotNull' = GotNull
        /\ \/ val[t] \in Jobs /\ t \in Handing(val[t]) /\ PoolOpen
           \/ t = Owner /\ at[t] = "pilling" /\ val[t] = Null
      BY <1>7, LinkMoves
  <2>2. DOMAIN Queued' = 1 .. n + 1 /\ \A k \in 1 .. n : Queued'[k] = Queued[k]
      BY <1>1, <2>1, AppendProperties
  <2>3. Queued'[n + 1] = val[t]
      BY <1>1, <2>1, AppendProperties
  <2>4. /\ Queueing(Null)' = IF val[t] = Null THEN Queueing(Null) \cup {n + 1} ELSE Queueing(Null)
        /\ Cardinality(Queueing(Null)') = Cardinality(Queueing(Null)) + (IF val[t] = Null THEN 1 ELSE 0)
      BY <2>1, QueueingAppend
  <2>5. CASE val[t] \in Jobs /\ t \in Handing(val[t]) /\ PoolOpen
    <3>1. val[t] # Null /\ at[t] # "pilling"
        BY <2>5, PoolAssumption DEF Handing
    <3>2. MarkersLinked = 0 /\ MarkersLinked' = MarkersLinked
        BY <1>7, <2>5, <3>1, MarkersLinkedStays DEF MarkersLinked, PoolOpen
    <3>3. GotNull' = {} /\ Queueing(Null)' = {}
        BY <2>1, <2>4, <3>1, <3>2, NoMarkerYet
    <3>4. \A k \in DOMAIN Queued' : Queued'[k] # Null
        BY <3>3 DEF Queueing
    <3>5. OneMarkerPerWorker'
        BY <2>1, <2>4, <3>1, <3>2, <1>2 DEF OneMarkerPerWorker
    <3> QED
        BY <3>3, <3>4, <3>5 DEF NothingBehindMarkers
  <2>6. CASE t = Owner /\ at[t] = "pilling" /\ val[t] = Null
    <3>1. Phase[Owner] = "enqueue" /\ Phase'[Owner] = "enqueued" /\ UNCHANGED <<at, i>>
        BY <1>7, <2>6 DEF Fifo!Enqueue, PoolFacts, poolVars
    <3>2. MarkersLinked = i /\ MarkersLinked' = i + 1 /\ i \in Nat
        BY <2>6, <3>1, PoolAssumption DEF MarkersLinked, PoolFacts, PoolTypeOK
    <3>3. OneMarkerPerWorker'
        BY <1>2, <2>1, <2>4, <2>6, <3>2 DEF OneMarkerPerWorker
    <3>4. \A k, l \in 1 .. n + 1 : k < l /\ Queued'[k] = Null => Queued'[l] = Null
      <4>1. \A k, l \in 1 .. n : k < l /\ Queued[k] = Null => Queued[l] = Null
          BY <1>1 DEF NothingBehindMarkers
      <4> QED
          BY <1>1, <2>2, <2>3, <2>6, <4>1
    <3>5. GotNull' # {} => \A k \in 1 .. n + 1 : Queued'[k] = Null
      <4>1. GotNull # {} => \A k \in 1 .. n : Queued[k] = Null
          BY <1>1 DEF NothingBehindMarkers
      <4> QED
          BY <1>1, <2>1, <2>2, <2>3, <2>6, <4>1
    <3> QED
        BY <2>2, <3>3, <3>4, <3>5 DEF NothingBehindMarkers
  <2> QED
      BY <2>1, <2>5, <2>6
<1>8. ASSUME NEW t \in Threads, Fifo!Dequeue(t), UNCHANGED poolVars PROVE MarkerInv'
  <2>1. /\ Queued # <<>> /\ Queued' = Tail(Queued) /\ t \in Workers /\ t \notin GotNull
        /\ GotNull' = IF Head(Queued) = Null THEN GotNull \cup {t} ELSE GotNull
      BY <1>8, TakeMoves
  <2>2. /\ n # 0 /\ Head(Queued) = Queued[1] /\ DOMAIN Queued' = 1 .. n - 1
        /\ \A k \in 1 .. n - 1 : Queued'[k] = Queued[k + 1]
    <3>1. /\ n # 0 /\ Tail(Queued) \in Seq(Values) /\ Len(Tail(Queued)) = n - 1
          /\ \A k \in 1 .. n - 1 : Tail(Queued)[k] = Queued[k + 1]
        BY <1>1, <2>1, HeadTailProperties
    <3> QED
        BY <1>1, <2>1, <3>1
  <2>3. Cardinality(Queueing(Null)') = Cardinality(Queueing(Null)) - (IF Head(Queued) = Null THEN 1 ELSE 0)
      BY <2>1, QueueingTail
  <2>4. Cardinality(GotNull') = Cardinality(GotNull) + (IF Head(Queued) = Null THEN 1 ELSE 0)
    <3>1. Cardinality(GotNull \cup {t}) = Cardinality(GotNull) + 1
        BY <1>2, <2>1, FS_AddElement
    <3> QED
        BY <1>2, <2>1, <3>1
  <2>5. at[t] # "pilling"
      BY <2>1 DEF PoolFacts, PoolTypeOK, WorkerPCs
  <2>6. MarkersLinked' = MarkersLinked
      BY <1>8, <2>5, MarkersLinkedStays
  <2>7. OneMarkerPerWorker'
      BY <1>2, <2>3, <2>4, <2>6 DEF OneMarkerPerWorker
  <2>8. \A k, l \in 1 .. n : k < l /\ Queued[k] = Null => Queued[l] = Null
      BY <1>1 DEF NothingBehindMarkers
  <2>9. GotNull # {} => \A k \in 1 .. n : Queued[k] = Null
      BY <1>1 DEF NothingBehindMarkers
  <2>10. \A k, l \in 1 .. n - 1 : k < l /\ Queued'[k] = Null => Queued'[l] = Null
    <3> SUFFICES ASSUME NEW k \in 1 .. n - 1, NEW l \in 1 .. n - 1, k < l, Queued'[k] = Null
        PROVE  Queued'[l] = Null
        OBVIOUS
    <3>1. k + 1 \in 1 .. n /\ l + 1 \in 1 .. n /\ k + 1 < l + 1
        BY <1>1
    <3> QED
        BY <2>2, <2>8, <3>1
  <2>11. GotNull' # {} => \A k \in 1 .. n - 1 : Queued'[k] = Null
    <3> SUFFICES ASSUME GotNull' # {}, NEW k \in 1 .. n - 1 PROVE Queued'[k] = Null
        OBVIOUS
    <3>1. 1 \in 1 .. n /\ k + 1 \in 1 .. n /\ 1 < k + 1
        BY <1>1
    <3>2. Queued[k + 1] = Null
        BY <2>1, <2>2, <2>8, <2>9, <3>1
    <3> QED
        BY <2>2, <3>2
  <2> QED
      BY <2>2, <2>7, <2>10, <2>11 DEF NothingBehindMarkers
<1> QED
    BY <1>4, <1>5, <1>6, <1>7, <1>8 DEF PoolStep

------------------------------------------------------------------------------
(* Who owns each work_t. *)

\* j is with the same owner as before.
LEMMA SameOwner ==
    ASSUME NEW j, Handing(j)' = Handing(j), Queueing(j)' = Queueing(j), Holding(j)' = Holding(j)
    PROVE  /\ Nobodys(j) => Nobodys(j)'
           /\ Handed(j) => Handed(j)'
           /\ InQueue(j) => InQueue(j)'
           /\ Held(j) => Held(j)'
BY DEF Nobodys, Handed, InQueue, Held

LEMMA OwnerNext ==
    ASSUME PoolInv, PoolFacts, CallInv, OwnerInv, works \subseteq added, PoolStep
    PROVE  OwnerInv'
<1>1. CASE QuietStep
  <2>1. works' = works
      BY <1>1 DEF QuietStep, QuietOutside, CreateWorker, InitReturns, NullEnqueued,
         AllNullsEnqueued, Join, FreePool, ClientFinishes, AddWorkReturns, Fetched, WorkReturns,
         EnqueueNull, Fetch, poolVars
  <2> QED
      BY <1>1, <2>1, QuietStepKeeps, SameOwner DEF OwnerInv, Queueing
<1>2. ASSUME NEW t \in Threads, NEW j \in Jobs, ClientAdds(t, j), Fifo!InvokeEnqueue(t, j)
      PROVE  OwnerInv'
  <2>1. /\ Queued' = Queued
        /\ \A k \in Jobs : /\ Holding(k)' = Holding(k)
                           /\ Handing(k)' = IF k = j THEN Handing(k) \cup {t} ELSE Handing(k)
      BY <1>2, AddMoves
  <2>2. j \notin works /\ works' = works \cup {j}
      BY <1>2 DEF ClientAdds, AddWork
  <2>3. Handed(j)'
    <3>1. Nobodys(j)
        BY <2>2 DEF OwnerInv
    <3>2. Handing(j)' = {t} /\ Queueing(j)' = {} /\ Holding(j)' = {}
        BY <2>1, <3>1 DEF Nobodys, Queueing
    <3> QED
        BY <3>2 DEF Handed
  <2> QED
      BY <2>1, <2>2, <2>3, SameOwner DEF OwnerInv, Queueing
<1>3. ASSUME NEW w \in Workers, FreeWork(w), UNCHANGED Fifo!vars PROVE OwnerInv'
  <2>1. /\ Queued' = Queued /\ work[w] \in Jobs /\ w \in Holding(work[w])
        /\ \A k \in Jobs : /\ Handing(k)' = Handing(k)
                           /\ Holding(k)' = IF k = work[w] THEN Holding(k) \ {w} ELSE Holding(k)
      BY <1>3, FreeMoves
  <2>2. works' = works \ {work[w]}
      BY <1>3 DEF FreeWork
  <2>3. Held(work[w])
      BY <2>1 DEF OwnerInv, Nobodys, Handed, InQueue
  <2>4. ASSUME NEW j \in Jobs, j = work[w] PROVE Nobodys(j)'
    <3>1. Handing(j)' = {} /\ Queueing(j)' = {} /\ Holding(j)' = {}
        BY <2>1, <2>3, <2>4 DEF Held, Queueing
    <3> QED
        BY <3>1 DEF Nobodys
  <2> QED
      BY <2>1, <2>2, <2>4, SameOwner DEF OwnerInv, Queueing
<1>4. ASSUME NEW t \in Threads, Fifo!Enqueue(t), UNCHANGED poolVars PROVE OwnerInv'
  <2>1. /\ val[t] \in Values /\ Queued' = Append(Queued, val[t])
        /\ \A j \in Jobs : /\ Holding(j)' = Holding(j)
                           /\ Handing(j)' = IF val[t] = j THEN Handing(j) \ {t} ELSE Handing(j)
        /\ val[t] \in Jobs => t \in Handing(val[t])
        /\ works' = works
      BY <1>4, LinkMoves, PoolAssumption DEF poolVars
  <2>2. \A j : Queueing(j)' = IF val[t] = j THEN Queueing(j) \cup {Len(Queued) + 1} ELSE Queueing(j)
      BY <2>1, QueueingAppend
  <2>3. ASSUME NEW j \in Jobs, val[t] # j
        PROVE  IF j \in works' THEN Handed(j)' \/ InQueue(j)' \/ Held(j)' ELSE Nobodys(j)'
      BY <2>1, <2>2, <2>3, SameOwner DEF OwnerInv
  <2>4. ASSUME NEW j \in Jobs, val[t] = j PROVE j \in works /\ InQueue(j)'
    <3>1. t \in Handing(j)
        BY <2>1, <2>4
    <3>2. j \in works /\ Handed(j)
        BY <3>1 DEF OwnerInv, Nobodys, InQueue, Held
    <3>3. Handing(j)' = {} /\ Queueing(j)' = {Len(Queued) + 1} /\ Holding(j)' = {}
        BY <2>1, <2>2, <2>4, <3>1, <3>2 DEF Handed
    <3> QED
        BY <3>2, <3>3 DEF InQueue, PoolFacts
  <2> QED
      BY <2>1, <2>3, <2>4 DEF OwnerInv
<1>5. ASSUME NEW t \in Threads, Fifo!Dequeue(t), UNCHANGED poolVars PROVE OwnerInv'
  <2>1. /\ Queued # <<>> /\ Queued' = Tail(Queued) /\ t \in Workers
        /\ \A j \in Jobs :
              /\ Handing(j)' = Handing(j)
              /\ Holding(j)' = IF Head(Queued) = j THEN Holding(j) \cup {t} ELSE Holding(j)
        /\ works' = works
      BY <1>5, TakeMoves DEF poolVars
  <2>2. \A j : /\ Queueing(j)' \subseteq Nat
               /\ \A k \in Nat : k \in Queueing(j)' <=> k # 0 /\ k + 1 \in Queueing(j)
               /\ 1 \in Queueing(j) <=> Head(Queued) = j
               /\ Queueing(j) \subseteq 1 .. Len(Queued)
      BY <2>1, QueueingTail, QueueingFinite
  <2>3. ASSUME NEW j \in Jobs, Head(Queued) = j PROVE j \in works /\ Held(j)'
    <3>1. 1 \in Queueing(j)
        BY <2>2, <2>3
    <3>2. j \in works /\ InQueue(j)
        BY <3>1 DEF OwnerInv, Nobodys, Handed, Held
    <3>3. Queueing(j) = {1}
        BY <3>1, <3>2 DEF InQueue
    <3>4. Queueing(j)' = {}
        BY <2>2, <3>3
    <3>5. Handing(j)' = {} /\ Holding(j)' = {t}
        BY <2>1, <2>3, <3>2 DEF InQueue
    <3> QED
        BY <2>1, <3>2, <3>4, <3>5 DEF Held
  <2>4. ASSUME NEW j \in Jobs, Head(Queued) # j
        PROVE  IF j \in works' THEN Handed(j)' \/ InQueue(j)' \/ Held(j)' ELSE Nobodys(j)'
    <3>1. Handing(j)' = Handing(j) /\ Holding(j)' = Holding(j)
        BY <2>1, <2>4
    <3>2. ASSUME Queueing(j) = {} PROVE Queueing(j)' = {}
        BY <2>2, <3>2
    <3>3. ASSUME InQueue(j) PROVE InQueue(j)'
      <4>1. PICK k \in Nat : Queueing(j) = {k}
          BY <3>3 DEF InQueue
      <4>2. k # 0 /\ k # 1
          BY <2>2, <2>4, <4>1 DEF PoolFacts
      <4>3. k - 1 \in Nat /\ k - 1 # 0 /\ (k - 1) + 1 = k
          BY <4>2
      <4>4. Queueing(j)' = {k - 1}
          BY <2>2, <4>1, <4>3
      <4> QED
          BY <3>1, <3>3, <4>3, <4>4 DEF InQueue
    <3>4. Nobodys(j) => Nobodys(j)'
        BY <3>1, <3>2 DEF Nobodys
    <3>5. Handed(j) => Handed(j)'
        BY <3>1, <3>2 DEF Handed
    <3>6. Held(j) => Held(j)'
        BY <3>1, <3>2 DEF Held
    <3> QED
        BY <2>1, <3>3, <3>4, <3>5, <3>6 DEF OwnerInv
  <2> QED
      BY <2>1, <2>3, <2>4 DEF OwnerInv
<1> QED
    BY <1>1, <1>2, <1>3, <1>4, <1>5 DEF PoolStep

------------------------------------------------------------------------------
(* How often each job has run. *)

Released(w, j) == at[w] = "release" /\ work[w] = j

\* Only the return of a work function, and the release that follows, change
\* what has run and what is still to be freed.
LEMMA RanStays ==
    ASSUME PoolInv, PoolFacts, CallInv, PoolStep,
           \A w \in Workers : ~ WorkReturns(w) /\ ~ FreeWork(w)
    PROVE  runs' = runs /\ \A w \in Workers, j \in Jobs : Released(w, j)' <=> Released(w, j)
<1> USE PoolAssumption
<1>1. /\ at \in [Threads -> OwnerPCs \cup WorkerPCs] /\ work \in [Threads -> Values]
      /\ Owner \in Threads /\ \A w \in Workers : w \in Threads /\ w # Owner
    BY DEF PoolFacts, PoolTypeOK, Owner, Workers
<1>2. ASSUME UNCHANGED poolVars
      PROVE  runs' = runs /\ \A w \in Workers, j \in Jobs : Released(w, j)' <=> Released(w, j)
    BY <1>2 DEF poolVars, Released
<1>3. CASE EnqueueNull \/ InitReturns \/ NullEnqueued \/ AllNullsEnqueued \/ Join \/ FreePool
           \/ ClientFinishes
  <2>1. runs' = runs /\ UNCHANGED work /\ \A w \in Workers : at'[w] = at[w]
      BY <1>1, <1>3 DEF EnqueueNull, InitReturns, NullEnqueued, AllNullsEnqueued, Join, FreePool,
         ClientFinishes, Move
  <2> QED
      BY <2>1 DEF Released
<1>4. CASE CreateWorker
  <2>1. /\ runs' = runs /\ UNCHANGED work /\ at[i + 1] = "unborn"
        /\ \A w \in Workers : at'[w] = IF w = i + 1 THEN "fetch" ELSE at[w]
      BY <1>1, <1>4 DEF CreateWorker, PoolInv, PoolFacts, PoolTypeOK
  <2> QED
      BY <2>1 DEF Released
<1>5. ASSUME NEW t \in Threads, NEW j \in Jobs, ClientAdds(t, j)
      PROVE  runs' = runs /\ \A w \in Workers, k \in Jobs : Released(w, k)' <=> Released(w, k)
  <2>1. /\ runs' = runs /\ UNCHANGED work /\ at[t] # "release"
        /\ \A w \in Workers : at'[w] = IF w = t THEN "adding" ELSE at[w]
      BY <1>1, <1>5 DEF ClientAdds, AddWork, Move
  <2> QED
      BY <2>1 DEF Released
<1>6. ASSUME NEW t \in Threads, AddWorkReturns(t)
      PROVE  runs' = runs /\ \A w \in Workers, k \in Jobs : Released(w, k)' <=> Released(w, k)
  <2>1. /\ runs' = runs /\ UNCHANGED work /\ at[t] = "adding"
        /\ \A w \in Workers : at'[w] = IF w = t THEN "running" ELSE at[w]
      BY <1>1, <1>6 DEF AddWorkReturns, Move
  <2> QED
      BY <2>1 DEF Released
<1>7. ASSUME NEW v \in Workers, Fetch(v) \/ Fetched(v)
      PROVE  runs' = runs /\ \A w \in Workers, k \in Jobs : Released(w, k)' <=> Released(w, k)
  <2>1. /\ runs' = runs /\ at[v] # "release" /\ at'[v] # "release"
        /\ \A w \in Workers \ {v} : at'[w] = at[w] /\ work'[w] = work[w]
      BY <1>1, <1>7 DEF Fetch, Fetched, Move
  <2> QED
      BY <2>1 DEF Released
<1> QED
    BY <1>2, <1>3, <1>4, <1>5, <1>6, <1>7 DEF PoolStep, QuietStep, QuietOutside

LEMMA RunsNext ==
    ASSUME PoolInv, PoolFacts, CallInv, OwnerInv, RunsInv, PoolStep
    PROVE  RunsInv'
<1> USE PoolAssumption
<1>1. /\ at \in [Threads -> OwnerPCs \cup WorkerPCs] /\ work \in [Threads -> Values]
      /\ Owner \in Threads /\ \A w \in Workers : w \in Threads /\ w # Owner
      /\ runs \in [Jobs -> Nat]
    BY DEF PoolFacts, PoolTypeOK, Owner, Workers
<1>2. \A j : /\ Ran(j) <=> \E w \in Workers : Released(w, j)
             /\ Ran(j)' <=> \E w \in Workers : Released(w, j)'
    BY DEF Ran, Released
<1>3. \A w \in Workers, j \in Jobs : at[w] \in {"running", "release"} /\ work[w] = j
                                     => j \in works /\ Holding(j) = {w}
  <2> SUFFICES ASSUME NEW w \in Workers, NEW j \in Jobs,
                      at[w] \in {"running", "release"} /\ work[w] = j
      PROVE  j \in works /\ Holding(j) = {w}
      OBVIOUS
  <2>1. w \in Holding(j)
      BY DEF Holding
  <2>2. j \in works /\ Held(j)
      BY <2>1 DEF OwnerInv, Nobodys, Handed, InQueue
  <2> QED
      BY <2>1, <2>2 DEF Held
<1>4. CASE \A w \in Workers : ~ WorkReturns(w) /\ ~ FreeWork(w)
  <2>1. runs' = runs /\ \A j \in Jobs : Ran(j)' <=> Ran(j)
      BY <1>2, <1>4, RanStays
  <2>2. CASE UNCHANGED <<works, added>>
      BY <2>1, <2>2 DEF RunsInv
  <2>3. ASSUME NEW t \in Threads, NEW j \in Jobs, ClientAdds(t, j) PROVE RunsInv'
    <3>1. /\ j \notin added /\ j \notin works
          /\ added' = added \cup {j} /\ works' = works \cup {j}
        BY <2>3 DEF ClientAdds, AddWork, RunsInv
    <3>2. ~ Ran(j)
        BY <1>3, <3>1 DEF Ran
    <3> QED
        BY <2>1, <3>1, <3>2 DEF RunsInv
  <2>4. UNCHANGED <<works, added>> \/ \E t \in Threads, j \in Jobs : ClientAdds(t, j)
      BY <1>4 DEF PoolStep, QuietStep, QuietOutside, CreateWorker, InitReturns, NullEnqueued,
         AllNullsEnqueued, Join, FreePool, ClientFinishes, AddWorkReturns, Fetched,
         EnqueueNull, Fetch, poolVars
  <2> QED
      BY <2>2, <2>3, <2>4
<1>5. ASSUME NEW w \in Workers, WorkReturns(w) PROVE RunsInv'
  <2>1. /\ at[w] = "running" /\ UNCHANGED <<work, works, added>>
        /\ \A s \in Threads : at'[s] = IF s = w THEN "release" ELSE at[s]
        /\ \A j \in Jobs : runs'[j] = IF j = work[w] THEN runs[j] + 1 ELSE runs[j]
      BY <1>1, <1>5 DEF WorkReturns, Move
  <2>2. ASSUME NEW j \in Jobs, j = work[w]
        PROVE  runs'[j] = 1 /\ Ran(j)' /\ j \in added
    <3>1. j \in works /\ Holding(j) = {w} /\ j \in added
        BY <1>3, <2>1, <2>2 DEF RunsInv
    <3>2. ~ Ran(j)
        BY <1>3, <2>1, <2>2, <3>1 DEF Ran
    <3>3. Ran(j)'
        BY <1>1, <2>1, <2>2 DEF Ran
    <3> QED
        BY <2>1, <2>2, <3>1, <3>2, <3>3 DEF RunsInv
  <2>3. ASSUME NEW j \in Jobs, j # work[w]
        PROVE  runs'[j] = runs[j] /\ (Ran(j)' <=> Ran(j))
      BY <1>1, <2>1, <2>3 DEF Ran
  <2> QED
      BY <2>1, <2>2, <2>3 DEF RunsInv
<1>6. ASSUME NEW w \in Workers, FreeWork(w) PROVE RunsInv'
  <2>1. /\ at[w] = "release" /\ UNCHANGED <<added, runs>> /\ works' = works \ {work[w]}
        /\ \A s \in Threads : at'[s] = IF s = w THEN "fetch" ELSE at[s]
        /\ \A s \in Threads : work'[s] = IF s = w THEN Null ELSE work[s]
      BY <1>1, <1>6 DEF FreeWork, Move
  <2>2. ASSUME NEW j \in Jobs, j = work[w]
        PROVE  runs[j] = 1 /\ j \in added
      BY <1>3, <2>1, <2>2 DEF RunsInv, Ran
  <2>3. ASSUME NEW j \in Jobs, j # work[w]
        PROVE  Ran(j)' <=> Ran(j)
      BY <1>1, <2>1, <2>3 DEF Ran
  <2> QED
      BY <2>1, <2>2, <2>3 DEF RunsInv
<1> QED
    BY <1>4, <1>5, <1>6

------------------------------------------------------------------------------
(* Theorems *)

LEMMA WorkInit == Init => WorkInv
<1> SUFFICES ASSUME Init PROVE WorkInv
    OBVIOUS
<1> USE PoolAssumption DEF Owner, Workers
<1>1. /\ \A t \in Threads : /\ at[t] = IF t = 0 THEN "create" ELSE "unborn"
                            /\ Phase[t] = "idle"
      /\ Queued = <<>> /\ works = {} /\ added = {} /\ \A j \in Jobs : runs[j] = 0
    BY DEF Init, QueueInit, Phase, PhaseOf, Queued
<1>2. CallInv
    BY <1>1 DEF CallInv, Calling
<1>3. GotNull = {} /\ \A x : Queueing(x) = {}
    BY <1>1 DEF GotNull, Queueing
<1>4. MarkerInv
  <2>1. MarkersLinked = 0 /\ DOMAIN Queued = {} /\ Cardinality({}) = 0
      BY <1>1, FS_EmptySet DEF MarkersLinked
  <2>2. OneMarkerPerWorker
    <3>1. Cardinality(GotNull) = 0 /\ Cardinality(Queueing(Null)) = 0
        BY <1>3, <2>1, Zenon
    <3> QED
        BY <2>1, <3>1 DEF OneMarkerPerWorker
  <2>3. NothingBehindMarkers
      BY <1>3, <2>1 DEF NothingBehindMarkers
  <2> QED
      BY <2>2, <2>3 DEF MarkerInv
<1>5. OwnerInv
    BY <1>1, <1>3 DEF OwnerInv, Nobodys, Handing, Holding
<1> QED
    BY <1>1, <1>2, <1>4, <1>5 DEF WorkInv, RunsInv

LEMMA WorkNext ==
    ASSUME QueueInv, PoolInv, WorkInv, [Next]_vars
    PROVE  WorkInv'
<1>1. PoolFacts /\ PoolStep
    BY PoolFactsHold, NextIsPoolStep
<1> QED
    BY <1>1, CallNext, MarkerNext, OwnerNext, RunsNext DEF WorkInv, RunsInv

THEOREM PoolWorkInvariant == Spec => [](PoolFacts /\ WorkInv)
<1>1. Spec => []WorkInv
    BY WorkInit, WorkNext, PoolQueueInvariant, PoolInvariant, PTL DEF Spec
<1> QED
    BY <1>1, PoolFactsHold, PoolQueueInvariant, PoolInvariant, PTL

(* No work is ever queued behind a marker, and a worker stops only when no  *)
(* work is left: thread_pool_finish cannot cut work off (thread_pool.c:24,  *)
(* 55-57), whatever the number of workers.                                  *)
THEOREM NothingCutOff == Spec => []NothingBehindMarkers
<1>1. WorkInv => NothingBehindMarkers
    BY DEF WorkInv, MarkerInv
<1> QED
    BY <1>1, PoolWorkInvariant, PTL

(* The markers linked so far are those queued plus those consumed, one per  *)
(* worker, so that thread_pool_finish needs exactly num_worker_threads.     *)
THEOREM MarkersSuffice == Spec => []OneMarkerPerWorker
<1>1. WorkInv => OneMarkerPerWorker
    BY DEF WorkInv, MarkerInv
<1> QED
    BY <1>1, PoolWorkInvariant, PTL

(* An allocated work_t has exactly one owner and a freed one none, for any  *)
(* number of threads that add, take, run and free (thread_pool.c:23-30,     *)
(* 48-51).                                                                  *)
THEOREM WorkHasOneOwner == Spec => []OneOwnerPerWork
<1>1. PoolFacts /\ WorkInv => OneOwnerPerWork
  <2> SUFFICES ASSUME PoolFacts, WorkInv, NEW j \in Jobs
      PROVE  Cardinality(Handing(j)) + Cardinality(Queueing(j)) + Cardinality(Holding(j))
                 = (IF j \in works THEN 1 ELSE 0)
      BY DEF OneOwnerPerWork
  <2>1. Cardinality({}) = 0 /\ \A x : Cardinality({x}) = 1
      BY FS_EmptySet, FS_Singleton
  <2>2. IF j \in works THEN Handed(j) \/ InQueue(j) \/ Held(j) ELSE Nobodys(j)
      BY DEF WorkInv, OwnerInv
  <2>3. CASE Nobodys(j) /\ j \notin works
      BY <2>1, <2>3 DEF Nobodys
  <2>4. CASE Handed(j) /\ j \in works
    <3>1. Cardinality(Handing(j)) = 1 /\ Queueing(j) = {} /\ Holding(j) = {}
        BY <2>1, <2>4, Zenon DEF Handed
    <3> QED
        BY <2>1, <2>4, <3>1
  <2>5. CASE InQueue(j) /\ j \in works
    <3>1. Cardinality(Queueing(j)) = 1 /\ Handing(j) = {} /\ Holding(j) = {}
        BY <2>1, <2>5, Zenon DEF InQueue
    <3> QED
        BY <2>1, <2>5, <3>1
  <2>6. CASE Held(j) /\ j \in works
      BY <2>1, <2>6, SMTT(20) DEF Held
  <2> QED
      BY <2>2, <2>3, <2>4, <2>5, <2>6
<1> QED
    BY <1>1, PoolWorkInvariant, PTL

LEMMA PoolNextKeepsNodes ==
    ASSUME QueueInv, NoNodeLeak, [Next]_vars
    PROVE  NoNodeLeak'
<1> USE PoolAssumption
<1>1. ASSUME NEW t \in Threads, QueueStep(t) \/ DeqSpurious(t) PROVE NoNodeLeak'
    BY <1>1, StepKeepsNodes, CallsKeepNodes
<1>2. ASSUME NEW t \in Threads, Fetch(t) PROVE NoNodeLeak'
    BY <1>2, CallsKeepNodes DEF Fetch
<1>3. CASE EnqueueNull
    BY <1>3, CallsKeepNodes DEF EnqueueNull, Owner
<1>4. ASSUME NEW t \in Threads, NEW j \in Jobs, ClientAdds(t, j) PROVE NoNodeLeak'
    BY <1>4, CallsKeepNodes DEF ClientAdds, AddWork
<1>5. CASE FreePool
    BY <1>5, NoNodeMoves DEF FreePool, QueueFree
<1>6. CASE UNCHANGED queueVars
    BY <1>6, StutterKeepsNodes
<1>7. Next => \/ \E t \in Threads : QueueStep(t) \/ DeqSpurious(t) \/ Fetch(t)
              \/ EnqueueNull \/ FreePool \/ UNCHANGED queueVars
              \/ \E t \in Threads, j \in Jobs : ClientAdds(t, j)
  <2>1. \A t \in Threads : AddWorkReturns(t) => UNCHANGED queueVars
      BY DEF AddWorkReturns
  <2>2. OwnerStep => EnqueueNull \/ FreePool \/ UNCHANGED queueVars
      BY DEF OwnerStep, CreateWorker, InitReturns, NullEnqueued, AllNullsEnqueued, Join
  <2>3. \A w \in Workers : WorkerStep(w) => Fetch(w) \/ UNCHANGED queueVars
      BY DEF WorkerStep, Fetched, WorkReturns, FreeWork
  <2>4. ClientFinishes => UNCHANGED queueVars
      BY DEF ClientFinishes
  <2> QED
      BY <2>1, <2>2, <2>3, <2>4 DEF Next, Run, Spurious
<1> QED
    BY <1>1, <1>2, <1>3, <1>4, <1>5, <1>6, <1>7 DEF vars

\* In the pool, too, every node is linked or about to be.
LEMMA PoolKeepsNodes == Spec => []NoNodeLeak
<1>1. Init => NoNodeLeak
    BY DEF Init, QueueInit, NoNodeLeak
<1> QED
    BY <1>1, PoolNextKeepsNodes, PoolQueueInvariant, PTL DEF Spec

(* When thread_pool_finish frees the pool all workers have exited, so all   *)
(* markers are consumed, nothing is left in the queue, and nobody holds     *)
(* work: each job has run exactly once, its work_t is freed, and no node of *)
(* the queue is lost (thread_pool.h:40, queue.h:42).                        *)
THEOREM FinishWaitsForAll == Spec => []FinishWaits
<1>1. QueueInv /\ PoolInv /\ PoolFacts /\ WorkInv /\ NoNodeLeak => FinishWaits
  <2> SUFFICES ASSUME QueueInv, PoolInv, PoolFacts, WorkInv, NoNodeLeak, at[Owner] = "closed"
      PROVE  /\ \A j \in added : runs[j] = 1
             /\ works = {} /\ alloc = {}
             /\ \A w \in Workers : at[w] = "exited"
      BY DEF FinishWaits
  <2> USE PoolAssumption
  <2>1. \A w \in Workers : at[w] = "exited"
      BY DEF PoolInv
  <2>2. \A t \in Threads : at[t] \in {"closed", "exited"}
      BY <2>1 DEF Owner, Workers
  <2>3. GotNull = Workers /\ Cardinality(Workers) = NumWorkers /\ GotNull # {}
    <3>1. Cardinality(1 .. NumWorkers) = NumWorkers
        BY FS_Interval
    <3> QED
        BY <2>1, <3>1 DEF GotNull, Workers
  <2>4. Queueing(Null) = {}
    <3>1. IsFiniteSet(Queueing(Null)) /\ Cardinality(Queueing(Null)) \in Nat
        BY QueueingFinite
    <3>2. MarkersLinked = NumWorkers
        BY DEF MarkersLinked
    <3>3. Cardinality(Queueing(Null)) = 0
        BY <2>3, <3>1, <3>2 DEF WorkInv, MarkerInv, OneMarkerPerWorker
    <3> QED
        BY <3>1, <3>3, FS_EmptySet
  <2>5. DOMAIN Queued = {}
      BY <2>3, <2>4 DEF WorkInv, MarkerInv, NothingBehindMarkers, Queueing
  <2>6. works = {}
    <3> SUFFICES ASSUME NEW j \in works PROVE FALSE
        OBVIOUS
    <3>1. j \in Jobs
        BY DEF PoolFacts, PoolTypeOK
    <3>2. Handing(j) = {} /\ Queueing(j) = {} /\ Holding(j) = {}
        BY <2>1, <2>2, <2>5 DEF Handing, Queueing, Holding
    <3>3. Handed(j) \/ InQueue(j) \/ Held(j)
        BY <3>1 DEF WorkInv, OwnerInv
    <3> QED
        BY <3>2, <3>3 DEF Handed, InQueue, Held
  <2>7. \A j \in added : runs[j] = 1
      BY <2>6 DEF WorkInv, RunsInv, PoolFacts, PoolTypeOK
  <2>8. alloc = {}
    <3> SUFFICES ASSUME NEW a \in alloc PROVE FALSE
        OBVIOUS
    <3>1. 1 .. Len(order) = {}
        BY <2>5 DEF Queued
    <3>2. \A t \in Threads : pc[t] = "idle"
        BY <2>2 DEF PoolInv, Calling
    <3> QED
        BY <3>1, <3>2 DEF NoNodeLeak
  <2> QED
      BY <2>1, <2>6, <2>7, <2>8
<1> QED
    BY <1>1, PoolWorkInvariant, PoolQueueInvariant, PoolInvariant, PoolKeepsNodes, PTL

------------------------------------------------------------------------------
(* The pool is a pool as thread_pool.h describes it. *)

LEMMA SilentSteps ==
    ASSUME PoolInv, PoolFacts, CallInv,
           \/ UNCHANGED poolVars \/ EnqueueNull \/ CreateWorker \/ InitReturns \/ NullEnqueued
           \/ AllNullsEnqueued \/ Join
           \/ \E t \in Threads : AddWorkReturns(t)
           \/ \E w \in Workers : Fetch(w) \/ Fetched(w) \/ FreeWork(w)
    PROVE  UNCHANGED Pool!vars
<1> USE PoolAssumption
<1>1. /\ at \in [Threads -> OwnerPCs \cup WorkerPCs]
      /\ Owner \in Threads /\ \A w \in Workers : w \in Threads /\ w # Owner
    BY DEF PoolFacts, PoolTypeOK, Owner, Workers
<1>2. UNCHANGED <<added, runs>>
    BY DEF EnqueueNull, CreateWorker, InitReturns, NullEnqueued, AllNullsEnqueued, Join,
       AddWorkReturns, Fetch, Fetched, FreeWork, poolVars
<1>3. ASSUME \/ at'[Owner] = at[Owner]
             \/ {at[Owner], at'[Owner]} \subseteq {"create", "open", "adding"}
             \/ {at[Owner], at'[Owner]} \subseteq {"pill", "pilling", "join"}
      PROVE  AbsStage' = AbsStage
    BY <1>3 DEF AbsStage, PoolOpen
<1>4. ASSUME NEW t \in Threads, AddWorkReturns(t)
      PROVE  \/ at'[Owner] = at[Owner]
             \/ {at[Owner], at'[Owner]} \subseteq {"create", "open", "adding"}
    BY <1>1, <1>4 DEF AddWorkReturns, Move
<1>5. ASSUME NEW w \in Workers, Fetch(w) \/ Fetched(w) \/ FreeWork(w)
      PROVE  at'[Owner] = at[Owner]
    BY <1>1, <1>5 DEF Fetch, Fetched, FreeWork, Move
<1>6. AbsStage' = AbsStage
  <2>1. CASE CreateWorker
    <3>1. at'[Owner] = at[Owner]
        BY <1>1, <2>1 DEF CreateWorker, PoolFacts, PoolTypeOK, Owner
    <3> QED
        BY <1>3, <3>1
  <2>2. CASE InitReturns \/ EnqueueNull \/ NullEnqueued \/ AllNullsEnqueued \/ Join
    <3>1. \/ at'[Owner] = at[Owner]
          \/ at[Owner] = "create" /\ at'[Owner] = "open"
          \/ at[Owner] \in {"pill", "pilling", "join"} /\ at'[Owner] \in {"pill", "pilling", "join"}
        BY <1>1, <2>2 DEF InitReturns, EnqueueNull, NullEnqueued, AllNullsEnqueued, Join, Move
    <3> QED
        BY <1>3, <3>1
  <2>3. CASE UNCHANGED poolVars
      BY <2>3 DEF poolVars, AbsStage, PoolOpen
  <2> QED
      BY <1>3, <1>4, <1>5, <2>1, <2>2, <2>3
<1> QED
    BY <1>2, <1>6 DEF Pool!vars

LEMMA PoolStepRefines ==
    ASSUME PoolInv, PoolFacts, WorkInv, RunsInv', FinishWaits', [Next]_vars
    PROVE  [Pool!Next]_(Pool!vars)
<1> USE PoolAssumption
<1>1. /\ at \in [Threads -> OwnerPCs \cup WorkerPCs] /\ runs \in [Jobs -> Nat]
      /\ Owner \in Threads /\ \A w \in Workers : w \in Threads /\ w # Owner
    BY DEF PoolFacts, PoolTypeOK, Owner, Workers
<1>2. ASSUME NEW t \in Threads, NEW j \in Jobs, ClientAdds(t, j) PROVE Pool!Add(j)
  <2>1. /\ PoolOpen /\ j \notin added /\ added' = added \cup {j} /\ UNCHANGED runs
        /\ at'[Owner] \in {at[Owner], "adding"}
      BY <1>1, <1>2 DEF ClientAdds, AddWork, Move
  <2>2. AbsStage = "open" /\ AbsStage' = "open"
      BY <2>1 DEF AbsStage, PoolOpen
  <2> QED
      BY <2>1, <2>2 DEF Pool!Add
<1>3. ASSUME NEW w \in Workers, WorkReturns(w), NEW j \in Jobs, j = work[w]
      PROVE  Pool!Perform(j)
  <2>1. /\ at[w] = "running" /\ UNCHANGED added /\ at'[Owner] = at[Owner]
        /\ \A k \in Jobs : runs'[k] = IF k = j THEN runs[k] + 1 ELSE runs[k]
      BY <1>1, <1>3 DEF WorkReturns, Move
  <2>2. runs[j] = 0 /\ j \in added
      BY <1>1, <2>1 DEF RunsInv
  <2>3. {k \in Jobs : runs'[k] > 0} = {k \in Jobs : runs[k] > 0} \cup {j}
      BY <1>1, <2>1
  <2>4. AbsStage' = AbsStage
      BY <2>1 DEF AbsStage, PoolOpen
  <2> QED
      BY <2>1, <2>2, <2>3, <2>4 DEF Pool!Perform
<1>4. CASE ClientFinishes
  <2>1. at[Owner] = "open" /\ at'[Owner] = "pill" /\ UNCHANGED <<added, runs>>
      BY <1>1, <1>4 DEF ClientFinishes, Move
  <2> QED
      BY <2>1 DEF Pool!Next, Pool!Finish, AbsStage, PoolOpen
<1>5. CASE FreePool
  <2>1. at[Owner] = "join" /\ at'[Owner] = "closed" /\ UNCHANGED <<added, runs>>
      BY <1>1, <1>5 DEF FreePool, Move
  <2>2. \A j \in added : runs[j] = 1
      BY <2>1 DEF FinishWaits
  <2>3. {j \in Jobs : runs[j] > 0} = added
    <3>1. \A j \in Jobs : runs[j] > 0 => j \in added
        BY DEF WorkInv, RunsInv
    <3> QED
        BY <2>2, <3>1 DEF PoolFacts, PoolTypeOK
  <2>4. AbsStage = "finishing" /\ AbsStage' = "closed"
      BY <2>1 DEF AbsStage, PoolOpen
  <2> QED
      BY <2>1, <2>3, <2>4 DEF Pool!Next, Pool!Close
<1>6. CASE UNCHANGED vars
    BY <1>6, SilentSteps DEF vars, WorkInv, poolVars
<1>7. Next => \/ \E t \in Threads, j \in Jobs : ClientAdds(t, j)
              \/ \E w \in Workers : WorkReturns(w)
              \/ ClientFinishes \/ FreePool
              \/ UNCHANGED poolVars \/ EnqueueNull \/ CreateWorker \/ InitReturns \/ NullEnqueued
              \/ AllNullsEnqueued \/ Join
              \/ \E t \in Threads : AddWorkReturns(t)
              \/ \E w \in Workers : Fetch(w) \/ Fetched(w) \/ FreeWork(w)
    BY DEF Next, Run, Spurious, OwnerStep, WorkerStep
<1>8. ASSUME NEW w \in Workers, WorkReturns(w) PROVE Pool!Next
  <2>1. work[w] \in Jobs
      BY <1>8 DEF WorkReturns, WorkInv, CallInv
  <2> QED
      BY <1>3, <1>8, <2>1 DEF Pool!Next
<1> QED
    BY <1>2, <1>4, <1>5, <1>6, <1>7, <1>8, SilentSteps DEF Pool!Next, WorkInv

(* Whatever the interleaving of owner and workers, the pool performs what   *)
(* was added and nothing else, each piece once, and thread_pool_finish      *)
(* returns only when all of it is performed: the safety part of             *)
(* ImplementsPool, for any number of workers and jobs.                      *)
THEOREM PoolRefinesWorkPool == Spec => Pool!Spec
<1>1. Init => Pool!Init
    BY PoolAssumption DEF Init, Pool!Init, AbsStage, PoolOpen, Owner
<1>2. WorkInv => RunsInv
    BY DEF WorkInv
<1> QED
    BY <1>1, <1>2, PoolStepRefines, PoolInvariant, PoolWorkInvariant, FinishWaitsForAll, PTL
    DEF Spec, Pool!Spec
================================================================================
