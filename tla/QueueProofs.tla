----------------------------- MODULE QueueProofs -----------------------------
(****************************************************************************)
(* QueueInv is preserved by every step of the queue, whoever its callers    *)
(* are.  The lemmas assume nothing of the callers but that they change the  *)
(* queue's state only by calling it, so that the theorems about QueueClients*)
(* at the end and those about ThreadPool can both cite them.                *)
(****************************************************************************)
EXTENDS QueueClients, FiniteSetTheorems, SequenceTheorems, TLAPS

\* The empty queue of queue_init satisfies the invariant.
LEMMA InitInv == QueueInit => QueueInv
<1> SUFFICES ASSUME QueueInit PROVE QueueInv
    OBVIOUS
<1> USE QueueAssumption DEF QueueInit
<1>1. QueueTypeOK
    BY DEF QueueTypeOK, Node, Blank, NewNode, PCs
<1>2. ListShape
    BY DEF ListShape, HeadTailSize, Links, NoDuplicates, Between
<1>3. LockDiscipline
    BY DEF LockDiscipline, Critical
<1>4. LocalPointers
    BY DEF LocalPointers
<1> QED
    BY <1>1, <1>2, <1>3, <1>4 DEF QueueInv

\* Only one thread is in a critical section (queue.c:41-58, 62-93).
LEMMA OneInside ==
    ASSUME QueueInv, NEW s \in Threads, NEW t \in Threads,
           pc[s] \in Critical, pc[t] \in Critical
    PROVE  s = t
BY DEF QueueInv, LockDiscipline

------------------------------------------------------------------------------
(* Calls, locks, waits, signals and unlocks move threads and leave the list *)
(* alone; what they must not do is let a second thread in.                  *)

LEMMA CallEnqueueInv ==
    ASSUME QueueInv, NEW t \in Threads, NEW v \in Values, CallEnqueue(t, v)
    PROVE  QueueInv'
<1> USE QueueAssumption DEF QueueInv, CallEnqueue, Goto
<1>1. QueueTypeOK'
    BY DEF QueueTypeOK, PCs, EnqueuePCs, DequeuePCs
<1>2. ListShape'
    BY DEF ListShape, HeadTailSize, Links, NoDuplicates, Between, QueueTypeOK
<1>3. LockDiscipline'
    BY DEF LockDiscipline, Critical, QueueTypeOK
<1>4. LocalPointers'
    BY DEF LocalPointers, LockDiscipline, Critical, QueueTypeOK
<1> QED
    BY <1>1, <1>2, <1>3, <1>4

LEMMA CallDequeueInv ==
    ASSUME QueueInv, NEW t \in Threads, CallDequeue(t)
    PROVE  QueueInv'
<1> USE QueueAssumption DEF QueueInv, CallDequeue, Goto
<1>1. QueueTypeOK'
    BY DEF QueueTypeOK, PCs, EnqueuePCs, DequeuePCs
<1>2. ListShape'
    BY DEF ListShape, HeadTailSize, Links, NoDuplicates, Between, QueueTypeOK
<1>3. LockDiscipline'
    BY DEF LockDiscipline, Critical, QueueTypeOK
<1>4. LocalPointers'
    BY DEF LocalPointers, LockDiscipline, Critical, QueueTypeOK
<1> QED
    BY <1>1, <1>2, <1>3, <1>4

LEMMA EnqLockInv ==
    ASSUME QueueInv, NEW t \in Threads, EnqLock(t)
    PROVE  QueueInv'
<1> USE QueueAssumption DEF QueueInv, EnqLock, Goto
<1>1. QueueTypeOK'
    BY DEF QueueTypeOK, PCs, EnqueuePCs, DequeuePCs
<1>2. ListShape'
    BY DEF ListShape, HeadTailSize, Links, NoDuplicates, Between, QueueTypeOK
<1>3. LockDiscipline'
    BY DEF LockDiscipline, Critical, QueueTypeOK
<1>4. LocalPointers'
    BY DEF LocalPointers, LockDiscipline, Critical, QueueTypeOK
<1> QED
    BY <1>1, <1>2, <1>3, <1>4

\* The waiter that is woken changes from blocked to asking for the lock.
LEMMA EnqSignalInv ==
    ASSUME QueueInv, NEW t \in Threads, EnqSignal(t)
    PROVE  QueueInv'
<1> USE QueueAssumption DEF QueueInv, EnqSignal, Goto, Waiting
<1>1. \A s \in Threads :
         \/ pc'[s] = pc[s]
         \/ s = t /\ pc'[s] = "enq_unlock"
         \/ pc[s] = "deq_wait" /\ pc'[s] = "deq_relock"
    BY DEF QueueTypeOK
<1>2. pc[t] = "enq_signal" /\ pc'[t] = "enq_unlock"
    BY DEF QueueTypeOK
<1>3. QueueTypeOK'
    BY DEF QueueTypeOK, PCs, EnqueuePCs, DequeuePCs
<1>4. ListShape'
  <2>1. Between("deq_clear")' = Between("deq_clear")
      BY <1>1, <1>2 DEF Between
  <2>2. Between("deq_advance")' = Between("deq_advance")
      BY <1>1, <1>2 DEF Between
  <2> QED
      BY <2>1, <2>2 DEF ListShape, HeadTailSize, Links, NoDuplicates
<1>5. LockDiscipline'
    BY <1>1, <1>2 DEF LockDiscipline, Critical
<1>6. LocalPointers'
    BY <1>1 DEF LocalPointers
<1> QED
    BY <1>3, <1>4, <1>5, <1>6

LEMMA EnqUnlockInv ==
    ASSUME QueueInv, NEW t \in Threads, EnqUnlock(t)
    PROVE  QueueInv'
<1> USE QueueAssumption DEF QueueInv, EnqUnlock, Goto
<1>1. QueueTypeOK'
    BY DEF QueueTypeOK, PCs, EnqueuePCs, DequeuePCs
<1>2. ListShape'
    BY DEF ListShape, HeadTailSize, Links, NoDuplicates, Between, QueueTypeOK
<1>3. LockDiscipline'
    BY DEF LockDiscipline, Critical, QueueTypeOK
<1>4. LocalPointers'
    BY DEF LocalPointers, LockDiscipline, Critical, QueueTypeOK
<1> QED
    BY <1>1, <1>2, <1>3, <1>4

LEMMA DeqLockInv ==
    ASSUME QueueInv, NEW t \in Threads, DeqLock(t)
    PROVE  QueueInv'
<1> USE QueueAssumption DEF QueueInv, DeqLock, Goto
<1>1. QueueTypeOK'
    BY DEF QueueTypeOK, PCs, EnqueuePCs, DequeuePCs
<1>2. ListShape'
    BY DEF ListShape, HeadTailSize, Links, NoDuplicates, Between, QueueTypeOK
<1>3. LockDiscipline'
    BY DEF LockDiscipline, Critical, QueueTypeOK
<1>4. LocalPointers'
    BY DEF LocalPointers, LockDiscipline, Critical, QueueTypeOK
<1> QED
    BY <1>1, <1>2, <1>3, <1>4

LEMMA DeqWaitInv ==
    ASSUME QueueInv, NEW t \in Threads, DeqWait(t)
    PROVE  QueueInv'
<1> USE QueueAssumption DEF QueueInv, DeqWait, Goto
<1>1. QueueTypeOK'
    BY DEF QueueTypeOK, PCs, EnqueuePCs, DequeuePCs
<1>2. ListShape'
    BY DEF ListShape, HeadTailSize, Links, NoDuplicates, Between, QueueTypeOK
<1>3. LockDiscipline'
    BY DEF LockDiscipline, Critical, QueueTypeOK
<1>4. LocalPointers'
    BY DEF LocalPointers, LockDiscipline, Critical, QueueTypeOK
<1> QED
    BY <1>1, <1>2, <1>3, <1>4

LEMMA DeqSpuriousInv ==
    ASSUME QueueInv, NEW t \in Threads, DeqSpurious(t)
    PROVE  QueueInv'
<1> USE QueueAssumption DEF QueueInv, DeqSpurious, Goto
<1>1. QueueTypeOK'
    BY DEF QueueTypeOK, PCs, EnqueuePCs, DequeuePCs
<1>2. ListShape'
    BY DEF ListShape, HeadTailSize, Links, NoDuplicates, Between, QueueTypeOK
<1>3. LockDiscipline'
    BY DEF LockDiscipline, Critical, QueueTypeOK
<1>4. LocalPointers'
    BY DEF LocalPointers, LockDiscipline, Critical, QueueTypeOK
<1> QED
    BY <1>1, <1>2, <1>3, <1>4

LEMMA DeqRelockInv ==
    ASSUME QueueInv, NEW t \in Threads, DeqRelock(t)
    PROVE  QueueInv'
<1> USE QueueAssumption DEF QueueInv, DeqRelock, Goto
<1>1. QueueTypeOK'
    BY DEF QueueTypeOK, PCs, EnqueuePCs, DequeuePCs
<1>2. ListShape'
    BY DEF ListShape, HeadTailSize, Links, NoDuplicates, Between, QueueTypeOK
<1>3. LockDiscipline'
    BY DEF LockDiscipline, Critical, QueueTypeOK
<1>4. LocalPointers'
    BY DEF LocalPointers, LockDiscipline, Critical, QueueTypeOK
<1> QED
    BY <1>1, <1>2, <1>3, <1>4

LEMMA DeqUnlockInv ==
    ASSUME QueueInv, NEW t \in Threads, DeqUnlock(t)
    PROVE  QueueInv'
<1> USE QueueAssumption DEF QueueInv, DeqUnlock, Goto
<1>1. QueueTypeOK'
    BY DEF QueueTypeOK, PCs, EnqueuePCs, DequeuePCs
<1>2. ListShape'
    BY DEF ListShape, HeadTailSize, Links, NoDuplicates, Between, QueueTypeOK
<1>3. LockDiscipline'
    BY DEF LockDiscipline, Critical, QueueTypeOK
<1>4. LocalPointers'
    BY DEF LocalPointers, LockDiscipline, Critical, QueueTypeOK
<1> QED
    BY <1>1, <1>2, <1>3, <1>4

------------------------------------------------------------------------------
(* The steps inside the critical sections change the list.  The thread that *)
(* takes one is alone inside, so nobody is half way through a dequeue but   *)
(* itself.                                                                  *)

LEMMA AloneInside ==
    ASSUME QueueInv, NEW t \in Threads, pc[t] \in Critical,
           NEW s \in Threads, s # t
    PROVE  pc[s] \notin Critical
BY OneInside

\* What LockDiscipline gives each step that stays inside.
LEMMA StaysInside ==
    ASSUME QueueInv, NEW t \in Threads, NEW l \in Critical,
           pc[t] \in Critical, Goto(t, l), UNCHANGED lock
    PROVE  LockDiscipline'
BY DEF QueueInv, LockDiscipline, QueueTypeOK, Goto

LEMMA EnqNodeInv ==
    ASSUME QueueInv, NEW t \in Threads, EnqNode(t)
    PROVE  QueueInv'
<1> USE QueueAssumption DEF QueueInv, Goto
<1>1. PICK a \in Addrs \ alloc :
          /\ alloc' = alloc \cup {a}
          /\ node' = [node EXCEPT ![a] = NewNode(val[t])]
          /\ loc' = [loc EXCEPT ![t] = a]
    BY DEF EnqNode
<1>2. /\ pc[t] = "enq_node"
      /\ pc' = [pc EXCEPT ![t] = "enq_link"]
      /\ UNCHANGED <<live, head, tail, size, lock, val, spurious, order>>
    BY DEF EnqNode
<1>3. QueueTypeOK'
    BY <1>1, <1>2 DEF QueueTypeOK, PCs, EnqueuePCs, Node, NewNode
<1>4. ListShape'
  <2>1. Between("deq_clear")' = Between("deq_clear")
      BY <1>2 DEF Between, QueueTypeOK
  <2>2. Between("deq_advance")' = Between("deq_advance")
      BY <1>2 DEF Between, QueueTypeOK
  <2>3. \A k \in 1 .. Len(order) : order[k] \in alloc /\ order[k] # a
      BY DEF ListShape, Links
  <2>4. Links'
      BY <1>1, <1>2, <2>3 DEF ListShape, Links, QueueTypeOK
  <2> QED
      BY <1>2, <2>1, <2>2, <2>4 DEF ListShape, HeadTailSize, NoDuplicates
<1>5. LockDiscipline'
    BY <1>2, StaysInside DEF Critical
<1>6. LocalPointers'
  <2> SUFFICES ASSUME NEW s \in Threads
      PROVE /\ pc'[s] = "enq_link" =>
                  /\ loc'[s] \in alloc'
                  /\ node'[loc'[s]] = NewNode(val'[s])
                  /\ \A k \in 1 .. Len(order') : order'[k] # loc'[s]
            /\ pc'[s] = "deq_advance" => order' # <<>> /\ loc'[s] = order'[1]
      BY DEF LocalPointers
  <2>1. CASE s = t
      BY <1>1, <1>2, <2>1 DEF ListShape, Links, QueueTypeOK
  <2>2. CASE s # t
    <3>1. pc'[s] = pc[s] /\ pc[s] \notin Critical
        BY <1>2, <2>2, AloneInside DEF Critical, QueueTypeOK
    <3> QED
        BY <3>1 DEF Critical
  <2> QED
      BY <2>1, <2>2
<1> QED
    BY <1>3, <1>4, <1>5, <1>6

\* The list is empty: nobody is half way, and head = NULL.
LEMMA EnqLinkFirstInv ==
    ASSUME QueueInv, NEW t \in Threads, EnqLinkFirst(t)
    PROVE  QueueInv'
<1> USE QueueAssumption DEF QueueInv, EnqLinkFirst, Goto
<1>1. \A s \in Threads \ {t} : pc'[s] = pc[s] /\ pc[s] \notin Critical
    BY AloneInside DEF Critical, QueueTypeOK
<1>2. pc[t] = "enq_link" /\ pc'[t] = "enq_signal"
    BY DEF QueueTypeOK
<1>3. ~Between("deq_clear") /\ ~Between("deq_advance")
      /\ ~Between("deq_clear")' /\ ~Between("deq_advance")'
    BY <1>1, <1>2 DEF Between, Critical
<1>4. /\ loc[t] \in alloc
      /\ loc[t] \in Addrs
      /\ node[loc[t]] = NewNode(val[t])
    BY DEF LocalPointers, QueueTypeOK
<1>5. order = <<>>
  <2> SUFFICES ASSUME order # <<>> PROVE FALSE
      OBVIOUS
  <2>1. head = order[1] /\ order[1] \in Addrs
      BY <1>3 DEF ListShape, HeadTailSize, QueueTypeOK
  <2> QED
      BY <2>1
<1>6. order' = <<loc[t]>>
    BY <1>4, <1>5
<1>7. QueueTypeOK'
    BY <1>4, <1>6 DEF QueueTypeOK, PCs, EnqueuePCs
<1>8. ListShape'
  <2>1. HeadTailSize'
      BY <1>3, <1>6 DEF HeadTailSize
  <2>2. Links'
      BY <1>4, <1>6 DEF Links, NewNode
  <2>3. NoDuplicates'
      BY <1>6 DEF NoDuplicates
  <2> QED
      BY <2>1, <2>2, <2>3 DEF ListShape
<1>9. LockDiscipline'
    BY <1>2, StaysInside DEF Critical
<1>10. LocalPointers'
    BY <1>1, <1>2 DEF LocalPointers, Critical
<1> QED
    BY <1>7, <1>8, <1>9, <1>10

LEMMA EnqLinkLastInv ==
    ASSUME QueueInv, NEW t \in Threads, EnqLinkLast(t)
    PROVE  QueueInv'
<1> USE QueueAssumption DEF QueueInv, EnqLinkLast, Goto
<1> DEFINE n == Len(order)
<1>1. \A s \in Threads \ {t} : pc'[s] = pc[s] /\ pc[s] \notin Critical
    BY AloneInside DEF Critical, QueueTypeOK
<1>2. pc[t] = "enq_link" /\ pc'[t] = "enq_signal"
    BY DEF QueueTypeOK
<1>3. ~Between("deq_clear") /\ ~Between("deq_advance")
      /\ ~Between("deq_clear")' /\ ~Between("deq_advance")'
    BY <1>1, <1>2 DEF Between, Critical
<1>4. /\ loc[t] \in alloc
      /\ loc[t] \in Addrs
      /\ node[loc[t]] = NewNode(val[t])
      /\ \A k \in 1 .. n : order[k] # loc[t]
    BY DEF LocalPointers, QueueTypeOK
<1>5. order \in Seq(Addrs) /\ n \in Nat /\ n # 0
      /\ head = order[1] /\ tail = order[n] /\ size = n
    BY <1>3, LenProperties DEF ListShape, HeadTailSize, QueueTypeOK
<1>6. /\ tail \in alloc /\ tail \in Addrs /\ tail # loc[t]
      /\ node[tail].right = Null
    BY <1>4, <1>5 DEF ListShape, Links
<1>7. /\ order' \in Seq(Addrs)
      /\ Len(order') = n + 1
      /\ \A k \in 1 .. n : order'[k] = order[k]
      /\ order'[n + 1] = loc[t]
    BY <1>4, <1>5, AppendProperties
<1>8. /\ node'[tail] = [node[tail] EXCEPT !.right = loc[t]]
      /\ node'[loc[t]] = [node[loc[t]] EXCEPT !.left = tail]
      /\ \A a \in Addrs \ {tail, loc[t]} : node'[a] = node[a]
      /\ node' \in [Addrs -> Node]
  <2> DEFINE l == loc[t]
             m == [node EXCEPT ![tail].right = l]
  <2>1. node \in [Addrs -> Node] /\ l \in Addrs /\ tail \in Addrs /\ tail # l
      BY <1>4, <1>6 DEF QueueTypeOK
  <2>2. node' = [m EXCEPT ![l].left = tail]
      OBVIOUS
  <2> HIDE DEF l, EnqLinkLast, QueueInv, Goto
  <2>3. /\ m \in [Addrs -> Node]
        /\ m[tail] = [node[tail] EXCEPT !.right = l]
        /\ \A a \in Addrs \ {tail} : m[a] = node[a]
      BY <2>1 DEF Node
  <2> HIDE DEF m
  <2>4. /\ node' \in [Addrs -> Node]
        /\ node'[l] = [m[l] EXCEPT !.left = tail]
        /\ \A a \in Addrs \ {l} : node'[a] = m[a]
      BY <2>1, <2>2, <2>3 DEF Node
  <2> QED
      BY <2>1, <2>3, <2>4 DEF l
<1>9. QueueTypeOK'
  <2>1. tail' \in Addrs /\ size' \in Nat /\ pc' \in [Threads -> PCs]
      BY <1>4, <1>5 DEF QueueTypeOK, PCs, EnqueuePCs
  <2>2. UNCHANGED <<live, head, alloc, lock, val, loc, spurious>>
      OBVIOUS
  <2> HIDE DEF EnqLinkLast
  <2> QED
      BY <1>7, <1>8, <2>1, <2>2 DEF QueueTypeOK
<1>10. ListShape'
  <2>1. HeadTailSize'
      BY <1>3, <1>5, <1>7 DEF HeadTailSize
  <2>2. Links'
    <3> SUFFICES ASSUME NEW k \in 1 .. n + 1
        PROVE /\ order'[k] \in alloc'
              /\ node'[order'[k]].left = (IF k = 1 THEN Null ELSE order'[k - 1])
              /\ node'[order'[k]].right = (IF k = n + 1 THEN Null ELSE order'[k + 1])
      <4>1. Len(order') = n + 1
          BY <1>7
      <4> HIDE DEF n, EnqLinkLast, QueueInv, Goto
      <4> QED
          BY <4>1 DEF Links
    <3>1. CASE k = n + 1
      <4>1. order'[k] = loc[t] /\ loc[t] \in alloc' /\ k # 1
          BY <1>4, <1>5, <1>7, <3>1
      <4>2. order'[k - 1] = tail
          BY <1>5, <1>7, <3>1
      <4>3. node'[loc[t]].left = tail /\ node'[loc[t]].right = Null
          BY <1>4, <1>8 DEF NewNode
      <4> QED
          BY <3>1, <4>1, <4>2, <4>3
    <3>2. CASE k = n
      <4>1. order'[k] = tail /\ node[tail].left = (IF k = 1 THEN Null ELSE order[k - 1])
        <5>1. k \in 1 .. n
            BY <1>5, <3>2
        <5>2. node[order[k]].left = (IF k = 1 THEN Null ELSE order[k - 1])
            BY <5>1 DEF ListShape, Links
        <5>3. order'[k] = order[k] /\ order[k] = tail
            BY <1>5, <1>7, <3>2, <5>1
        <5> QED
            BY <5>2, <5>3
      <4>2. node'[tail].left = node[tail].left /\ node'[tail].right = loc[t]
          BY <1>6, <1>8 DEF QueueTypeOK, Node
      <4>3. k # 1 => order'[k - 1] = order[k - 1]
          BY <1>5, <1>7, <3>2
      <4> QED
          BY <1>5, <1>6, <1>7, <3>2, <4>1, <4>2, <4>3
    <3>3. CASE k \in 1 .. n - 1
      <4>1. /\ order'[k] = order[k] /\ order[k] \in Addrs /\ order[k] \in alloc
            /\ order[k] # tail /\ order[k] # loc[t]
            /\ order'[k + 1] = order[k + 1]
            /\ k # 1 => order'[k - 1] = order[k - 1]
          BY <1>4, <1>5, <1>7, <3>3 DEF ListShape, Links, NoDuplicates
      <4>2. /\ node[order[k]].left = (IF k = 1 THEN Null ELSE order[k - 1])
            /\ node[order[k]].right = order[k + 1]
          BY <1>5, <3>3 DEF ListShape, Links
      <4> QED
          BY <1>5, <1>8, <3>3, <4>1, <4>2
    <3> QED
        BY <1>5, <3>1, <3>2, <3>3
  <2>3. NoDuplicates'
      BY <1>4, <1>5, <1>7 DEF ListShape, NoDuplicates
  <2> QED
      BY <2>1, <2>2, <2>3 DEF ListShape
<1>11. LockDiscipline'
    BY <1>2, StaysInside DEF Critical
<1>12. LocalPointers'
    BY <1>1, <1>2 DEF LocalPointers, Critical
<1> QED
    BY <1>9, <1>10, <1>11, <1>12

\* What a dequeue knows when it finds the queue non-empty.
LEMMA AtTest ==
    ASSUME QueueInv, NEW t \in Threads, pc[t] = "deq_test", size # 0
    PROVE  /\ \A s \in Threads \ {t} : pc[s] \notin Critical
           /\ ~Between("deq_clear") /\ ~Between("deq_advance")
           /\ order \in Seq(Addrs) /\ size = Len(order) /\ Len(order) \in Nat
           /\ order # <<>>
           /\ head = order[1] /\ tail = order[Len(order)]
           /\ head \in Addrs /\ head \in alloc
<1>1. \A s \in Threads \ {t} : pc[s] \notin Critical
    BY AloneInside DEF Critical
<1>2. ~Between("deq_clear") /\ ~Between("deq_advance")
    BY <1>1 DEF Between, Critical
<1>3. order \in Seq(Addrs) /\ size = Len(order) /\ Len(order) \in Nat
    BY <1>2, LenProperties DEF QueueInv, ListShape, HeadTailSize, QueueTypeOK
<1>4. order # <<>>
    BY <1>3
<1>5. head = order[1] /\ tail = order[Len(order)]
    BY <1>2, <1>4 DEF QueueInv, ListShape, HeadTailSize
<1>6. head \in Addrs /\ head \in alloc
    BY <1>3, <1>4, <1>5 DEF QueueInv, ListShape, Links
<1> QED
    BY <1>1, <1>2, <1>3, <1>4, <1>5, <1>6

LEMMA DeqTakeLastInv ==
    ASSUME QueueInv, NEW t \in Threads, DeqTakeLast(t)
    PROVE  QueueInv'
<1> USE QueueAssumption DEF QueueInv
<1>1. /\ pc[t] = "deq_test" /\ size = 1
      /\ val' = [val EXCEPT ![t] = node[head].value]
      /\ alloc' = alloc \ {head}
      /\ node' = [node EXCEPT ![head] = Blank]
      /\ order' = Tail(order)
      /\ pc' = [pc EXCEPT ![t] = "deq_clear"]
      /\ UNCHANGED <<live, head, tail, size, lock, loc, spurious>>
    BY DEF DeqTakeLast, Goto
<1>2. /\ \A s \in Threads \ {t} : pc[s] \notin Critical
      /\ order \in Seq(Addrs) /\ Len(order) = 1 /\ head \in Addrs
    BY <1>1, AtTest
<1>3. order' = <<>>
    BY <1>1, <1>2
<1>4. Between("deq_clear")'
    BY <1>1 DEF Between, QueueTypeOK
<1>5. QueueTypeOK'
  <2>1. node[head].value \in Values /\ Blank \in Node
      BY <1>2 DEF QueueTypeOK, Node, Blank, NewNode
  <2>2. val' \in [Threads -> Values] /\ node' \in [Addrs -> Node]
      BY <1>1, <2>1 DEF QueueTypeOK
  <2>3. pc' \in [Threads -> PCs] /\ alloc' \subseteq Addrs
      BY <1>1 DEF QueueTypeOK, PCs, DequeuePCs
  <2>4. order' \in Seq(Addrs)
      BY <1>3
  <2> QED
      BY <1>1, <2>2, <2>3, <2>4 DEF QueueTypeOK
<1>6. ListShape'
    BY <1>1, <1>3, <1>4 DEF ListShape, HeadTailSize, Links, NoDuplicates
<1>7. LockDiscipline'
    BY <1>1, StaysInside DEF Critical, Goto
<1>8. LocalPointers'
    BY <1>1, <1>2 DEF LocalPointers, Critical, QueueTypeOK
<1> QED
    BY <1>5, <1>6, <1>7, <1>8

LEMMA DeqClearInv ==
    ASSUME QueueInv, NEW t \in Threads, DeqClear(t)
    PROVE  QueueInv'
<1> USE QueueAssumption DEF QueueInv, DeqClear, Goto
<1>1. \A s \in Threads \ {t} : pc'[s] = pc[s] /\ pc[s] \notin Critical
    BY AloneInside DEF Critical, QueueTypeOK
<1>2. pc[t] = "deq_clear" /\ pc'[t] = "deq_unlock"
    BY DEF QueueTypeOK
<1>3. Between("deq_clear") /\ ~Between("deq_clear")' /\ ~Between("deq_advance")'
    BY <1>1, <1>2 DEF Between, Critical
<1>4. order = <<>>
    BY <1>3 DEF ListShape, HeadTailSize
<1>5. QueueTypeOK'
    BY DEF QueueTypeOK, PCs, DequeuePCs
<1>6. ListShape'
    BY <1>3, <1>4 DEF ListShape, HeadTailSize, Links, NoDuplicates
<1>7. LockDiscipline'
    BY <1>2, StaysInside DEF Critical
<1>8. LocalPointers'
    BY <1>1, <1>2 DEF LocalPointers, Critical
<1> QED
    BY <1>5, <1>6, <1>7, <1>8

\* The successor becomes the first node: its left link is cut, the old first
\* node is freed, and the rest of the list is as it was.
LEMMA DeqTakeFirstInv ==
    ASSUME QueueInv, NEW t \in Threads, DeqTakeFirst(t)
    PROVE  QueueInv'
<1> USE QueueAssumption DEF QueueInv
<1> DEFINE n == Len(order)
           nxt == node[head].right
<1>1. /\ pc[t] = "deq_test" /\ size \notin {0, 1}
      /\ val' = [val EXCEPT ![t] = node[head].value]
      /\ loc' = [loc EXCEPT ![t] = nxt]
      /\ node' = [node EXCEPT ![nxt].left = Null, ![head] = Blank]
      /\ alloc' = alloc \ {head}
      /\ order' = Tail(order)
      /\ pc' = [pc EXCEPT ![t] = "deq_advance"]
      /\ UNCHANGED <<live, head, tail, size, lock, spurious>>
    BY DEF DeqTakeFirst, Goto
<1>2. /\ \A s \in Threads \ {t} : pc[s] \notin Critical
      /\ order \in Seq(Addrs) /\ n \in Nat /\ n > 1 /\ size = n
      /\ head = order[1] /\ tail = order[n]
      /\ head \in Addrs
  <2>1. size \in Nat
      BY DEF QueueTypeOK
  <2> QED
      BY <1>1, <2>1, AtTest
<1>3. /\ nxt = order[2] /\ nxt \in Addrs /\ nxt # head
    BY <1>2 DEF ListShape, Links, NoDuplicates
<1>4. /\ order' \in Seq(Addrs)
      /\ Len(order') = n - 1
      /\ \A k \in 1 .. n - 1 : order'[k] = order[k + 1]
    BY <1>1, <1>2, HeadTailProperties
<1>5. /\ node' \in [Addrs -> Node]
      /\ node'[nxt] = [node[nxt] EXCEPT !.left = Null]
      /\ \A a \in Addrs \ {head, nxt} : node'[a] = node[a]
  <2>1. Blank \in Node /\ [node[nxt] EXCEPT !.left = Null] \in Node
      BY <1>3 DEF QueueTypeOK, Node, Blank, NewNode
  <2>2. node \in [Addrs -> Node]
      BY DEF QueueTypeOK
  <2> QED
      BY <1>1, <1>2, <1>3, <2>1, <2>2
<1>6. ~Between("deq_clear")' /\ Between("deq_advance")'
    BY <1>1, <1>2 DEF Between, Critical, QueueTypeOK
<1>7. QueueTypeOK'
  <2>1. node[head].value \in Values
      BY <1>2 DEF QueueTypeOK, Node
  <2>2. val' \in [Threads -> Values] /\ loc' \in [Threads -> Addrs \cup {Null}]
      BY <1>1, <1>3, <2>1 DEF QueueTypeOK
  <2>3. pc' \in [Threads -> PCs] /\ alloc' \subseteq Addrs
      BY <1>1 DEF QueueTypeOK, PCs, DequeuePCs
  <2> QED
      BY <1>1, <1>4, <1>5, <2>2, <2>3 DEF QueueTypeOK
<1>8. ListShape'
  <2>1. HeadTailSize'
    <3>1. n - 1 \in 1 .. n - 1 /\ size' = Len(order') + 1 /\ Len(order') # 0
        BY <1>1, <1>2, <1>4
    <3>2. order' # <<>>
        BY <3>1
    <3>3. tail' = order'[Len(order')]
        BY <1>1, <1>2, <1>4, <3>1
    <3> QED
        BY <1>6, <3>1, <3>2, <3>3 DEF HeadTailSize
  <2>2. Links'
    <3> SUFFICES ASSUME NEW k \in 1 .. n - 1
        PROVE /\ order'[k] \in alloc'
              /\ node'[order'[k]].left = (IF k = 1 THEN Null ELSE order'[k - 1])
              /\ node'[order'[k]].right = (IF k = n - 1 THEN Null ELSE order'[k + 1])
        BY <1>4 DEF Links
    <3>1. /\ order'[k] = order[k + 1] /\ order[k + 1] \in Addrs
          /\ order[k + 1] \in alloc /\ order[k + 1] # head
          /\ node[order[k + 1]].left = order[k]
          /\ node[order[k + 1]].right = (IF k = n - 1 THEN Null ELSE order[k + 2])
        BY <1>2, <1>4 DEF ListShape, Links, NoDuplicates
    <3>2. k # n - 1 => order'[k + 1] = order[k + 2]
        BY <1>2, <1>4
    <3>3. node'[order[k + 1]].right = node[order[k + 1]].right
        BY <1>3, <1>5, <3>1 DEF QueueTypeOK, Node
    <3>4. CASE k = 1
      <4>1. order[k + 1] = nxt /\ node'[nxt].left = Null
          BY <1>3, <1>5, <3>4 DEF QueueTypeOK, Node
      <4> QED
          BY <1>1, <3>1, <3>2, <3>3, <3>4, <4>1
    <3>5. CASE k # 1
      <4>1. order[k + 1] # nxt /\ order'[k - 1] = order[k]
          BY <1>2, <1>3, <1>4, <3>5 DEF ListShape, NoDuplicates
      <4> QED
          BY <1>1, <1>5, <3>1, <3>2, <3>3, <3>5, <4>1
    <3> QED
        BY <3>4, <3>5
  <2>3. NoDuplicates'
      BY <1>2, <1>4 DEF ListShape, NoDuplicates
  <2> QED
      BY <2>1, <2>2, <2>3 DEF ListShape
<1>9. LockDiscipline'
    BY <1>1, StaysInside DEF Critical, Goto
<1>10. LocalPointers'
  <2>1. order' # <<>> /\ order'[1] = nxt
      BY <1>2, <1>3, <1>4
  <2> QED
      BY <1>1, <1>2, <2>1 DEF LocalPointers, Critical, QueueTypeOK
<1> QED
    BY <1>7, <1>8, <1>9, <1>10

LEMMA DeqAdvanceInv ==
    ASSUME QueueInv, NEW t \in Threads, DeqAdvance(t)
    PROVE  QueueInv'
<1> USE QueueAssumption DEF QueueInv, DeqAdvance, Goto
<1>1. \A s \in Threads \ {t} : pc'[s] = pc[s] /\ pc[s] \notin Critical
    BY AloneInside DEF Critical, QueueTypeOK
<1>2. pc[t] = "deq_advance" /\ pc'[t] = "deq_unlock"
    BY DEF QueueTypeOK
<1>3. /\ ~Between("deq_clear") /\ Between("deq_advance")
      /\ ~Between("deq_clear")' /\ ~Between("deq_advance")'
    BY <1>1, <1>2 DEF Between, Critical
<1>4. order \in Seq(Addrs) /\ Len(order) \in Nat
    BY LenProperties DEF QueueTypeOK
<1>5. order # <<>> /\ size = Len(order) + 1 /\ tail = order[Len(order)]
    BY <1>3 DEF ListShape, HeadTailSize
<1>6. loc[t] = order[1] /\ size' = Len(order)
    BY <1>2, <1>4, <1>5 DEF LocalPointers
<1>7. QueueTypeOK'
    BY <1>4, <1>6 DEF QueueTypeOK, PCs, DequeuePCs
<1>8. ListShape'
    BY <1>3, <1>5, <1>6 DEF ListShape, HeadTailSize, Links, NoDuplicates
<1>9. LockDiscipline'
    BY <1>2, StaysInside DEF Critical
<1>10. LocalPointers'
    BY <1>1, <1>2 DEF LocalPointers, Critical
<1> QED
    BY <1>7, <1>8, <1>9, <1>10

------------------------------------------------------------------------------
(* Together: every step of an operation of the queue preserves QueueInv.    *)

LEMMA QueueStepInv ==
    ASSUME QueueInv, NEW t \in Threads, QueueStep(t)
    PROVE  QueueInv'
BY EnqLockInv, EnqNodeInv, EnqLinkFirstInv, EnqLinkLastInv, EnqSignalInv,
   EnqUnlockInv, DeqLockInv, DeqWaitInv, DeqRelockInv, DeqTakeLastInv,
   DeqClearInv, DeqTakeFirstInv, DeqAdvanceInv, DeqUnlockInv
   DEF QueueStep, EnqueueStep, DequeueStep

LEMMA QueueStutterInv ==
    ASSUME QueueInv, UNCHANGED queueVars
    PROVE  QueueInv'
BY DEF queueVars, QueueInv, QueueTypeOK, ListShape, HeadTailSize, Links,
       NoDuplicates, Between, LockDiscipline, LocalPointers

\* free(queue) touches nothing the invariant speaks of but live.
LEMMA QueueFreeInv ==
    ASSUME QueueInv, QueueFree
    PROVE  QueueInv'
BY DEF QueueFree, QueueInv, QueueTypeOK, ListShape, HeadTailSize, Links,
       NoDuplicates, Between, LockDiscipline, LocalPointers

\* The invariant makes every dereference of the next step safe.
LEMMA InvImpliesSafeDereference == QueueInv => SafeDereference
<1> SUFFICES ASSUME QueueInv, NEW t \in Threads
    PROVE /\ pc[t] = "enq_link" =>
                /\ loc[t] \in alloc
                /\ head # Null => tail \in alloc \ {loc[t]}
          /\ pc[t] = "deq_test" /\ size > 0 =>
                /\ head \in alloc
                /\ size > 1 => node[head].right \in alloc \ {head}
          /\ pc[t] = "deq_advance" => loc[t] \in alloc
    BY DEF SafeDereference
<1> USE QueueAssumption
<1>0. order \in Seq(Addrs) /\ Len(order) \in Nat
    BY LenProperties DEF QueueInv, QueueTypeOK
<1>1. ASSUME pc[t] = "enq_link"
      PROVE  loc[t] \in alloc /\ (head # Null => tail \in alloc \ {loc[t]})
  <2>1. ~Between("deq_clear") /\ ~Between("deq_advance")
      BY <1>1, OneInside DEF Between, Critical
  <2>2. head # Null => order # <<>> /\ tail = order[Len(order)]
      BY <2>1 DEF QueueInv, ListShape, HeadTailSize
  <2>3. /\ loc[t] \in alloc
        /\ \A k \in 1 .. Len(order) : order[k] # loc[t] /\ order[k] \in alloc
      BY <1>1 DEF QueueInv, LocalPointers, ListShape, Links
  <2>4. order # <<>> => Len(order) \in 1 .. Len(order)
      BY <1>0
  <2> QED
      BY <2>2, <2>3, <2>4
<1>2. ASSUME pc[t] = "deq_test", size > 0
      PROVE  head \in alloc /\ (size > 1 => node[head].right \in alloc \ {head})
  <2>1. size # 0
      BY <1>2 DEF QueueInv, QueueTypeOK
  <2>2. head \in alloc /\ size = Len(order) /\ head = order[1] /\ order # <<>>
      BY <1>2, <2>1, AtTest
  <2>3. ASSUME size > 1 PROVE node[head].right \in alloc \ {head}
    <3>1. 1 \in 1 .. Len(order) /\ 2 \in 1 .. Len(order) /\ 1 # Len(order)
        BY <1>0, <2>2, <2>3
    <3> QED
        BY <2>2, <3>1 DEF QueueInv, ListShape, Links, NoDuplicates
  <2> QED
      BY <2>2, <2>3
<1>3. ASSUME pc[t] = "deq_advance" PROVE loc[t] \in alloc
  <2>1. order # <<>> /\ loc[t] = order[1]
      BY <1>3 DEF QueueInv, LocalPointers
  <2>2. 1 \in 1 .. Len(order)
      BY <1>0, <2>1
  <2> QED
      BY <2>1, <2>2 DEF QueueInv, ListShape, Links
<1> QED
    BY <1>1, <1>2, <1>3

------------------------------------------------------------------------------
(* Refinement of FifoQueue: what each step is of it. *)

ItemsFacts ==
    /\ order \in Seq(Addrs) /\ Len(order) \in Nat
    /\ Queued \in Seq(Values)
    /\ Len(Queued) = Len(order)
    /\ \A k \in 1 .. Len(order) : Queued[k] = node[order[k]].value

LEMMA ItemsAreSeq == QueueInv => ItemsFacts
<1> SUFFICES ASSUME QueueInv PROVE ItemsFacts
    OBVIOUS
<1>1. order \in Seq(Addrs) /\ Len(order) \in Nat
    BY LenProperties DEF QueueInv, QueueTypeOK
<1>2. \A k \in 1 .. Len(order) : node[order[k]].value \in Values
    BY <1>1 DEF QueueInv, QueueTypeOK, Node
<1> QED
    BY <1>1, <1>2 DEF Queued, ItemsFacts

\* A step that keeps the linked nodes and their values keeps the items.
LEMMA SameItems ==
    ASSUME UNCHANGED order,
           \A k \in 1 .. Len(order) : node'[order[k]].value = node[order[k]].value
    PROVE  Queued' = Queued
BY DEF Queued

\* A step that moves only thread t moves only its phase.
LEMMA PhaseMoves ==
    ASSUME QueueInv, NEW t \in Threads, NEW l, Goto(t, l)
    PROVE  /\ Phase' = [Phase EXCEPT ![t] = PhaseOf(l)]
           /\ Phase[t] = PhaseOf(pc[t])
           /\ PhaseOf(l) = PhaseOf(pc[t]) => Phase' = Phase
<1>1. \A s \in Threads : pc'[s] = IF s = t THEN l ELSE pc[s]
    BY DEF Goto, QueueInv, QueueTypeOK
<1> QED
    BY <1>1 DEF Phase

LEMMA CallsRefine ==
    ASSUME QueueInv, NEW t \in Threads
    PROVE  /\ \A v \in Values : CallEnqueue(t, v) => Fifo!InvokeEnqueue(t, v)
           /\ CallDequeue(t) => Fifo!InvokeDequeue(t)
<1>1. ASSUME NEW v \in Values, CallEnqueue(t, v) PROVE Fifo!InvokeEnqueue(t, v)
  <2>1. Queued' = Queued
      BY <1>1, SameItems DEF CallEnqueue
  <2>2. Phase' = [Phase EXCEPT ![t] = "enqueue"] /\ Phase[t] = "idle"
      BY <1>1, PhaseMoves DEF CallEnqueue, PhaseOf
  <2> QED
      BY <1>1, <2>1, <2>2 DEF CallEnqueue, Fifo!InvokeEnqueue
<1>2. ASSUME CallDequeue(t) PROVE Fifo!InvokeDequeue(t)
  <2>1. Queued' = Queued
      BY <1>2, SameItems DEF CallDequeue
  <2>2. Phase' = [Phase EXCEPT ![t] = "dequeue"] /\ Phase[t] = "idle"
      BY <1>2, PhaseMoves DEF CallDequeue, PhaseOf
  <2> QED
      BY <1>2, <2>1, <2>2 DEF CallDequeue, Fifo!InvokeDequeue
<1> QED
    BY <1>1, <1>2

\* Locking, waiting and updating the struct are invisible.
LEMMA StutterSteps ==
    ASSUME QueueInv, NEW t \in Threads,
           \/ EnqLock(t) \/ DeqLock(t) \/ DeqWait(t) \/ DeqSpurious(t)
           \/ DeqRelock(t) \/ DeqClear(t) \/ DeqAdvance(t)
    PROVE  UNCHANGED Fifo!vars
<1>1. PICK l : Goto(t, l) /\ PhaseOf(l) = PhaseOf(pc[t])
    BY DEF EnqLock, DeqLock, DeqWait, DeqSpurious, DeqRelock, DeqClear,
           DeqAdvance, PhaseOf
<1>2. Phase' = Phase
    BY <1>1, PhaseMoves
<1>3. UNCHANGED <<val, node, order>>
    BY DEF EnqLock, DeqLock, DeqWait, DeqSpurious, DeqRelock, DeqClear, DeqAdvance
<1>4. Queued' = Queued
    BY <1>3, SameItems
<1> QED
    BY <1>2, <1>3, <1>4 DEF Fifo!vars

LEMMA EnqNodeStutters ==
    ASSUME QueueInv, NEW t \in Threads, EnqNode(t)
    PROVE  UNCHANGED Fifo!vars
<1>1. Phase' = Phase
    BY PhaseMoves DEF EnqNode, PhaseOf
<1>2. UNCHANGED <<val, order>>
    BY DEF EnqNode
<1>3. \A k \in 1 .. Len(order) : node'[order[k]].value = node[order[k]].value
  <2>1. PICK a \in Addrs \ alloc : node' = [node EXCEPT ![a] = NewNode(val[t])]
      BY DEF EnqNode
  <2>2. \A k \in 1 .. Len(order) : order[k] \in alloc
      BY DEF QueueInv, ListShape, Links
  <2> QED
      BY <2>1, <2>2 DEF QueueInv, QueueTypeOK
<1> QED
    BY <1>1, <1>2, <1>3, SameItems DEF Fifo!vars

\* The signal moves its sender and a waiter, neither of them visibly.
LEMMA EnqSignalStutters ==
    ASSUME QueueInv, NEW t \in Threads, EnqSignal(t)
    PROVE  UNCHANGED Fifo!vars
<1>1. \A s \in Threads :
         \/ pc'[s] = pc[s]
         \/ pc[s] = "enq_signal" /\ pc'[s] = "enq_unlock"
         \/ pc[s] = "deq_wait" /\ pc'[s] = "deq_relock"
    BY DEF EnqSignal, Goto, Waiting, QueueInv, QueueTypeOK
<1>2. Phase' = Phase
  <2>1. \A s \in Threads : PhaseOf(pc'[s]) = PhaseOf(pc[s])
      BY <1>1 DEF PhaseOf
  <2> QED
      BY <2>1 DEF Phase
<1>3. UNCHANGED <<val, node, order>>
    BY DEF EnqSignal
<1> QED
    BY <1>2, <1>3, SameItems DEF Fifo!vars

LEMMA UnlocksReturn ==
    ASSUME QueueInv, NEW t \in Threads
    PROVE  /\ EnqUnlock(t) => Fifo!ReturnEnqueue(t)
           /\ DeqUnlock(t) => Fifo!ReturnDequeue(t)
<1>1. ASSUME EnqUnlock(t) PROVE Fifo!ReturnEnqueue(t)
  <2>1. Queued' = Queued
      BY <1>1, SameItems DEF EnqUnlock
  <2>2. Phase' = [Phase EXCEPT ![t] = "idle"] /\ Phase[t] = "enqueued"
      BY <1>1, PhaseMoves DEF EnqUnlock, PhaseOf
  <2> QED
      BY <1>1, <2>1, <2>2 DEF EnqUnlock, Fifo!ReturnEnqueue
<1>2. ASSUME DeqUnlock(t) PROVE Fifo!ReturnDequeue(t)
  <2>1. Queued' = Queued
      BY <1>2, SameItems DEF DeqUnlock
  <2>2. Phase' = [Phase EXCEPT ![t] = "idle"] /\ Phase[t] = "dequeued"
      BY <1>2, PhaseMoves DEF DeqUnlock, PhaseOf
  <2> QED
      BY <1>2, <2>1, <2>2 DEF DeqUnlock, Fifo!ReturnDequeue
<1> QED
    BY <1>1, <1>2

\* Linking the node is where an enqueue takes effect.
LEMMA LinkEnqueues ==
    ASSUME QueueInv, NEW t \in Threads, EnqLinkFirst(t) \/ EnqLinkLast(t)
    PROVE  Fifo!Enqueue(t)
<1> DEFINE n == Len(order)
<1>1. /\ order' = Append(order, loc[t]) /\ UNCHANGED val
      /\ Goto(t, "enq_signal") /\ pc[t] = "enq_link"
    BY DEF EnqLinkFirst, EnqLinkLast
<1>2. Phase' = [Phase EXCEPT ![t] = "enqueued"] /\ Phase[t] = "enqueue"
    BY <1>1, PhaseMoves DEF PhaseOf
<1>3. QueueInv'
    BY EnqLinkFirstInv, EnqLinkLastInv
<1>4. /\ loc[t] \in Addrs /\ node[loc[t]].value = val[t] /\ val[t] \in Values
  <2>1. loc[t] \in alloc /\ node[loc[t]] = NewNode(val[t])
      BY <1>1 DEF QueueInv, LocalPointers
  <2>2. alloc \subseteq Addrs /\ val[t] \in Values
      BY DEF QueueInv, QueueTypeOK
  <2> QED
      BY <2>1, <2>2 DEF NewNode
<1>5. /\ order \in Seq(Addrs) /\ n \in Nat /\ Queued \in Seq(Values)
      /\ Len(Queued) = n
      /\ \A k \in 1 .. n : Queued[k] = node[order[k]].value
    BY ItemsAreSeq DEF ItemsFacts
<1>6. /\ Len(order') = n + 1 /\ order'[n + 1] = loc[t]
      /\ \A k \in 1 .. n : order'[k] = order[k]
    BY <1>1, <1>4, <1>5, AppendProperties
<1>7. /\ Queued' \in Seq(Values) /\ Len(Queued') = n + 1
      /\ \A k \in 1 .. n + 1 : Queued'[k] = node'[order'[k]].value
  <2>1. ItemsFacts'
      BY <1>3, ItemsAreSeq, PTL
  <2> QED
      BY <1>6, <2>1 DEF ItemsFacts
<1>8. \A a \in Addrs : node'[a].value = node[a].value
    BY DEF EnqLinkFirst, EnqLinkLast, QueueInv, QueueTypeOK, Node
<1>9. /\ \A k \in 1 .. n : Queued'[k] = Queued[k]
      /\ Queued'[n + 1] = val[t]
    BY <1>4, <1>5, <1>6, <1>7, <1>8
<1>10. Queued' = Append(Queued, val[t])
  <2>1. /\ Append(Queued, val[t]) \in Seq(Values)
        /\ Len(Append(Queued, val[t])) = n + 1
        /\ \A k \in 1 .. n : Append(Queued, val[t])[k] = Queued[k]
        /\ Append(Queued, val[t])[n + 1] = val[t]
      BY <1>4, <1>5, AppendProperties
  <2> QED
      BY <1>5, <1>7, <1>9, <2>1, SeqEqual
<1> QED
    BY <1>1, <1>2, <1>10 DEF Fifo!Enqueue

\* Taking the head node is where a dequeue takes effect.
LEMMA TakeDequeues ==
    ASSUME QueueInv, NEW t \in Threads, DeqTakeLast(t) \/ DeqTakeFirst(t)
    PROVE  Fifo!Dequeue(t)
<1> DEFINE n == Len(order)
<1>1. /\ order' = Tail(order)
      /\ val' = [val EXCEPT ![t] = node[head].value]
      /\ pc[t] = "deq_test" /\ size # 0
    BY DEF DeqTakeLast, DeqTakeFirst
<1>2. PICK l \in {"deq_clear", "deq_advance"} : Goto(t, l)
    BY DEF DeqTakeLast, DeqTakeFirst
<1>3. Phase' = [Phase EXCEPT ![t] = "dequeued"] /\ Phase[t] = "dequeue"
    BY <1>1, <1>2, PhaseMoves DEF PhaseOf
<1>4. /\ order \in Seq(Addrs) /\ n \in Nat /\ order # <<>> /\ head = order[1]
      /\ head \in Addrs
    BY <1>1, AtTest
<1>5. /\ Queued \in Seq(Values) /\ Len(Queued) = n
      /\ \A k \in 1 .. n : Queued[k] = node[order[k]].value
    BY ItemsAreSeq DEF ItemsFacts
<1>6. n # 0 /\ Queued # <<>> /\ Head(Queued) = node[head].value
    BY <1>4, <1>5
<1>7. QueueInv'
    BY DeqTakeLastInv, DeqTakeFirstInv
<1>8. /\ Len(order') = n - 1
      /\ \A k \in 1 .. n - 1 : order'[k] = order[k + 1]
    BY <1>1, <1>4, HeadTailProperties
<1>9. /\ Queued' \in Seq(Values) /\ Len(Queued') = n - 1
      /\ \A k \in 1 .. n - 1 : Queued'[k] = node'[order'[k]].value
  <2>1. ItemsFacts'
      BY <1>7, ItemsAreSeq, PTL
  <2> QED
      BY <1>8, <2>1 DEF ItemsFacts
<1>10. \A a \in Addrs \ {head} : node'[a].value = node[a].value
    BY DEF DeqTakeLast, DeqTakeFirst, QueueInv, QueueTypeOK, Node
<1>11. \A k \in 1 .. n - 1 : Queued'[k] = Queued[k + 1]
  <2> SUFFICES ASSUME NEW k \in 1 .. n - 1 PROVE Queued'[k] = Queued[k + 1]
      OBVIOUS
  <2>1. k + 1 \in 1 .. n /\ 1 \in 1 .. n /\ k + 1 # 1
      BY <1>4
  <2>2. order[k + 1] \in Addrs \ {head}
      BY <1>4, <2>1 DEF QueueInv, ListShape, NoDuplicates
  <2> QED
      BY <1>5, <1>8, <1>9, <1>10, <2>1, <2>2
<1>12. Queued' = Tail(Queued)
  <2>1. /\ Tail(Queued) \in Seq(Values)
        /\ Len(Tail(Queued)) = n - 1
        /\ \A k \in 1 .. n - 1 : Tail(Queued)[k] = Queued[k + 1]
      BY <1>5, <1>6, HeadTailProperties
  <2> QED
      BY <1>9, <1>11, <2>1, SeqEqual
<1> QED
    BY <1>1, <1>3, <1>6, <1>12 DEF Fifo!Dequeue

LEMMA QueueInitRefines == QueueInit => Fifo!Init
<1> SUFFICES ASSUME QueueInit PROVE Fifo!Init
    OBVIOUS
<1>1. Queued = <<>>
    BY DEF QueueInit, Queued
<1>2. Phase = [t \in Threads |-> "idle"]
    BY DEF QueueInit, Phase, PhaseOf
<1> QED
    BY <1>1, <1>2 DEF QueueInit, Fifo!Init

\* What a thread does inside the queue is progress of its call, or invisible.
LEMMA QueueStepRefines ==
    ASSUME QueueInv, NEW t \in Threads, QueueStep(t) \/ DeqSpurious(t)
    PROVE  Fifo!Progress(t) \/ UNCHANGED Fifo!vars
<1>1. CASE EnqUnlock(t) \/ DeqUnlock(t)
    BY <1>1, UnlocksReturn DEF Fifo!Progress
<1>2. CASE EnqLinkFirst(t) \/ EnqLinkLast(t)
    BY <1>2, LinkEnqueues DEF Fifo!Progress
<1>3. CASE DeqTakeLast(t) \/ DeqTakeFirst(t)
    BY <1>3, TakeDequeues DEF Fifo!Progress
<1>4. CASE EnqNode(t)
    BY <1>4, EnqNodeStutters
<1>5. CASE EnqSignal(t)
    BY <1>5, EnqSignalStutters
<1>6. CASE EnqLock(t) \/ DeqLock(t) \/ DeqWait(t) \/ DeqSpurious(t) \/ DeqRelock(t)
           \/ DeqClear(t) \/ DeqAdvance(t)
    BY <1>6, StutterSteps
<1> QED
    BY <1>1, <1>2, <1>3, <1>4, <1>5, <1>6 DEF QueueStep, EnqueueStep, DequeueStep

LEMMA QueueStutterRefines == UNCHANGED queueVars => UNCHANGED Fifo!vars
    BY DEF queueVars, Fifo!vars, Queued, Phase

------------------------------------------------------------------------------
(* Nodes: none leaks. *)

\* A step that keeps the nodes and the list, and moves no thread out of enq_link.
LEMMA NoNodeMoves ==
    ASSUME NoNodeLeak, UNCHANGED <<alloc, order>>,
           \A s \in Threads : pc[s] = "enq_link" => pc'[s] = "enq_link" /\ loc'[s] = loc[s]
    PROVE  NoNodeLeak'
BY DEF NoNodeLeak

\* node_init makes a node that its thread still holds.
LEMMA EnqNodeKeepsNodes ==
    ASSUME QueueInv, NoNodeLeak, NEW t \in Threads, EnqNode(t)
    PROVE  NoNodeLeak'
<1>1. PICK a \in Addrs \ alloc : alloc' = alloc \cup {a} /\ loc' = [loc EXCEPT ![t] = a]
    BY DEF EnqNode
<1>2. pc[t] = "enq_node" /\ pc' = [pc EXCEPT ![t] = "enq_link"] /\ UNCHANGED order
    BY DEF EnqNode, Goto
<1>3. pc'[t] = "enq_link" /\ loc'[t] = a
    BY <1>1, <1>2 DEF QueueInv, QueueTypeOK
<1>4. \A s \in Threads : pc[s] = "enq_link" => pc'[s] = "enq_link" /\ loc'[s] = loc[s]
    BY <1>1, <1>2 DEF QueueInv, QueueTypeOK
<1> QED
    BY <1>1, <1>2, <1>3, <1>4 DEF NoNodeLeak

\* Linking a node puts it in the list.
LEMMA LinkKeepsNodes ==
    ASSUME QueueInv, NoNodeLeak, NEW t \in Threads, EnqLinkFirst(t) \/ EnqLinkLast(t)
    PROVE  NoNodeLeak'
<1>1. /\ pc[t] = "enq_link" /\ pc' = [pc EXCEPT ![t] = "enq_signal"]
      /\ order' = Append(order, loc[t]) /\ UNCHANGED <<alloc, loc>>
    BY DEF EnqLinkFirst, EnqLinkLast, Goto
<1>2. order \in Seq(Addrs) /\ Len(order) \in Nat /\ loc[t] \in Addrs
    BY <1>1, LenProperties DEF QueueInv, QueueTypeOK, LocalPointers
<1>3. /\ Len(order') = Len(order) + 1 /\ order'[Len(order) + 1] = loc[t]
      /\ \A k \in 1 .. Len(order) : order'[k] = order[k]
    BY <1>1, <1>2, AppendProperties
<1>4. \A a : (\E k \in 1 .. Len(order) : order[k] = a) => \E k \in 1 .. Len(order') : order'[k] = a
    BY <1>2, <1>3
<1>5. \E k \in 1 .. Len(order') : order'[k] = loc[t]
    BY <1>2, <1>3
<1>6. \A s \in Threads \ {t} : pc'[s] = pc[s]
    BY <1>1 DEF QueueInv, QueueTypeOK
<1> SUFFICES ASSUME NEW a \in alloc
    PROVE  \/ \E k \in 1 .. Len(order') : order'[k] = a
           \/ \E s \in Threads : pc'[s] = "enq_link" /\ loc'[s] = a
    BY <1>1 DEF NoNodeLeak
<1>7. CASE \E k \in 1 .. Len(order) : order[k] = a
    BY <1>4, <1>7
<1>8. CASE \E s \in Threads : pc[s] = "enq_link" /\ loc[s] = a
    BY <1>1, <1>5, <1>6, <1>8
<1> QED
    BY <1>7, <1>8 DEF NoNodeLeak

\* The node that a dequeue takes out is the one it frees.
LEMMA TakeKeepsNodes ==
    ASSUME QueueInv, NoNodeLeak, NEW t \in Threads, DeqTakeLast(t) \/ DeqTakeFirst(t)
    PROVE  NoNodeLeak'
<1>1. /\ pc[t] = "deq_test" /\ size # 0
      /\ alloc' = alloc \ {head} /\ order' = Tail(order)
    BY DEF DeqTakeLast, DeqTakeFirst
<1>2. order \in Seq(Addrs) /\ order # <<>> /\ Len(order) \in Nat /\ head = order[1]
    BY <1>1, AtTest
<1>3. /\ Len(order') = Len(order) - 1
      /\ \A k \in 1 .. Len(order) - 1 : order'[k] = order[k + 1]
    BY <1>1, <1>2, HeadTailProperties
<1>4. \A s \in Threads : pc[s] = "enq_link" => pc'[s] = "enq_link" /\ loc'[s] = loc[s]
  <2>1. \A s \in Threads \ {t} : pc[s] \notin Critical
      BY <1>1, AtTest
  <2> QED
      BY <1>1, <2>1 DEF Critical
<1> SUFFICES ASSUME NEW a \in alloc, a # head
    PROVE  \/ \E k \in 1 .. Len(order') : order'[k] = a
           \/ \E s \in Threads : pc'[s] = "enq_link" /\ loc'[s] = a
    BY <1>1 DEF NoNodeLeak
<1>5. ASSUME NEW k \in 1 .. Len(order), order[k] = a
      PROVE  \E m \in 1 .. Len(order') : order'[m] = a
  <2>1. k - 1 \in 1 .. Len(order')
      BY <1>2, <1>3, <1>5
  <2>2. order'[k - 1] = a
      BY <1>2, <1>3, <1>5, <2>1
  <2> QED
      BY <2>1, <2>2
<1> QED
    BY <1>4, <1>5 DEF NoNodeLeak

LEMMA StepKeepsNodes ==
    ASSUME QueueInv, NoNodeLeak, NEW t \in Threads, QueueStep(t)
    PROVE  NoNodeLeak'
<1>1. CASE EnqNode(t)
    BY <1>1, EnqNodeKeepsNodes
<1>2. CASE EnqLinkFirst(t) \/ EnqLinkLast(t)
    BY <1>2, LinkKeepsNodes
<1>3. CASE DeqTakeLast(t) \/ DeqTakeFirst(t)
    BY <1>3, TakeKeepsNodes
<1>4. CASE EnqLock(t) \/ DeqLock(t) \/ DeqWait(t) \/ DeqRelock(t) \/ DeqClear(t) \/ DeqAdvance(t)
  <2>1. /\ UNCHANGED <<alloc, order, loc>> /\ pc[t] # "enq_link"
        /\ \A s \in Threads \ {t} : pc'[s] = pc[s]
      BY <1>4 DEF EnqLock, DeqLock, DeqWait, DeqRelock, DeqClear, DeqAdvance, Goto,
                  QueueInv, QueueTypeOK
  <2> QED
      BY <2>1, NoNodeMoves
<1>5. CASE EnqUnlock(t) \/ DeqUnlock(t)
  <2>1. /\ UNCHANGED <<alloc, order>> /\ pc[t] # "enq_link"
        /\ \A s \in Threads \ {t} : pc'[s] = pc[s] /\ loc'[s] = loc[s]
      BY <1>5 DEF EnqUnlock, DeqUnlock, Goto, QueueInv, QueueTypeOK
  <2> QED
      BY <2>1, NoNodeMoves
<1>6. CASE EnqSignal(t)
  <2>1. UNCHANGED <<alloc, order, loc>>
      BY <1>6 DEF EnqSignal
  <2>2. \A s \in Threads : pc[s] = "enq_link" => pc'[s] = "enq_link"
      BY <1>6 DEF EnqSignal, Goto, Waiting, QueueInv, QueueTypeOK
  <2> QED
      BY <2>1, <2>2, NoNodeMoves
<1> QED
    BY <1>1, <1>2, <1>3, <1>4, <1>5, <1>6 DEF QueueStep, EnqueueStep, DequeueStep

LEMMA CallsKeepNodes ==
    ASSUME QueueInv, NoNodeLeak, NEW t \in Threads,
           (\E v \in Values : CallEnqueue(t, v)) \/ CallDequeue(t) \/ DeqSpurious(t)
    PROVE  NoNodeLeak'
<1>1. /\ UNCHANGED <<alloc, order, loc>> /\ pc[t] # "enq_link"
      /\ \A s \in Threads \ {t} : pc'[s] = pc[s]
    BY DEF CallEnqueue, CallDequeue, DeqSpurious, Goto, QueueInv, QueueTypeOK
<1> QED
    BY <1>1, NoNodeMoves

LEMMA StutterKeepsNodes == NoNodeLeak /\ UNCHANGED queueVars => NoNodeLeak'
    BY DEF NoNodeLeak, queueVars

------------------------------------------------------------------------------
(* The queue under arbitrary callers, for any number of threads, values,    *)
(* addresses and calls.                                                     *)

LEMMA ClientsNextInv == QueueInv /\ [ClientsNext]_clientsVars => QueueInv'
<1> SUFFICES ASSUME QueueInv, [ClientsNext]_clientsVars PROVE QueueInv'
    OBVIOUS
<1>1. ASSUME NEW t \in Threads, NEW v \in Values, ClientEnqueue(t, v)
      PROVE  QueueInv'
    BY <1>1, CallEnqueueInv DEF ClientEnqueue
<1>2. ASSUME NEW t \in Threads, ClientDequeue(t)
      PROVE  QueueInv'
    BY <1>2, CallDequeueInv DEF ClientDequeue
<1>3. ASSUME NEW t \in Threads, ClientStep(t)
      PROVE  QueueInv'
    BY <1>3, QueueStepInv DEF ClientStep
<1>4. ASSUME NEW t \in Threads, ClientSpurious(t)
      PROVE  QueueInv'
    BY <1>4, DeqSpuriousInv DEF ClientSpurious
<1>5. CASE UNCHANGED clientsVars
    BY <1>5, QueueStutterInv DEF clientsVars
<1> QED
    BY <1>1, <1>2, <1>3, <1>4, <1>5 DEF ClientsNext

(* The invariant of queue.c holds in every reachable state.                 *)
THEOREM QueueInvariant == ClientsSpec => []QueueInv
<1>1. ClientsInit => QueueInv
    BY InitInv DEF ClientsInit
<1> QED
    BY <1>1, ClientsNextInv, PTL DEF ClientsSpec

(* The struct, the nodes and the locals of queue.c keep their types.        *)
THEOREM TypeCorrect == ClientsSpec => []QueueTypeOK
<1>1. QueueInv => QueueTypeOK
    BY DEF QueueInv
<1> QED
    BY <1>1, QueueInvariant, PTL

(* The linked list, head, tail and size of queue.c always describe the      *)
(* values enqueued and not yet dequeued.                                    *)
THEOREM ListCorrect == ClientsSpec => []ListShape
<1>1. QueueInv => ListShape
    BY DEF QueueInv
<1> QED
    BY <1>1, QueueInvariant, PTL

(* queue->lock is held exactly in the critical sections of queue.c.         *)
THEOREM LockCorrect == ClientsSpec => []LockDiscipline
<1>1. QueueInv => LockDiscipline
    BY DEF QueueInv
<1> QED
    BY <1>1, QueueInvariant, PTL

(* queue.c never dereferences or frees a pointer that is NULL or freed.     *)
THEOREM DereferencesCorrect == ClientsSpec => []SafeDereference
    BY InvImpliesSafeDereference, QueueInvariant, PTL

------------------------------------------------------------------------------
(* Refinement of FifoQueue. *)

LEMMA NextRefines == QueueInv /\ [ClientsNext]_clientsVars => [Fifo!Next]_(Fifo!vars)
<1> SUFFICES ASSUME QueueInv, [ClientsNext]_clientsVars PROVE [Fifo!Next]_(Fifo!vars)
    OBVIOUS
<1>1. ASSUME NEW t \in Threads, NEW v \in Values, ClientEnqueue(t, v)
      PROVE  Fifo!Next
    BY <1>1, CallsRefine DEF ClientEnqueue, Fifo!Next
<1>2. ASSUME NEW t \in Threads, ClientDequeue(t)
      PROVE  Fifo!Next
    BY <1>2, CallsRefine DEF ClientDequeue, Fifo!Next
<1>3. ASSUME NEW t \in Threads, ClientStep(t) \/ ClientSpurious(t)
      PROVE  Fifo!Next \/ UNCHANGED Fifo!vars
    BY <1>3, QueueStepRefines DEF ClientStep, ClientSpurious, Fifo!Next
<1>4. CASE UNCHANGED clientsVars
    BY <1>4, QueueStutterRefines DEF clientsVars
<1> QED
    BY <1>1, <1>2, <1>3, <1>4 DEF ClientsNext

(* queue.c is linearizable: with any number of threads, under any           *)
(* interleaving, it behaves as the FIFO queue that queue.h promises.        *)
THEOREM Linearizable == ClientsSpec => ImplementsFifo
<1>1. ClientsInit => Fifo!Init
    BY QueueInitRefines DEF ClientsInit
<1> QED
    BY <1>1, NextRefines, QueueInvariant, PTL DEF ClientsSpec, ImplementsFifo, Fifo!Spec

------------------------------------------------------------------------------
(* Nodes *)

LEMMA ClientsKeepNodes == QueueInv /\ NoNodeLeak /\ [ClientsNext]_clientsVars => NoNodeLeak'
    BY CallsKeepNodes, StepKeepsNodes, StutterKeepsNodes
    DEF ClientsNext, ClientEnqueue, ClientDequeue, ClientStep, ClientSpurious, clientsVars

(* Every node that queue.c allocates is in the list, or about to be put     *)
(* there by its thread, until it is freed.                                  *)
THEOREM NoLeaks == ClientsSpec => []NoNodeLeak
<1>1. ClientsInit => NoNodeLeak
    BY DEF ClientsInit, QueueInit, NoNodeLeak
<1>2. NoNodeLeak /\ QueueInv /\ [ClientsNext]_clientsVars => NoNodeLeak'
    BY ClientsKeepNodes
<1> QED
    BY <1>1, <1>2, QueueInvariant, PTL DEF ClientsSpec

------------------------------------------------------------------------------
(* Wakeups.  There may be any number of threads, so that those who come for *)
(* a value are finitely many is part of the invariant.                      *)

WakeInv == IsFiniteSet(Coming) /\ NoLostWakeup

ComingPCs == {"deq_lock", "deq_relock", "deq_test", "enq_signal"}

\* A thread that moves, alone, joins or leaves those who come, or who wait.
LEMMA OneMoves ==
    ASSUME QueueTypeOK, NEW t \in Threads, NEW l, Goto(t, l)
    PROVE  /\ Coming' = IF l \in ComingPCs THEN Coming \cup {t} ELSE Coming \ {t}
           /\ Waiting' = IF l = "deq_wait" THEN Waiting \cup {t} ELSE Waiting \ {t}
<1>1. \A s \in Threads : pc'[s] = IF s = t THEN l ELSE pc[s]
    BY DEF QueueTypeOK, Goto
<1> QED
    BY <1>1 DEF Coming, ComingPCs, Waiting

\* While the list is as it was, and whoever was coming still is.
LEMMA ComingStays ==
    ASSUME QueueInv, WakeInv, UNCHANGED order, NEW t \in Threads, NEW l, Goto(t, l),
           l # "deq_wait", pc[t] \in ComingPCs => l \in ComingPCs
    PROVE  WakeInv'
<1>1. /\ Coming' = IF l \in ComingPCs THEN Coming \cup {t} ELSE Coming \ {t}
      /\ Waiting' = Waiting \ {t}
    BY OneMoves DEF QueueInv
<1>2. l \notin ComingPCs => t \notin Coming
    BY DEF Coming, ComingPCs
<1>3. Coming' = Coming \/ Coming' = Coming \cup {t}
    BY <1>1, <1>2
<1>4. /\ IsFiniteSet(Coming') /\ Cardinality(Coming) \in Nat /\ Cardinality(Coming') \in Nat
      /\ Cardinality(Coming') >= Cardinality(Coming)
  <2>1. IsFiniteSet(Coming) /\ Cardinality(Coming) \in Nat
      BY FS_CardinalityType DEF WakeInv
  <2>2. CASE Coming' = Coming
      BY <2>1, <2>2
  <2>3. CASE Coming' = Coming \cup {t}
    <3>1. /\ IsFiniteSet(Coming')
          /\ Cardinality(Coming') = IF t \in Coming THEN Cardinality(Coming) ELSE Cardinality(Coming) + 1
        BY <2>1, <2>3, FS_AddElement
    <3> QED
        BY <2>1, <3>1
  <2> QED
      BY <1>3, <2>2, <2>3
<1>5. Len(order) \in Nat
    BY LenProperties DEF QueueInv, QueueTypeOK
<1> QED
    BY <1>1, <1>4, <1>5 DEF WakeInv, NoLostWakeup

\* A value is linked by a thread that has still to signal.
LEMMA LinkKeepsWakeups ==
    ASSUME QueueInv, WakeInv, NEW t \in Threads, EnqLinkFirst(t) \/ EnqLinkLast(t)
    PROVE  WakeInv'
<1>1. pc[t] = "enq_link" /\ Goto(t, "enq_signal") /\ order' = Append(order, loc[t])
    BY DEF EnqLinkFirst, EnqLinkLast
<1>2. Coming' = Coming \cup {t} /\ Waiting' = Waiting \ {t} /\ t \notin Coming
    BY <1>1, OneMoves DEF ComingPCs, Coming, QueueInv
<1>3. IsFiniteSet(Coming') /\ Cardinality(Coming') = Cardinality(Coming) + 1
    BY <1>2, FS_AddElement DEF WakeInv
<1>4. order \in Seq(Addrs) /\ loc[t] \in Addrs
    BY <1>1 DEF QueueInv, QueueTypeOK, LocalPointers
<1>5. Len(order') = Len(order) + 1 /\ Len(order) \in Nat
    BY <1>1, <1>4, LenProperties, AppendProperties
<1>6. Cardinality(Coming) \in Nat
    BY FS_CardinalityType DEF WakeInv
<1> QED
    BY <1>2, <1>3, <1>5, <1>6 DEF WakeInv, NoLostWakeup

\* Who takes a value was coming for it.
LEMMA TakeKeepsWakeups ==
    ASSUME QueueInv, WakeInv, NEW t \in Threads, DeqTakeLast(t) \/ DeqTakeFirst(t)
    PROVE  WakeInv'
<1>1. pc[t] = "deq_test" /\ size # 0 /\ order' = Tail(order)
    BY DEF DeqTakeLast, DeqTakeFirst
<1>2. PICK l \in {"deq_clear", "deq_advance"} : Goto(t, l)
    BY DEF DeqTakeLast, DeqTakeFirst
<1>3. Coming' = Coming \ {t} /\ Waiting' = Waiting \ {t} /\ t \in Coming
    BY <1>1, <1>2, OneMoves DEF ComingPCs, Coming, QueueInv
<1>4. IsFiniteSet(Coming') /\ Cardinality(Coming') = Cardinality(Coming) - 1
    BY <1>3, FS_RemoveElement DEF WakeInv
<1>5. order \in Seq(Addrs) /\ order # <<>> /\ Len(order) \in Nat
    BY <1>1, AtTest
<1>6. Len(order') = Len(order) - 1
    BY <1>1, <1>5, HeadTailProperties
<1>7. Cardinality(Coming) \in Nat
    BY FS_CardinalityType DEF WakeInv
<1> QED
    BY <1>3, <1>4, <1>5, <1>6, <1>7 DEF WakeInv, NoLostWakeup

\* The signal sends a waiter in place of the thread that has signalled.
LEMMA SignalKeepsWakeups ==
    ASSUME QueueInv, WakeInv, NEW t \in Threads, EnqSignal(t)
    PROVE  WakeInv'
<1>1. pc[t] = "enq_signal" /\ t \in Coming /\ UNCHANGED order
    BY DEF EnqSignal, Coming
<1>2. CASE Waiting = {} /\ Goto(t, "enq_unlock")
  <2>1. Coming' = Coming \ {t} /\ Waiting' = {}
      BY <1>2, OneMoves DEF ComingPCs, QueueInv
  <2> QED
      BY <2>1, FS_RemoveElement DEF WakeInv, NoLostWakeup
<1>3. ASSUME NEW w \in Waiting, pc' = [pc EXCEPT ![t] = "enq_unlock", ![w] = "deq_relock"]
      PROVE  WakeInv'
  <2>1. w \in Threads /\ pc[w] = "deq_wait" /\ w # t /\ w \notin Coming
      BY <1>1 DEF Waiting, Coming
  <2>2. \A s \in Threads : pc'[s] = IF s = w THEN "deq_relock" ELSE IF s = t THEN "enq_unlock" ELSE pc[s]
      BY <1>3, <2>1 DEF QueueInv, QueueTypeOK
  <2>3. Coming' = (Coming \ {t}) \cup {w} /\ Waiting' \subseteq Waiting
      BY <2>1, <2>2 DEF Coming, Waiting
  <2>4. IsFiniteSet(Coming \ {t}) /\ Cardinality(Coming \ {t}) = Cardinality(Coming) - 1
      BY <1>1, FS_RemoveElement DEF WakeInv
  <2>5. IsFiniteSet(Coming') /\ Cardinality(Coming') = Cardinality(Coming) - 1 + 1
      BY <2>1, <2>3, <2>4, FS_AddElement
  <2>6. Cardinality(Coming) \in Nat
      BY FS_CardinalityType DEF WakeInv
  <2>7. Cardinality(Coming') = Cardinality(Coming)
      BY <2>5, <2>6
  <2> QED
      BY <1>1, <2>3, <2>5, <2>7 DEF WakeInv, NoLostWakeup
<1> QED
    BY <1>2, <1>3 DEF EnqSignal

\* Nobody waits while there is a value to take.
LEMMA WaitKeepsWakeups ==
    ASSUME QueueInv, WakeInv, NEW t \in Threads, DeqWait(t)
    PROVE  WakeInv'
<1>1. pc[t] = "deq_test" /\ size = 0 /\ Goto(t, "deq_wait") /\ UNCHANGED order
    BY DEF DeqWait
<1>2. ~Between("deq_clear") /\ ~Between("deq_advance")
    BY <1>1, OneInside DEF Between, Critical
<1>3. Len(order) = 0
    BY <1>1, <1>2 DEF QueueInv, ListShape, HeadTailSize
<1>4. Coming' = Coming \ {t}
    BY <1>1, OneMoves DEF ComingPCs, QueueInv
<1>5. IsFiniteSet(Coming') /\ Cardinality(Coming') \in Nat
    BY <1>4, FS_RemoveElement, FS_CardinalityType DEF WakeInv
<1> QED
    BY <1>1, <1>3, <1>5 DEF WakeInv, NoLostWakeup

LEMMA StepKeepsWakeups ==
    ASSUME QueueInv, WakeInv, NEW t \in Threads, QueueStep(t)
    PROVE  WakeInv'
<1>1. CASE EnqLinkFirst(t) \/ EnqLinkLast(t)
    BY <1>1, LinkKeepsWakeups
<1>2. CASE DeqTakeLast(t) \/ DeqTakeFirst(t)
    BY <1>2, TakeKeepsWakeups
<1>3. CASE EnqSignal(t)
    BY <1>3, SignalKeepsWakeups
<1>4. CASE DeqWait(t)
    BY <1>4, WaitKeepsWakeups
<1>5. CASE \/ EnqLock(t) \/ EnqNode(t) \/ EnqUnlock(t) \/ DeqLock(t) \/ DeqRelock(t)
           \/ DeqClear(t) \/ DeqAdvance(t) \/ DeqUnlock(t)
  <2>1. PICK l : /\ Goto(t, l) /\ l # "deq_wait"
                 /\ pc[t] \in ComingPCs => l \in ComingPCs
      BY <1>5 DEF EnqLock, EnqNode, EnqUnlock, DeqLock, DeqRelock, DeqClear, DeqAdvance,
                  DeqUnlock, ComingPCs
  <2>2. UNCHANGED order
      BY <1>5 DEF EnqLock, EnqNode, EnqUnlock, DeqLock, DeqRelock, DeqClear, DeqAdvance, DeqUnlock
  <2> QED
      BY <2>1, <2>2, ComingStays
<1> QED
    BY <1>1, <1>2, <1>3, <1>4, <1>5 DEF QueueStep, EnqueueStep, DequeueStep

LEMMA ClientsKeepWakeups == QueueInv /\ WakeInv /\ [ClientsNext]_clientsVars => WakeInv'
<1> SUFFICES ASSUME QueueInv, WakeInv, [ClientsNext]_clientsVars PROVE WakeInv'
    OBVIOUS
<1>1. ASSUME NEW t \in Threads,
             (\E v \in Values : CallEnqueue(t, v)) \/ CallDequeue(t) \/ DeqSpurious(t)
      PROVE  WakeInv'
  <2>1. PICK l : /\ Goto(t, l) /\ l # "deq_wait"
                 /\ pc[t] \in ComingPCs => l \in ComingPCs
      BY <1>1 DEF CallEnqueue, CallDequeue, DeqSpurious, ComingPCs
  <2>2. UNCHANGED order
      BY <1>1 DEF CallEnqueue, CallDequeue, DeqSpurious
  <2> QED
      BY <2>1, <2>2, ComingStays
<1>2. ASSUME NEW t \in Threads, ClientStep(t) PROVE WakeInv'
    BY <1>2, StepKeepsWakeups DEF ClientStep
<1>3. CASE UNCHANGED clientsVars
    BY <1>3 DEF clientsVars, queueVars, WakeInv, NoLostWakeup, Coming, Waiting
<1> QED
    BY <1>1, <1>2, <1>3 DEF ClientsNext, ClientEnqueue, ClientDequeue, ClientSpurious

(* One pthread_cond_signal per value is enough, for any number of threads:  *)
(* while a thread sleeps in queue_dequeue, every value in the queue has a   *)
(* thread coming for it, or its enqueue has not signalled yet.              *)
THEOREM WakeupsSuffice == ClientsSpec => []NoLostWakeup
<1>1. ClientsInit => WakeInv
  <2> SUFFICES ASSUME ClientsInit PROVE WakeInv
      OBVIOUS
  <2>1. Coming = {} /\ Waiting = {}
      BY DEF ClientsInit, QueueInit, Coming, Waiting
  <2> QED
      BY <2>1, FS_EmptySet DEF WakeInv, NoLostWakeup
<1>2. WakeInv /\ QueueInv /\ [ClientsNext]_clientsVars => WakeInv'
    BY ClientsKeepWakeups
<1>3. WakeInv => NoLostWakeup
    BY DEF WakeInv
<1> QED
    BY <1>1, <1>2, <1>3, QueueInvariant, PTL DEF ClientsSpec
================================================================================
