-------------------------- MODULE ExplicitHeapProofs --------------------------
(****************************************************************************)
(* The invariants of the explicit-list allocator, and that it implements    *)
(* its contract, for every heap and every client that asks for one byte or  *)
(* more each time (a request for none breaks it: see ExplicitZero.cfg).     *)
(*                                                                          *)
(* The blocks and the free list are defined in ExplicitHeap by walking the  *)
(* words of the heap.  The proofs carry them along instead: B is the set of *)
(* block addresses and F, of n places, the free list; Tiled says that the   *)
(* words describe B, Listed that they describe F.  Each of the allocator's  *)
(* functions is followed from one such description to the next, and at the  *)
(* end the walks are shown to find just B and F.                            *)
(****************************************************************************)
EXTENDS ExplicitHeap, FiniteSetTheorems, WellFoundedInduction, TLAPS

Words == 0 .. MaxHeap - 1

\* A heap that the functions of the model may take.
IsHeap(h) ==
    /\ h = [mem |-> h.mem, brk |-> h.brk, first |-> h.first, last |-> h.last, free |-> h.free]
    /\ h.mem = [w \in Words |-> h.mem[w]]

UsedIn(h, B) == {a \in B : Used(h, a)}
FreeIn(h, B) == {a \in B : ~Used(h, a)}

\* The block at a has a header and the same footer, around two words at least.
TaggedAt(h, a) ==
    /\ h.mem[a] = Tag(Size(h, a), Used(h, a))
    /\ Size(h, a) \in Nat /\ Size(h, a) >= 4 /\ Size(h, a) % 2 = 0
    /\ Used(h, a) \in BOOLEAN
    /\ h.mem[a + Size(h, a) - 1] = h.mem[a]

\* The blocks of B tile the heap, and mm_heap_last is the last of them.
Tiled(h, B) ==
    /\ IsHeap(h)
    /\ h.brk \in Nat /\ h.brk % 2 = 1 /\ h.brk + 1 <= MaxHeap
    /\ B \subseteq Nat \ {0}
    /\ h.first = IF B = {} THEN Null ELSE 1
    /\ B = {} => h.brk = 1 /\ h.last = Null
    /\ B # {} => 1 \in B /\ h.last \in B
    /\ \A a \in B :
          /\ a % 2 = 1
          /\ TaggedAt(h, a)
          /\ a + Size(h, a) = h.brk \/ a + Size(h, a) \in B
          /\ a + Size(h, a) <= h.brk
          /\ a <= h.last
          /\ \A b \in B : b > a => b >= a + Size(h, a)

Nodes(F, n) == {F[k] : k \in 1 .. n}

\* The free list is F[1], ..., F[n]; what the first node's left link holds is open.
Listed(h, F, n) ==
    /\ n \in Nat
    /\ \A k \in 1 .. n : F[k] \in Nat /\ F[k] % 2 = 1 /\ F[k] + 2 < MaxHeap
    /\ \A j, k \in 1 .. n : F[j] = F[k] => j = k
    /\ h.free = IF n = 0 THEN Null ELSE F[1]
    /\ \A k \in 1 .. n : Right(h, F[k]) = IF k = n THEN Null ELSE F[k + 1]
    /\ \A k \in 2 .. n : Left(h, F[k]) = F[k - 1]

------------------------------------------------------------------------------
(* Arithmetic *)

LEMMA LeastNat ==
    ASSUME NEW S \in SUBSET Nat, S # {}
    PROVE  \E a \in S : \A b \in S : a <= b
<1>1. IsWellFoundedOn(OpToRel(<, Nat), Nat)
    BY NatLessThanWellFounded
<1>2. PICK a \in S : \A b \in S : ~ (<<b, a>> \in OpToRel(<, Nat))
    BY <1>1, WFMin
<1>3. \A b \in S : ~ (b < a)
    BY <1>2 DEF OpToRel
<1> QED
    BY <1>3

LEMMA LeastIs ==
    ASSUME NEW S \in SUBSET Nat, S # {}
    PROVE  Least(S) \in S /\ \A b \in S : Least(S) <= b
<1>1. \E a \in S : \A b \in S : a <= b
    BY LeastNat
<1> QED
    BY <1>1 DEF Least

\* The last element of S that is not beyond x.
LEMMA GreatestBelow ==
    ASSUME NEW S \in SUBSET Nat, NEW x \in Nat, NEW y \in S, y <= x
    PROVE  \E a \in S : a <= x /\ \A b \in S : b <= x => b <= a
<1> DEFINE D == {x - b : b \in {c \in S : c <= x}}
<1>1. D \subseteq Nat /\ D # {}
    OBVIOUS
<1> HIDE DEF D
<1>2. PICK k \in D : \A i \in D : k <= i
    BY <1>1, LeastNat
<1>3. PICK a \in S : a <= x /\ k = x - a
    BY DEF D
<1>4. ASSUME NEW b \in S, b <= x
      PROVE  b <= a
    <2>1. x - b \in D
        BY <1>4 DEF D
    <2>2. x - a <= x - b
        BY <1>2, <1>3, <2>1
    <2> QED
        BY <2>2
<1> QED
    BY <1>3, <1>4

LEMMA BlockSizes ==
    ASSUME NEW n \in Nat, n >= 1
    PROVE  /\ BlockSize(n) \in Nat /\ BlockSize(n) % 2 = 0
           /\ BlockSize(n) >= 4
           /\ 2 + n <= BlockSize(n) /\ BlockSize(n) <= n + 3
    BY DEF BlockSize, RoundUp

LEMMA MinBlockIs == MinBlock = 4
    BY DEF MinBlock, RoundUp

LEMMA EvenLess ==
    ASSUME NEW a \in Nat, NEW b \in Nat, a % 2 = 0, b % 2 = 0, a < b
    PROVE  a + 2 <= b
    OBVIOUS

------------------------------------------------------------------------------
(* Writing words: g is h but for its words and one of its pointers *)

SameFrame(h, g) ==
    /\ IsHeap(g) /\ g.brk = h.brk /\ g.first = h.first

LEMMA TagIs ==
    ASSUME NEW n, NEW u
    PROVE  Tag(n, u)[1] = "tag" /\ Tag(n, u)[2] = n /\ Tag(n, u)[3] = u
    BY DEF Tag

LEMMA SetHeaderIs ==
    ASSUME NEW h, IsHeap(h), NEW a \in Words, NEW n, a + n - 1 \in Words, NEW u
    PROVE  LET g == SetHeader(h, a, n, u) IN
           /\ SameFrame(h, g) /\ g.last = h.last /\ g.free = h.free
           /\ \A w \in Words : g.mem[w] = IF w = a \/ w = a + n - 1 THEN Tag(n, u) ELSE h.mem[w]
<1> DEFINE z == a + n - 1
           t == Tag(n, u)
           r == [h EXCEPT !.mem[a] = t]
           g == [r EXCEPT !.mem[z] = t]
<1>1. SetHeader(h, a, n, u) = g
    BY DEF SetHeader
<1> HIDE DEF t, z
<1>2. r = [mem |-> [h.mem EXCEPT ![a] = t], brk |-> h.brk, first |-> h.first,
           last |-> h.last, free |-> h.free]
    BY DEF IsHeap
<1> HIDE DEF r
<1>3. r.mem = [h.mem EXCEPT ![a] = t] 
    BY <1>2
<1>4. g = [mem |-> [r.mem EXCEPT ![z] = t], brk |-> h.brk, first |-> h.first,
           last |-> h.last, free |-> h.free]
    BY <1>2
<1> HIDE DEF g
<1>5. /\ g.mem = [[h.mem EXCEPT ![a] = t] EXCEPT ![z] = t]
      /\ g.brk = h.brk /\ g.first = h.first /\ g.last = h.last /\ g.free = h.free
    BY <1>3, <1>4
<1>6. z \in Words
    BY DEF z
<1>7. /\ g.mem = [w \in Words |-> g.mem[w]]
      /\ \A w \in Words : g.mem[w] = IF w = a \/ w = z THEN t ELSE h.mem[w]
    BY <1>5, <1>6 DEF IsHeap
<1>8. SameFrame(h, g)
    BY <1>4, <1>5, <1>7 DEF SameFrame, IsHeap
<1> QED
    BY <1>1, <1>5, <1>7, <1>8 DEF t, z

LEMMA SetLeftIs ==
    ASSUME NEW h, IsHeap(h), NEW a, a + 1 \in Words, NEW b
    PROVE  LET g == SetLeft(h, a, b) IN
           /\ SameFrame(h, g) /\ g.last = h.last /\ g.free = h.free
           /\ \A w \in Words : g.mem[w] = IF w = a + 1 THEN Link(b) ELSE h.mem[w]
<1> DEFINE z == a + 1
           t == Link(b)
           g == [h EXCEPT !.mem[z] = t]
<1>1. SetLeft(h, a, b) = g
    BY DEF SetLeft
<1> HIDE DEF t, z
<1>2. g = [mem |-> [h.mem EXCEPT ![z] = t], brk |-> h.brk, first |-> h.first,
           last |-> h.last, free |-> h.free]
    BY DEF IsHeap
<1> HIDE DEF g
<1>3. /\ g.mem = [h.mem EXCEPT ![z] = t]
      /\ g.brk = h.brk /\ g.first = h.first /\ g.last = h.last /\ g.free = h.free
    BY <1>2
<1>4. z \in Words
    BY DEF z
<1>5. /\ g.mem = [w \in Words |-> g.mem[w]]
      /\ \A w \in Words : g.mem[w] = IF w = z THEN t ELSE h.mem[w]
    BY <1>3, <1>4 DEF IsHeap
<1>6. SameFrame(h, g)
    BY <1>2, <1>3, <1>5 DEF SameFrame, IsHeap
<1> QED
    BY <1>1, <1>3, <1>5, <1>6 DEF t, z

LEMMA SetRightIs ==
    ASSUME NEW h, IsHeap(h), NEW a, a + 2 \in Words, NEW b
    PROVE  LET g == SetRight(h, a, b) IN
           /\ SameFrame(h, g) /\ g.last = h.last /\ g.free = h.free
           /\ \A w \in Words : g.mem[w] = IF w = a + 2 THEN Link(b) ELSE h.mem[w]
<1> DEFINE z == a + 2
           t == Link(b)
           g == [h EXCEPT !.mem[z] = t]
<1>1. SetRight(h, a, b) = g
    BY DEF SetRight
<1> HIDE DEF t, z
<1>2. g = [mem |-> [h.mem EXCEPT ![z] = t], brk |-> h.brk, first |-> h.first,
           last |-> h.last, free |-> h.free]
    BY DEF IsHeap
<1> HIDE DEF g
<1>3. /\ g.mem = [h.mem EXCEPT ![z] = t]
      /\ g.brk = h.brk /\ g.first = h.first /\ g.last = h.last /\ g.free = h.free
    BY <1>2
<1>4. z \in Words
    BY DEF z
<1>5. /\ g.mem = [w \in Words |-> g.mem[w]]
      /\ \A w \in Words : g.mem[w] = IF w = z THEN t ELSE h.mem[w]
    BY <1>3, <1>4 DEF IsHeap
<1>6. SameFrame(h, g)
    BY <1>2, <1>3, <1>5 DEF SameFrame, IsHeap
<1> QED
    BY <1>1, <1>3, <1>5, <1>6 DEF t, z

LEMMA SetFreeIs ==
    ASSUME NEW h, IsHeap(h), NEW x
    PROVE  LET g == [h EXCEPT !.free = x] IN
           SameFrame(h, g) /\ g.last = h.last /\ g.free = x /\ g.mem = h.mem
<1> DEFINE g == [h EXCEPT !.free = x]
<1>1. g = [mem |-> h.mem, brk |-> h.brk, first |-> h.first, last |-> h.last, free |-> x]
    BY DEF IsHeap
<1> HIDE DEF g
<1>2. /\ g.brk = h.brk /\ g.first = h.first /\ g.last = h.last
      /\ g.free = x /\ g.mem = h.mem
    BY <1>1
<1>3. SameFrame(h, g)
    BY <1>1, <1>2 DEF SameFrame, IsHeap
<1> QED
    BY <1>2, <1>3 DEF g

LEMMA SetLastIs ==
    ASSUME NEW h, IsHeap(h), NEW x
    PROVE  LET g == [h EXCEPT !.last = x] IN
           SameFrame(h, g) /\ g.last = x /\ g.free = h.free /\ g.mem = h.mem
<1> DEFINE g == [h EXCEPT !.last = x]
<1>1. g = [mem |-> h.mem, brk |-> h.brk, first |-> h.first, last |-> x, free |-> h.free]
    BY DEF IsHeap
<1> HIDE DEF g
<1>2. /\ g.brk = h.brk /\ g.first = h.first /\ g.last = x
      /\ g.free = h.free /\ g.mem = h.mem
    BY <1>1
<1>3. SameFrame(h, g)
    BY <1>1, <1>2 DEF SameFrame, IsHeap
<1> QED
    BY <1>2, <1>3 DEF g

LEMMA WriteIs ==
    ASSUME NEW h, IsHeap(h), NEW S, NEW d
    PROVE  LET g == Write(h, S, d) IN
           /\ SameFrame(h, g) /\ g.last = h.last /\ g.free = h.free
           /\ \A w \in Words : g.mem[w] = IF w \in S THEN Content(d) ELSE h.mem[w]
<1> DEFINE m == [w \in DOMAIN h.mem |-> IF w \in S THEN Content(d) ELSE h.mem[w]]
           g == [h EXCEPT !.mem = m]
<1>1. Write(h, S, d) = g
    BY DEF Write
<1>2. DOMAIN h.mem = Words
    BY DEF IsHeap
<1>3. m = [w \in Words |-> m[w]] /\ \A w \in Words : m[w] = IF w \in S THEN Content(d) ELSE h.mem[w]
    BY <1>2
<1> HIDE DEF m
<1>4. g = [mem |-> m, brk |-> h.brk, first |-> h.first, last |-> h.last, free |-> h.free]
    BY DEF IsHeap
<1> HIDE DEF g
<1>5. /\ g.brk = h.brk /\ g.first = h.first /\ g.last = h.last
      /\ g.free = h.free /\ g.mem = m
    BY <1>4
<1>6. SameFrame(h, g)
    BY <1>3, <1>4, <1>5 DEF SameFrame, IsHeap
<1> QED
    BY <1>1, <1>3, <1>5, <1>6

LEMMA ForgetIs ==
    ASSUME NEW h, IsHeap(h), NEW S
    PROVE  LET g == Forget(h, S) IN
           /\ SameFrame(h, g) /\ g.last = h.last /\ g.free = h.free
           /\ \A w \in Words : w \notin S => g.mem[w] = h.mem[w]
    BY WriteIs DEF Forget

------------------------------------------------------------------------------
(* What a tiled heap looks like *)

LEMMA Bounds ==
    ASSUME NEW h, NEW B, Tiled(h, B), NEW a \in B
    PROVE  /\ a \in Nat /\ a >= 1 /\ a % 2 = 1
           /\ Size(h, a) \in Nat /\ Size(h, a) >= 4 /\ Size(h, a) % 2 = 0
           /\ h.brk \in Nat /\ a + Size(h, a) <= h.brk /\ h.brk < MaxHeap /\ MaxHeap \in Nat
           /\ Used(h, a) \in BOOLEAN
           /\ a + Size(h, a) \in Nat /\ a + Size(h, a) - 1 \in Words
<1>1. MaxHeap \in Nat
    BY HeapAssumption
<1>2. /\ a \in Nat /\ a >= 1 /\ a % 2 = 1
      /\ Size(h, a) \in Nat /\ Size(h, a) >= 4 /\ Size(h, a) % 2 = 0
      /\ h.brk \in Nat /\ a + Size(h, a) <= h.brk /\ h.brk + 1 <= MaxHeap
      /\ Used(h, a) \in BOOLEAN
    <2>1. TaggedAt(h, a)
        BY DEF Tiled
    <2>2. a \in Nat /\ a >= 1 /\ a % 2 = 1
        BY DEF Tiled
    <2>3. h.brk \in Nat /\ a + Size(h, a) <= h.brk /\ h.brk + 1 <= MaxHeap
        BY DEF Tiled
    <2> QED
        BY <2>1, <2>2, <2>3 DEF TaggedAt
<1> QED
    BY <1>1, <1>2 DEF Words

LEMMA InWords ==
    ASSUME NEW h, NEW B, Tiled(h, B), NEW a \in B, NEW w \in Int, a <= w, w < a + Size(h, a)
    PROVE  w \in Words /\ w \in Nat /\ w < h.brk
    BY Bounds DEF Words

LEMMA Apart ==
    ASSUME NEW h, NEW B, Tiled(h, B), NEW a \in B, NEW b \in B, a # b
    PROVE  a + Size(h, a) <= b \/ b + Size(h, b) <= a
    BY Bounds DEF Tiled

\* Every word between the padding and the break belongs to a block.
LEMMA Covered ==
    ASSUME NEW h, NEW B, Tiled(h, B), NEW w \in Nat, 1 <= w, w < h.brk
    PROVE  \E a \in B : a <= w /\ w < a + Size(h, a)
<1>1. 1 \in B /\ B \in SUBSET Nat
    BY DEF Tiled
<1>2. PICK a \in B : a <= w /\ \A b \in B : b <= w => b <= a
    BY <1>1, GreatestBelow
<1>3. a + Size(h, a) = h.brk \/ a + Size(h, a) \in B
    BY DEF Tiled
<1>4. w < a + Size(h, a)
    BY <1>2, <1>3, Bounds
<1> QED
    BY <1>2, <1>4

LEMMA InitTiled == Tiled(InitHeap, {}) /\ InitHeap.free = Null
<1>1. IsHeap(InitHeap)
    BY DEF IsHeap, InitHeap, Words
<1> QED
    BY <1>1, HeapAssumption DEF Tiled, InitHeap, Null

(* Writes that spare the headers and footers of B leave it as it is.        *)
LEMMA TiledStays ==
    ASSUME NEW h, NEW B, Tiled(h, B), NEW g, SameFrame(h, g), g.last = h.last,
           \A a \in B : /\ g.mem[a] = h.mem[a]
                        /\ g.mem[a + Size(h, a) - 1] = h.mem[a + Size(h, a) - 1]
    PROVE  /\ Tiled(g, B)
           /\ \A a \in B : Size(g, a) = Size(h, a) /\ Used(g, a) = Used(h, a)
<1>1. \A a \in B : Size(g, a) = Size(h, a) /\ Used(g, a) = Used(h, a)
    BY DEF Size, Used
<1>2. \A a \in B : TaggedAt(g, a)
    BY <1>1 DEF TaggedAt, Tiled
<1>3. Tiled(g, B)
    BY <1>1, <1>2 DEF Tiled, SameFrame
<1> QED
    BY <1>1, <1>3

------------------------------------------------------------------------------
(* The free list *)

Push(F, n, a) == [k \in 1 .. n + 1 |-> IF k = 1 THEN a ELSE F[k - 1]]
Drop(F, n, i) == [k \in 1 .. n - 1 |-> IF k < i THEN F[k] ELSE F[k + 1]]

\* g differs from h in the free list's head and in links of the blocks of S only.
Relinks(h, g, S) ==
    /\ SameFrame(h, g) /\ g.last = h.last
    /\ \A w \in Words : (\A x \in S : w # x + 1 /\ w # x + 2) => g.mem[w] = h.mem[w]

LEMMA LinkIs == ASSUME NEW b PROVE Link(b)[2] = b
    BY DEF Link

LEMMA ListedStays ==
    ASSUME NEW h, NEW F, NEW n, Listed(h, F, n), NEW g, g.free = h.free,
           \A k \in 1 .. n : /\ g.mem[F[k] + 1] = h.mem[F[k] + 1]
                             /\ g.mem[F[k] + 2] = h.mem[F[k] + 2]
    PROVE  Listed(g, F, n)
<1>1. \A k \in 1 .. n : Left(g, F[k]) = Left(h, F[k]) /\ Right(g, F[k]) = Right(h, F[k])
    BY DEF Left, Right
<1>2. \A k \in 2 .. n : k \in 1 .. n
    BY DEF Listed
<1> QED
    BY <1>1, <1>2 DEF Listed

LEMMA PushNodes ==
    ASSUME NEW F, NEW n \in Nat, NEW a
    PROVE  Nodes(Push(F, n, a), n + 1) = Nodes(F, n) \cup {a}
<1>1. \A k \in 1 .. n + 1 : Push(F, n, a)[k] = IF k = 1 THEN a ELSE F[k - 1]
    BY DEF Push
<1>2. ASSUME NEW x \in Nodes(Push(F, n, a), n + 1)
      PROVE  x \in Nodes(F, n) \cup {a}
    BY <1>1 DEF Nodes
<1>3. a \in Nodes(Push(F, n, a), n + 1)
    BY <1>1 DEF Nodes
<1>4. ASSUME NEW k \in 1 .. n
      PROVE  F[k] \in Nodes(Push(F, n, a), n + 1)
    <2>1. k + 1 \in 1 .. n + 1 /\ Push(F, n, a)[k + 1] = F[k]
        BY <1>1
    <2> QED
        BY <2>1 DEF Nodes
<1> QED
    BY <1>2, <1>3, <1>4 DEF Nodes

LEMMA DropNodes ==
    ASSUME NEW F, NEW n \in Nat, NEW i \in 1 .. n,
           \A j, k \in 1 .. n : F[j] = F[k] => j = k
    PROVE  Nodes(Drop(F, n, i), n - 1) = Nodes(F, n) \ {F[i]}
<1>1. \A k \in 1 .. n - 1 : Drop(F, n, i)[k] = IF k < i THEN F[k] ELSE F[k + 1]
    BY DEF Drop
<1>2. ASSUME NEW k \in 1 .. n - 1
      PROVE  Drop(F, n, i)[k] \in Nodes(F, n) \ {F[i]}
    BY <1>1 DEF Nodes
<1>3. ASSUME NEW k \in 1 .. n, F[k] # F[i]
      PROVE  F[k] \in Nodes(Drop(F, n, i), n - 1)
    <2>1. CASE k < i
        BY <1>1, <2>1 DEF Nodes
    <2>2. CASE k > i
        <3>1. k - 1 \in 1 .. n - 1 /\ ~(k - 1 < i) /\ (k - 1) + 1 = k
            BY <2>2
        <3>2. Drop(F, n, i)[k - 1] = F[k]
            BY <1>1, <3>1
        <3> QED
            BY <3>1, <3>2 DEF Nodes
    <2> QED
        BY <1>3, <2>1, <2>2
<1> QED
    BY <1>2, <1>3 DEF Nodes

LEMMA AddIs ==
    ASSUME NEW h, IsHeap(h), NEW F, NEW n, Listed(h, F, n),
           NEW a \in Nat, a % 2 = 1, a + 2 < MaxHeap, a \notin Nodes(F, n)
    PROVE  /\ Relinks(h, AddFreeNode(h, a), Nodes(F, n) \cup {a})
           /\ Listed(AddFreeNode(h, a), Push(F, n, a), n + 1)
<1> DEFINE G == Push(F, n, a)
           g == AddFreeNode(h, a)
<1>1. /\ n \in Nat /\ MaxHeap \in Nat
      /\ a + 1 \in Words /\ a + 2 \in Words
      /\ \A k \in 1 .. n : /\ F[k] \in Nat /\ F[k] % 2 = 1 /\ F[k] # a
                           /\ F[k] + 1 \in Words /\ F[k] + 2 \in Words
    BY HeapAssumption DEF Listed, Nodes, Words
<1>2. \A k \in 1 .. n + 1 : G[k] = IF k = 1 THEN a ELSE F[k - 1]
    BY DEF Push
<1>3. /\ Relinks(h, g, Nodes(F, n) \cup {a})
      /\ g.free = a
      /\ g.mem[a + 1] = Link(Null)
      /\ g.mem[a + 2] = Link(h.free)
      /\ \A k \in 1 .. n : g.mem[F[k] + 2] = h.mem[F[k] + 2]
      /\ \A k \in 2 .. n : g.mem[F[k] + 1] = h.mem[F[k] + 1]
      /\ n > 0 => g.mem[F[1] + 1] = Link(a)
    <2>1. CASE h.free = Null
        <3> DEFINE h1 == [h EXCEPT !.free = a]
                   h2 == SetLeft(h1, a, Null)
        <3>1. g = SetRight(h2, a, Null)
            BY <2>1 DEF AddFreeNode
        <3>2. SameFrame(h, h1) /\ h1.last = h.last /\ h1.free = a /\ h1.mem = h.mem
            BY SetFreeIs
        <3> HIDE DEF h1
        <3>3. /\ SameFrame(h1, h2) /\ h2.last = h1.last /\ h2.free = h1.free
              /\ \A w \in Words : h2.mem[w] = IF w = a + 1 THEN Link(Null) ELSE h1.mem[w]
            BY <1>1, <3>2, SetLeftIs DEF SameFrame
        <3> HIDE DEF h2
        <3>4. /\ SameFrame(h2, g) /\ g.last = h2.last /\ g.free = h2.free
              /\ \A w \in Words : g.mem[w] = IF w = a + 2 THEN Link(Null) ELSE h2.mem[w]
            BY <1>1, <3>1, <3>3, SetRightIs DEF SameFrame
        <3> HIDE DEF g
        <3>5. n = 0
            BY <1>1, <2>1 DEF Listed, Null
        <3>6. Relinks(h, g, Nodes(F, n) \cup {a})
            BY <3>2, <3>3, <3>4 DEF Relinks, SameFrame
        <3> QED
            BY <1>1, <2>1, <3>2, <3>3, <3>4, <3>5, <3>6
    <2>2. CASE h.free # Null
        <3> DEFINE f  == h.free
                   h1 == SetRight(h, a, f)
                   h2 == SetLeft(h1, f, a)
                   h3 == [h2 EXCEPT !.free = a]
        <3>1. g = SetLeft(h3, a, Null)
            BY <2>2 DEF AddFreeNode
        <3>2. n > 0 /\ f = F[1] /\ 1 \in 1 .. n
            BY <1>1, <2>2 DEF Listed, Null
        <3>3. f + 1 \in Words /\ f \in Nat /\ f % 2 = 1 /\ f # a
            BY <1>1, <3>2
        <3>4. /\ SameFrame(h, h1) /\ h1.last = h.last /\ h1.free = h.free
              /\ \A w \in Words : h1.mem[w] = IF w = a + 2 THEN Link(f) ELSE h.mem[w]
            BY <1>1, SetRightIs
        <3> HIDE DEF h1
        <3>5. /\ SameFrame(h1, h2) /\ h2.last = h1.last /\ h2.free = h1.free
              /\ \A w \in Words : h2.mem[w] = IF w = f + 1 THEN Link(a) ELSE h1.mem[w]
            BY <3>3, <3>4, SetLeftIs DEF SameFrame
        <3> HIDE DEF h2
        <3>6. SameFrame(h2, h3) /\ h3.last = h2.last /\ h3.free = a /\ h3.mem = h2.mem
            BY <3>5, SetFreeIs DEF SameFrame
        <3> HIDE DEF h3
        <3>7. /\ SameFrame(h3, g) /\ g.last = h3.last /\ g.free = h3.free
              /\ \A w \in Words : g.mem[w] = IF w = a + 1 THEN Link(Null) ELSE h3.mem[w]
            <4>1. IsHeap(h3) /\ a + 1 \in Words
                BY <1>1, <3>6 DEF SameFrame
            <4> HIDE DEF g
            <4> QED
                BY <3>1, <4>1, SetLeftIs
        <3> HIDE DEF g
        <3>8. \A w \in Words : g.mem[w] = IF w = a + 1 THEN Link(Null)
                                          ELSE IF w = f + 1 THEN Link(a)
                                          ELSE IF w = a + 2 THEN Link(f) ELSE h.mem[w]
            BY <3>4, <3>5, <3>6, <3>7
        <3>9. Relinks(h, g, Nodes(F, n) \cup {a})
            <4>1. f \in Nodes(F, n)
                BY <3>2 DEF Nodes
            <4> QED
                BY <3>4, <3>5, <3>6, <3>7, <3>8, <4>1 DEF Relinks, SameFrame
        <3>10. g.free = a
            BY <3>6, <3>7
        <3>11. g.mem[a + 1] = Link(Null) /\ g.mem[f + 1] = Link(a) /\ g.mem[a + 2] = Link(f)
            BY <1>1, <3>3, <3>8
        <3>12. \A k \in 1 .. n : g.mem[F[k] + 2] = h.mem[F[k] + 2]
            BY <1>1, <3>3, <3>8
        <3>13. \A k \in 2 .. n : g.mem[F[k] + 1] = h.mem[F[k] + 1]
            <4> SUFFICES ASSUME NEW k \in 2 .. n PROVE g.mem[F[k] + 1] = h.mem[F[k] + 1]
                OBVIOUS
            <4>1. k \in 1 .. n /\ F[k] # F[1]
                BY <1>1, <3>2 DEF Listed
            <4> QED
                BY <1>1, <3>2, <3>3, <3>8, <4>1
        <3> QED
            BY <3>2, <3>9, <3>10, <3>11, <3>12, <3>13
    <2> QED
        BY <2>1, <2>2
<1> HIDE DEF g, G
<1>4. \A k \in 1 .. n : Right(g, F[k]) = Right(h, F[k])
    BY <1>3 DEF Right
<1>5. \A k \in 2 .. n : Left(g, F[k]) = Left(h, F[k])
    BY <1>3 DEF Left
<1>6. Right(g, a) = h.free /\ (n > 0 => Left(g, F[1]) = a)
    BY <1>3, LinkIs DEF Left, Right
<1>7. Listed(g, G, n + 1)
    <2>1. \A k \in 1 .. n + 1 : G[k] \in Nat /\ G[k] % 2 = 1 /\ G[k] + 2 < MaxHeap
        BY <1>1, <1>2 DEF Listed
    <2>2. \A j, k \in 1 .. n + 1 : G[j] = G[k] => j = k
        BY <1>1, <1>2 DEF Listed
    <2>3. g.free = G[1] /\ n + 1 # 0
        BY <1>1, <1>2, <1>3
    <2>4. \A k \in 1 .. n + 1 : Right(g, G[k]) = IF k = n + 1 THEN Null ELSE G[k + 1]
        <3> SUFFICES ASSUME NEW k \in 1 .. n + 1
                     PROVE  Right(g, G[k]) = IF k = n + 1 THEN Null ELSE G[k + 1]
            OBVIOUS
        <3>1. CASE k = 1
            BY <1>1, <1>2, <1>6, <3>1 DEF Listed
        <3>2. CASE k > 1
            <4>1. k - 1 \in 1 .. n /\ G[k] = F[k - 1] /\ (k # n + 1 => G[k + 1] = F[(k - 1) + 1])
                BY <1>1, <1>2, <3>2
            <4> QED
                BY <1>1, <1>4, <3>2, <4>1 DEF Listed
        <3> QED
            BY <3>1, <3>2
    <2>5. \A k \in 2 .. n + 1 : Left(g, G[k]) = G[k - 1]
        <3> SUFFICES ASSUME NEW k \in 2 .. n + 1 PROVE Left(g, G[k]) = G[k - 1]
            OBVIOUS
        <3>1. CASE k = 2
            BY <1>1, <1>2, <1>6, <3>1
        <3>2. CASE k > 2
            <4>1. k - 1 \in 2 .. n /\ G[k] = F[k - 1] /\ G[k - 1] = F[(k - 1) - 1]
                BY <1>1, <1>2, <3>2
            <4> QED
                BY <1>1, <1>5, <3>2, <4>1 DEF Listed
        <3> QED
            BY <3>1, <3>2
    <2> QED
        BY <1>1, <2>1, <2>2, <2>3, <2>4, <2>5 DEF Listed
<1> QED
    BY <1>3, <1>7 DEF g, G

\* F[i] has been taken out: its neighbours in the list point at each other.
Unlinked(h, g, F, n, i) ==
    /\ Relinks(h, g, Nodes(F, n) \ {F[i]})
    /\ g.free = IF i = 1 THEN Right(h, F[i]) ELSE h.free
    /\ \A k \in 1 .. n : k # i => Right(g, F[k]) = IF k = i - 1 THEN Right(h, F[i]) ELSE Right(h, F[k])
    /\ \A k \in 2 .. n : k # i /\ k # i + 1 => Left(g, F[k]) = Left(h, F[k])
    /\ i > 1 /\ i < n => Left(g, F[i + 1]) = F[i - 1]

LEMMA UnlinkedIs ==
    ASSUME NEW h, NEW g, NEW F, NEW n, Listed(h, F, n), NEW i \in 1 .. n, Unlinked(h, g, F, n, i)
    PROVE  Listed(g, Drop(F, n, i), n - 1)
<1> DEFINE G == Drop(F, n, i)
<1>1. n \in Nat /\ n - 1 \in Nat /\ i \in Nat /\ 1 <= i /\ i <= n
    BY DEF Listed
<1>2. \A k \in 1 .. n - 1 : G[k] = IF k < i THEN F[k] ELSE F[k + 1]
    BY DEF Drop
<1> HIDE DEF G
<1>3. \A k \in 1 .. n - 1 : G[k] \in Nat /\ G[k] % 2 = 1 /\ G[k] + 2 < MaxHeap
    BY <1>1, <1>2 DEF Listed
<1>4. \A j, k \in 1 .. n - 1 : G[j] = G[k] => j = k
    <2> SUFFICES ASSUME NEW j \in 1 .. n - 1, NEW k \in 1 .. n - 1, G[j] = G[k]
                 PROVE  j = k
        OBVIOUS
    <2> DEFINE u(x) == IF x < i THEN x ELSE x + 1
    <2>1. u(j) \in 1 .. n /\ u(k) \in 1 .. n /\ G[j] = F[u(j)] /\ G[k] = F[u(k)]
        BY <1>1, <1>2
    <2>2. u(j) = u(k)
        BY <2>1 DEF Listed
    <2> QED
        BY <1>1, <2>2
<1>5. g.free = IF n - 1 = 0 THEN Null ELSE G[1]
    <2>1. CASE i = 1
        <3>1. g.free = Right(h, F[1])
            BY <2>1 DEF Unlinked
        <3>2. Right(h, F[1]) = IF 1 = n THEN Null ELSE F[1 + 1]
            BY <1>1 DEF Listed
        <3>3. n > 1 => G[1] = F[1 + 1]
            BY <1>1, <1>2, <2>1
        <3> QED
            BY <1>1, <3>1, <3>2, <3>3
    <2>2. CASE i > 1
        BY <1>1, <1>2, <2>2 DEF Unlinked, Listed
    <2> QED
        BY <1>1, <2>1, <2>2
<1>6. \A k \in 1 .. n - 1 : Right(g, G[k]) = IF k = n - 1 THEN Null ELSE G[k + 1]
    <2> SUFFICES ASSUME NEW k \in 1 .. n - 1
                 PROVE  Right(g, G[k]) = IF k = n - 1 THEN Null ELSE G[k + 1]
        OBVIOUS
    <2>1. CASE k = i - 1
        <3>1. k \in 1 .. n /\ k # i /\ G[k] = F[k]
            BY <1>1, <1>2, <2>1
        <3>2. Right(g, G[k]) = Right(h, F[i])
            BY <2>1, <3>1 DEF Unlinked
        <3>3. Right(h, F[i]) = IF i = n THEN Null ELSE F[i + 1]
            BY DEF Listed
        <3>4. k # n - 1 => G[k + 1] = F[i + 1]
            BY <1>1, <1>2, <2>1
        <3> QED
            BY <1>1, <2>1, <3>2, <3>3, <3>4
    <2>2. CASE k < i - 1
        <3>1. k \in 1 .. n /\ k # i /\ G[k] = F[k] /\ G[k + 1] = F[k + 1] /\ k # n /\ k # n - 1
            BY <1>1, <1>2, <2>2
        <3>2. Right(g, F[k]) = Right(h, F[k])
            BY <1>1, <2>2, <3>1 DEF Unlinked
        <3> QED
            BY <3>1, <3>2 DEF Listed
    <2>3. CASE k >= i
        <3>1. k + 1 \in 1 .. n /\ k + 1 # i /\ k + 1 # i - 1 /\ G[k] = F[k + 1]
            BY <1>1, <1>2, <2>3
        <3>2. Right(g, F[k + 1]) = Right(h, F[k + 1])
            BY <3>1 DEF Unlinked
        <3>3. Right(h, F[k + 1]) = IF k + 1 = n THEN Null ELSE F[(k + 1) + 1]
            BY <3>1 DEF Listed
        <3>4. k # n - 1 => G[k + 1] = F[(k + 1) + 1]
            BY <1>1, <1>2, <2>3
        <3> QED
            BY <1>1, <3>1, <3>2, <3>3, <3>4
    <2> QED
        BY <1>1, <2>1, <2>2, <2>3
<1>7. \A k \in 2 .. n - 1 : Left(g, G[k]) = G[k - 1]
    <2> SUFFICES ASSUME NEW k \in 2 .. n - 1
                 PROVE  Left(g, G[k]) = G[k - 1]
        OBVIOUS
    <2>1. CASE k < i
        <3>1. k \in 2 .. n /\ k # i /\ k # i + 1 /\ G[k] = F[k] /\ G[k - 1] = F[k - 1]
            BY <1>1, <1>2, <2>1
        <3> QED
            BY <3>1 DEF Unlinked, Listed
    <2>2. CASE k = i
        <3>1. i > 1 /\ i < n /\ G[k] = F[i + 1] /\ G[k - 1] = F[i - 1]
            BY <1>1, <1>2, <2>2
        <3> QED
            BY <3>1 DEF Unlinked
    <2>3. CASE k > i
        <3>1. k + 1 \in 2 .. n /\ k + 1 # i /\ k + 1 # i + 1 /\ G[k] = F[k + 1] /\ G[k - 1] = F[(k + 1) - 1]
            BY <1>1, <1>2, <2>3
        <3> QED
            BY <3>1 DEF Unlinked, Listed
    <2> QED
        BY <1>1, <2>1, <2>2, <2>3
<1>8. Listed(g, G, n - 1)
    BY <1>1, <1>3, <1>4, <1>5, <1>6, <1>7 DEF Listed
<1> QED
    BY <1>8 DEF G

\* g differs from h where the neighbours of F[i] pointed at it.
Bypassed(h, g, F, n, i) ==
    /\ SameFrame(h, g) /\ g.last = h.last
    /\ g.free = IF i = 1 THEN Right(h, F[i]) ELSE h.free
    /\ \A w \in Words : (i > 1 => w # F[i - 1] + 2) /\ (i < n => w # F[i + 1] + 1)
                            => g.mem[w] = h.mem[w]
    /\ i > 1 => g.mem[F[i - 1] + 2] = Link(Right(h, F[i]))
    /\ i > 1 /\ i < n => g.mem[F[i + 1] + 1] = Link(F[i - 1])

LEMMA ListedNodes ==
    ASSUME NEW h, NEW F, NEW n, Listed(h, F, n), NEW k \in 1 .. n
    PROVE  /\ F[k] \in Nat /\ F[k] % 2 = 1 /\ F[k] # Null
           /\ F[k] \in Words /\ F[k] + 1 \in Words /\ F[k] + 2 \in Words
           /\ F[k] \in Nodes(F, n)
<1>1. F[k] \in Nat /\ F[k] % 2 = 1 /\ F[k] + 2 < MaxHeap /\ MaxHeap \in Nat
    BY HeapAssumption DEF Listed
<1>2. F[k] \in Words /\ F[k] + 1 \in Words /\ F[k] + 2 \in Words
    BY <1>1 DEF Words
<1>3. F[k] # Null
    BY <1>1 DEF Null
<1>4. F[k] \in Nodes(F, n)
    BY DEF Nodes
<1> QED
    BY <1>1, <1>2, <1>3, <1>4

LEMMA BypassedIs ==
    ASSUME NEW h, NEW g, NEW F, NEW n, Listed(h, F, n), NEW i \in 1 .. n, Bypassed(h, g, F, n, i)
    PROVE  Unlinked(h, g, F, n, i)
<1>1. /\ n \in Nat /\ i \in Nat /\ 1 <= i /\ i <= n
      /\ \A j, k \in 1 .. n : F[j] = F[k] => j = k
    BY DEF Listed
<1>2. \A k \in 1 .. n : /\ F[k] \in Nat /\ F[k] % 2 = 1
                        /\ F[k] + 1 \in Words /\ F[k] + 2 \in Words
                        /\ F[k] \in Nodes(F, n)
    BY ListedNodes
<1>3. \A j, k \in 1 .. n : F[j] + 1 # F[k] + 2
    BY <1>2
<1>4. (i > 1 => i - 1 \in 1 .. n /\ i - 1 # i) /\ (i < n => i + 1 \in 1 .. n /\ i + 1 # i)
    BY <1>1
<1>5. Relinks(h, g, Nodes(F, n) \ {F[i]})
    <2>1. /\ i > 1 => F[i - 1] \in Nodes(F, n) \ {F[i]}
          /\ i < n => F[i + 1] \in Nodes(F, n) \ {F[i]}
        BY <1>1, <1>2, <1>4
    <2> QED
        BY <2>1 DEF Bypassed, Relinks
<1>6. ASSUME NEW k \in 1 .. n, k # i
      PROVE  Right(g, F[k]) = IF k = i - 1 THEN Right(h, F[i]) ELSE Right(h, F[k])
    <2>1. CASE k = i - 1
        <3>1. i > 1 /\ g.mem[F[k] + 2] = Link(Right(h, F[i]))
            BY <1>1, <2>1 DEF Bypassed
        <3> QED
            BY <2>1, <3>1, LinkIs DEF Right
    <2>2. CASE k # i - 1
        <3>1. i > 1 => F[k] + 2 # F[i - 1] + 2
            BY <1>1, <1>2, <1>4, <2>2
        <3>2. i < n => F[k] + 2 # F[i + 1] + 1
            BY <1>3, <1>4
        <3>3. g.mem[F[k] + 2] = h.mem[F[k] + 2]
            BY <1>2, <3>1, <3>2 DEF Bypassed
        <3> QED
            BY <2>2, <3>3 DEF Right
    <2> QED
        BY <2>1, <2>2
<1>7. ASSUME NEW k \in 2 .. n, k # i, k # i + 1
      PROVE  Left(g, F[k]) = Left(h, F[k])
    <2>1. k \in 1 .. n
        BY <1>1
    <2>2. i > 1 => F[k] + 1 # F[i - 1] + 2
        BY <1>3, <1>4, <2>1
    <2>3. i < n => F[k] + 1 # F[i + 1] + 1
        BY <1>1, <1>2, <1>4, <1>7, <2>1
    <2>4. g.mem[F[k] + 1] = h.mem[F[k] + 1]
        BY <1>2, <2>1, <2>2, <2>3 DEF Bypassed
    <2> QED
        BY <2>4 DEF Left
<1>8. i > 1 /\ i < n => Left(g, F[i + 1]) = F[i - 1]
    BY LinkIs DEF Bypassed, Left
<1> QED
    BY <1>5, <1>6, <1>7, <1>8 DEF Unlinked, Bypassed

\* In the middle of the list, where both functions do the same.
LEMMA BypassIs ==
    ASSUME NEW h, IsHeap(h), NEW F, NEW n, Listed(h, F, n), NEW i \in 1 .. n, i > 1
    PROVE  LET a == F[i]
               g == SetRight(h, Left(h, a), Right(h, a))
               m == IF Right(h, a) # Null THEN SetLeft(g, Right(h, a), Left(h, a)) ELSE g
           IN  Bypassed(h, m, F, n, i)
<1> DEFINE l == F[i - 1]
           r == Right(h, F[i])
           g == SetRight(h, l, r)
           m == IF r # Null THEN SetLeft(g, r, l) ELSE g
<1>1. /\ n \in Nat /\ i \in Nat /\ i <= n /\ i - 1 \in 1 .. n /\ i \in 2 .. n
      /\ Left(h, F[i]) = l
      /\ r = IF i = n THEN Null ELSE F[i + 1]
    BY DEF Listed
<1>2. /\ l \in Nat /\ l % 2 = 1 /\ l + 2 \in Words
      /\ i < n => F[i + 1] \in Nat /\ F[i + 1] % 2 = 1 /\ F[i + 1] + 1 \in Words /\ F[i + 1] # Null
    <2>1. i < n => i + 1 \in 1 .. n
        BY <1>1
    <2> QED
        BY <1>1, <2>1, ListedNodes
<1> HIDE DEF l, r
<1>3. /\ SameFrame(h, g) /\ g.last = h.last /\ g.free = h.free
      /\ \A w \in Words : g.mem[w] = IF w = l + 2 THEN Link(r) ELSE h.mem[w]
    BY <1>2, SetRightIs
<1> HIDE DEF g
<1>4. CASE i = n
    <2>1. m = g
        BY <1>1, <1>4
    <2>2. Bypassed(h, m, F, n, i)
        BY <1>1, <1>2, <1>3, <1>4, <2>1 DEF Bypassed, l, r
    <2> QED
        BY <1>1, <2>2 DEF g, r, l
<1>5. CASE i < n
    <2>1. m = SetLeft(g, r, l) /\ r = F[i + 1]
        BY <1>1, <1>2, <1>5
    <2> HIDE DEF m
    <2>2. /\ SameFrame(g, m) /\ m.last = g.last /\ m.free = g.free
          /\ \A w \in Words : m.mem[w] = IF w = r + 1 THEN Link(l) ELSE g.mem[w]
        BY <1>2, <1>3, <1>5, <2>1, SetLeftIs DEF SameFrame
    <2>3. l + 2 # r + 1 /\ r + 1 \in Words
        BY <1>2, <1>5, <2>1
    <2>4. /\ m.mem[l + 2] = Link(r) /\ m.mem[r + 1] = Link(l)
          /\ \A w \in Words : w # l + 2 /\ w # r + 1 => m.mem[w] = h.mem[w]
        BY <1>2, <1>3, <2>2, <2>3
    <2>5. Bypassed(h, m, F, n, i)
        BY <1>1, <1>3, <1>5, <2>1, <2>2, <2>4 DEF Bypassed, l, r, SameFrame
    <2> QED
        BY <1>1, <2>5 DEF m, g, r, l
<1> QED
    BY <1>1, <1>4, <1>5

LEMMA RemoveIs ==
    ASSUME NEW h, IsHeap(h), NEW F, NEW n, Listed(h, F, n), NEW i \in 1 .. n
    PROVE  Unlinked(h, RemoveFreeNode(h, F[i]), F, n, i)
<1> DEFINE m == RemoveFreeNode(h, F[i])
           r == Right(h, F[i])
           g == [h EXCEPT !.free = r]
<1>1. n \in Nat /\ n >= 1 /\ h.free = F[1] /\ 1 \in 1 .. n /\ (F[i] = F[1] => i = 1)
    BY DEF Listed
<1>2. CASE i = 1
    <2>1. m = IF r # Null THEN SetLeft(g, r, Null) ELSE g
        BY <1>1, <1>2 DEF RemoveFreeNode
    <2>2. r = IF n = 1 THEN Null ELSE F[2]
        BY <1>1, <1>2 DEF Listed
    <2>3. n > 1 => F[2] # Null /\ F[2] + 1 \in Words
        <3>1. n > 1 => 2 \in 1 .. n
            BY <1>1
        <3> QED
            BY <3>1, ListedNodes
    <2> HIDE DEF m, r
    <2>4. SameFrame(h, g) /\ g.last = h.last /\ g.free = r /\ g.mem = h.mem
        BY SetFreeIs
    <2> HIDE DEF g
    <2>5. CASE n = 1
        <3>1. Bypassed(h, m, F, n, i)
            BY <1>2, <2>1, <2>2, <2>4, <2>5 DEF Bypassed, r
        <3> QED
            BY <3>1, BypassedIs DEF m
    <2>6. CASE n > 1
        <3>1. m = SetLeft(g, r, Null) /\ r = F[i + 1] /\ r + 1 \in Words
            BY <1>2, <2>1, <2>2, <2>3, <2>6
        <3>2. /\ SameFrame(g, m) /\ m.last = g.last /\ m.free = g.free
              /\ \A w \in Words : m.mem[w] = IF w = r + 1 THEN Link(Null) ELSE g.mem[w]
            BY <2>4, <3>1, SetLeftIs DEF SameFrame
        <3>3. Bypassed(h, m, F, n, i)
            BY <1>2, <2>4, <2>6, <3>1, <3>2 DEF Bypassed, SameFrame, r
        <3> QED
            BY <3>3, BypassedIs DEF m
    <2> QED
        BY <1>1, <2>5, <2>6 DEF m
<1>3. CASE i > 1
    <2>1. F[i] # h.free
        BY <1>1, <1>3
    <2>2. Left(h, F[i]) # Null
        <3>1. Left(h, F[i]) = F[i - 1] /\ i - 1 \in 1 .. n
            BY <1>1, <1>3 DEF Listed
        <3> QED
            BY <3>1, ListedNodes
    <2>3. m = IF r # Null THEN SetLeft(SetRight(h, Left(h, F[i]), r), r, Left(h, F[i]))
              ELSE SetRight(h, Left(h, F[i]), r)
        BY <2>1, <2>2 DEF RemoveFreeNode
    <2>4. Bypassed(h, m, F, n, i)
        BY <1>3, <2>3, BypassIs
    <2> QED
        BY <2>4, BypassedIs
<1> QED
    BY <1>1, <1>2, <1>3

LEMMA TakeWholeIs ==
    ASSUME NEW h, IsHeap(h), NEW F, NEW n, Listed(h, F, n), NEW i \in 1 .. n
    PROVE  Unlinked(h, TakeWhole(h, F[i]), F, n, i)
<1> DEFINE m == TakeWhole(h, F[i])
           r == Right(h, F[i])
<1>1. n \in Nat /\ n >= 1 /\ h.free = F[1] /\ 1 \in 1 .. n /\ (F[i] = F[1] => i = 1)
    BY DEF Listed
<1>2. CASE i = 1
    <2>1. m = [h EXCEPT !.free = r]
        BY <1>1, <1>2 DEF TakeWhole
    <2> HIDE DEF m, r
    <2>2. SameFrame(h, m) /\ m.last = h.last /\ m.free = r /\ m.mem = h.mem
        BY <2>1, SetFreeIs
    <2>3. Bypassed(h, m, F, n, i)
        BY <1>2, <2>2 DEF Bypassed, r
    <2> QED
        BY <2>3, BypassedIs DEF m
<1>3. CASE i > 1
    <2>1. F[i] # h.free
        BY <1>1, <1>3
    <2>2. m = IF r # Null THEN SetLeft(SetRight(h, Left(h, F[i]), r), r, Left(h, F[i]))
              ELSE SetRight(h, Left(h, F[i]), r)
        BY <2>1 DEF TakeWhole
    <2>3. Bypassed(h, m, F, n, i)
        BY <1>3, <2>2, BypassIs
    <2> QED
        BY <2>3, BypassedIs
<1> QED
    BY <1>1, <1>2, <1>3

------------------------------------------------------------------------------
(* What the allocator's writes do to the tiling *)

\* Every word of the block at a is as it was.
Stands(h, g, a) == \A w \in Nat : a <= w /\ w < a + Size(h, a) => g.mem[w] = h.mem[w]

LEMMA StandsIs ==
    ASSUME NEW h, NEW B, Tiled(h, B), NEW a \in B, NEW g, Stands(h, g, a)
    PROVE  /\ Size(g, a) = Size(h, a) /\ Used(g, a) = Used(h, a)
           /\ g.mem[a] = h.mem[a]
           /\ g.mem[a + Size(h, a) - 1] = h.mem[a + Size(h, a) - 1]
<1>1. g.mem[a] = h.mem[a]
    BY Bounds DEF Stands
<1>2. g.mem[a + Size(h, a) - 1] = h.mem[a + Size(h, a) - 1]
    BY Bounds DEF Stands, Words
<1> QED
    BY <1>1, <1>2 DEF Size, Used

\* The links of a block are not among the words of another.
LEMMA LinksInside ==
    ASSUME NEW h, NEW B, Tiled(h, B), NEW a \in B, NEW x \in B, NEW w \in Int,
           a <= w, w < a + Size(h, a), w = x + 1 \/ w = x + 2
    PROVE  x = a
<1>1. SUFFICES ASSUME x # a PROVE FALSE
    OBVIOUS
<1>2. a + Size(h, a) <= x \/ x + Size(h, x) <= a
    BY <1>1, Apart
<1> QED
    BY <1>2, Bounds

\* New links leave the tiling alone, and the words of the blocks not relinked.
LEMMA RelinksKeep ==
    ASSUME NEW h, NEW B, Tiled(h, B), NEW S \in SUBSET B, NEW g, Relinks(h, g, S)
    PROVE  /\ Tiled(g, B)
           /\ \A a \in B : Size(g, a) = Size(h, a) /\ Used(g, a) = Used(h, a)
           /\ \A a \in B \ S : Stands(h, g, a)
<1>1. ASSUME NEW a \in B
      PROVE  /\ g.mem[a] = h.mem[a]
             /\ g.mem[a + Size(h, a) - 1] = h.mem[a + Size(h, a) - 1]
    <2>1. /\ a \in Nat /\ Size(h, a) \in Nat /\ Size(h, a) >= 4
          /\ a \in Words /\ a + Size(h, a) - 1 \in Words
        BY Bounds, InWords
    <2>2. \A x \in S : a # x + 1 /\ a # x + 2
        <3> SUFFICES ASSUME NEW x \in S, a = x + 1 \/ a = x + 2 PROVE FALSE
            OBVIOUS
        <3>1. x = a
            BY <2>1, LinksInside
        <3> QED
            BY <2>1, <3>1
    <2>3. \A x \in S : a + Size(h, a) - 1 # x + 1 /\ a + Size(h, a) - 1 # x + 2
        <3> DEFINE w == a + Size(h, a) - 1
        <3> SUFFICES ASSUME NEW x \in S, w = x + 1 \/ w = x + 2 PROVE FALSE
            OBVIOUS
        <3>1. w \in Int /\ a <= w /\ w < a + Size(h, a) /\ w >= a + 3
            BY <2>1
        <3> HIDE DEF w
        <3>2. x = a
            BY <3>1, LinksInside
        <3> QED
            BY <2>1, <3>1, <3>2
    <2> QED
        BY <2>1, <2>2, <2>3 DEF Relinks
<1>2. Tiled(g, B) /\ \A a \in B : Size(g, a) = Size(h, a) /\ Used(g, a) = Used(h, a)
    BY <1>1, TiledStays DEF Relinks
<1>3. ASSUME NEW a \in B \ S PROVE Stands(h, g, a)
    <2> SUFFICES ASSUME NEW w \in Nat, a <= w, w < a + Size(h, a)
                 PROVE  g.mem[w] = h.mem[w]
        BY DEF Stands
    <2>1. \A x \in S : w # x + 1 /\ w # x + 2
        BY LinksInside
    <2>2. w \in Words
        BY InWords
    <2> QED
        BY <2>1, <2>2 DEF Relinks
<1> QED
    BY <1>2, <1>3

\* The block at a, of the same size, is now marked u.
Marked(h, g, B, a, u) ==
    /\ Tiled(g, B)
    /\ SameFrame(h, g) /\ g.last = h.last /\ g.free = h.free
    /\ \A b \in B : Size(g, b) = Size(h, b)
    /\ \A b \in B \ {a} : Used(g, b) = Used(h, b) /\ Stands(h, g, b)
    /\ Used(g, a) = u
    /\ \A w \in Words : w # a /\ w # a + Size(h, a) - 1 => g.mem[w] = h.mem[w]

LEMMA MarkIs ==
    ASSUME NEW h, NEW B, Tiled(h, B), NEW a \in B, NEW u \in BOOLEAN
    PROVE  Marked(h, SetHeader(h, a, Size(h, a), u), B, a, u)
<1> DEFINE n == Size(h, a)
           z == a + n - 1
           g == SetHeader(h, a, n, u)
<1>1. /\ a \in Nat /\ n \in Nat /\ n >= 4 /\ n % 2 = 0
      /\ a \in Words /\ z \in Words
    BY Bounds, InWords
<1>2. IsHeap(h)
    BY DEF Tiled
<1>3. /\ SameFrame(h, g) /\ g.last = h.last /\ g.free = h.free
      /\ \A w \in Words : g.mem[w] = IF w = a \/ w = z THEN Tag(n, u) ELSE h.mem[w]
    BY <1>1, <1>2, SetHeaderIs
<1> HIDE DEF g
<1>4. g.mem[a] = Tag(n, u) /\ g.mem[z] = Tag(n, u)
    BY <1>1, <1>3
<1>5. Size(g, a) = n /\ Used(g, a) = u
    BY <1>4, TagIs DEF Size, Used
<1>6. ASSUME NEW b \in B \ {a} PROVE Stands(h, g, b)
    <2> SUFFICES ASSUME NEW w \in Nat, b <= w, w < b + Size(h, b)
                 PROVE  g.mem[w] = h.mem[w]
        BY DEF Stands
    <2>1. a + n <= b \/ b + Size(h, b) <= a
        BY Apart
    <2>2. w # a /\ w # z /\ w \in Words
        BY <1>1, <2>1, Bounds, InWords
    <2> QED
        BY <1>3, <2>2
<1>7. \A b \in B \ {a} : Size(g, b) = Size(h, b) /\ Used(g, b) = Used(h, b) /\ TaggedAt(g, b)
    <2> SUFFICES ASSUME NEW b \in B \ {a}
                 PROVE  Size(g, b) = Size(h, b) /\ Used(g, b) = Used(h, b) /\ TaggedAt(g, b)
        OBVIOUS
    <2>1. /\ Size(g, b) = Size(h, b) /\ Used(g, b) = Used(h, b)
          /\ g.mem[b] = h.mem[b] /\ g.mem[b + Size(h, b) - 1] = h.mem[b + Size(h, b) - 1]
        BY <1>6, StandsIs
    <2> QED
        BY <2>1 DEF Tiled, TaggedAt
<1>8. TaggedAt(g, a)
    BY <1>1, <1>4, <1>5 DEF TaggedAt
<1>9. \A b \in B : Size(g, b) = Size(h, b) /\ TaggedAt(g, b)
    BY <1>5, <1>7, <1>8
<1> HIDE DEF n, z
<1>10. Tiled(g, B)
    BY <1>3, <1>9 DEF Tiled, SameFrame
<1>11. Marked(h, g, B, a, u)
    BY <1>3, <1>5, <1>6, <1>7, <1>9, <1>10 DEF Marked, n, z
<1> QED
    BY <1>11 DEF g, n

\* The free block at a has been cut after n words; both parts are free.
Split(h, g, B, a, n) ==
    /\ Tiled(g, B \cup {a + n}) /\ a + n \notin B
    /\ SameFrame(h, g) /\ g.free = h.free
    /\ Size(g, a) = n /\ ~Used(g, a)
    /\ Size(g, a + n) = Size(h, a) - n /\ ~Used(g, a + n)
    /\ \A b \in B \ {a} : Stands(h, g, b)
    /\ \A b \in B : g.mem[b + 1] = h.mem[b + 1] /\ g.mem[b + 2] = h.mem[b + 2]

LEMMA SplitIs ==
    ASSUME NEW h, NEW B, Tiled(h, B), NEW a \in B,
           NEW n \in Nat, n % 2 = 0, n >= 4, n + 4 <= Size(h, a)
    PROVE  LET cut == SetHeader(SetHeader(h, a, n, FALSE), a + n, Size(h, a) - n, FALSE)
           IN  Split(h, [cut EXCEPT !.last = IF a + n > @ THEN a + n ELSE @], B, a, n)
<1> DEFINE u == FALSE
           s == Size(h, a)
           c == a + n
           k == s - n
           l == IF c > h.last THEN c ELSE h.last
           h1 == SetHeader(h, a, n, u)
           h2 == SetHeader(h1, c, k, u)
           g  == [h2 EXCEPT !.last = l]
<1>1. u \in BOOLEAN /\ u = FALSE
    OBVIOUS
<1>2. /\ a \in Nat /\ a % 2 = 1 /\ a >= 1 /\ s \in Nat /\ s % 2 = 0 /\ s >= 4 /\ a \in Words
      /\ a + s <= h.brk /\ h.brk \in Nat
    BY Bounds, InWords
<1>3. /\ c \in Nat /\ c % 2 = 1 /\ c > a /\ k \in Nat /\ k % 2 = 0 /\ k >= 4 /\ c + k = a + s
      /\ c = a + n /\ c >= 1
    <2>1. k \in Nat /\ k >= 4
        BY <1>2
    <2>2. k % 2 = 0
        BY <1>2
    <2> QED
        BY <1>2, <2>1, <2>2
<1>4. a + n - 1 \in Words /\ c \in Words /\ c + k - 1 \in Words
    <2>1. a + n - 1 \in Int /\ a <= a + n - 1 /\ a + n - 1 < a + s
        BY <1>2
    <2>2. c \in Int /\ a <= c /\ c < a + s
        BY <1>2
    <2>3. c + k - 1 \in Int /\ a <= c + k - 1 /\ c + k - 1 < a + s
        BY <1>2, <1>3
    <2> QED
        BY <2>1, <2>2, <2>3, InWords
<1>5. IsHeap(h) /\ h.last \in Nat /\ a <= h.last
    BY DEF Tiled
<1>6. h1 = SetHeader(h, a, n, FALSE) /\ h2 = SetHeader(h1, a + n, Size(h, a) - n, FALSE)
    OBVIOUS
<1> HIDE DEF u, s, c, k
<1>7. /\ SameFrame(h, h1) /\ h1.last = h.last /\ h1.free = h.free
      /\ \A w \in Words : h1.mem[w] = IF w = a \/ w = a + n - 1 THEN Tag(n, u) ELSE h.mem[w]
    BY <1>2, <1>4, <1>5, SetHeaderIs
<1> HIDE DEF h1
<1>8. /\ SameFrame(h1, h2) /\ h2.last = h1.last /\ h2.free = h1.free
      /\ \A w \in Words : h2.mem[w] = IF w = c \/ w = c + k - 1 THEN Tag(k, u) ELSE h1.mem[w]
    <2>1. IsHeap(h1)
        BY <1>7 DEF SameFrame
    <2> QED
        BY <1>4, <2>1, SetHeaderIs
<1> HIDE DEF h2
<1>9. g = [h2 EXCEPT !.last = IF a + n > @ THEN a + n ELSE @]
    BY <1>3, <1>7, <1>8
<1> HIDE DEF l
<1>10. SameFrame(h2, g) /\ g.last = l /\ g.free = h2.free /\ g.mem = h2.mem
    BY <1>8, SetLastIs DEF SameFrame
<1> HIDE DEF g
<1>11. /\ SameFrame(h, g) /\ g.free = h.free
       /\ g.mem[a] = Tag(n, u) /\ g.mem[a + n - 1] = Tag(n, u)
       /\ g.mem[c] = Tag(k, u) /\ g.mem[c + k - 1] = Tag(k, u)
       /\ \A w \in Words : w # a /\ w # a + n - 1 /\ w # c /\ w # c + k - 1 => g.mem[w] = h.mem[w]
    <2>1. SameFrame(h, g) /\ g.free = h.free
        BY <1>7, <1>8, <1>10 DEF SameFrame
    <2>2. /\ a # c /\ a # c + k - 1 /\ a + n - 1 # c /\ a + n - 1 # c + k - 1
        BY <1>2, <1>3
    <2> QED
        BY <1>2, <1>4, <1>7, <1>8, <1>10, <2>1, <2>2
<1>12. /\ Size(g, a) = n /\ Used(g, a) = u /\ Size(g, c) = k /\ Used(g, c) = u
    BY <1>11, TagIs DEF Size, Used
<1>13. TaggedAt(g, a) /\ TaggedAt(g, c)
    BY <1>1, <1>3, <1>11, <1>12 DEF TaggedAt
<1>14. \A b \in B \ {a} : b + Size(h, b) <= a \/ a + s <= b
    BY Apart DEF s
<1>15. ASSUME NEW b \in B \ {a} PROVE Stands(h, g, b)
    <2> SUFFICES ASSUME NEW w \in Nat, b <= w, w < b + Size(h, b)
                 PROVE  g.mem[w] = h.mem[w]
        BY DEF Stands
    <2>1. b + Size(h, b) <= a \/ a + s <= b
        BY <1>14
    <2>2. b \in Nat /\ Size(h, b) \in Nat /\ w \in Words
        BY Bounds, InWords
    <2>3. w # a /\ w # a + n - 1 /\ w # c /\ w # c + k - 1
        BY <1>2, <1>3, <2>1, <2>2
    <2> QED
        BY <1>11, <2>2, <2>3
<1>16. \A b \in B \ {a} : Size(g, b) = Size(h, b) /\ TaggedAt(g, b)
    <2> SUFFICES ASSUME NEW b \in B \ {a}
                 PROVE  Size(g, b) = Size(h, b) /\ TaggedAt(g, b)
        OBVIOUS
    <2>1. /\ Size(g, b) = Size(h, b) /\ Used(g, b) = Used(h, b)
          /\ g.mem[b] = h.mem[b] /\ g.mem[b + Size(h, b) - 1] = h.mem[b + Size(h, b) - 1]
        BY <1>15, StandsIs
    <2> QED
        BY <2>1 DEF Tiled, TaggedAt
<1>17. c \notin B
    <2>1. SUFFICES ASSUME c \in B PROVE FALSE
        OBVIOUS
    <2>2. c + Size(h, c) <= a \/ a + s <= c
        BY <1>3, <1>14, <2>1
    <2> QED
        BY <1>2, <1>3, <2>1, <2>2, Bounds
<1>18. \A b \in B : g.mem[b + 1] = h.mem[b + 1] /\ g.mem[b + 2] = h.mem[b + 2]
    <2>1. ASSUME NEW b \in B \ {a}
          PROVE  g.mem[b + 1] = h.mem[b + 1] /\ g.mem[b + 2] = h.mem[b + 2]
        BY <1>15, Bounds DEF Stands
    <2>2. g.mem[a + 1] = h.mem[a + 1] /\ g.mem[a + 2] = h.mem[a + 2]
        <3>1. /\ a + 1 # a /\ a + 1 # a + n - 1 /\ a + 1 # c /\ a + 1 # c + k - 1
              /\ a + 2 # a /\ a + 2 # a + n - 1 /\ a + 2 # c /\ a + 2 # c + k - 1
            BY <1>2, <1>3
        <3>2. a + 1 \in Words /\ a + 2 \in Words
            BY <1>2, InWords DEF s
        <3> QED
            BY <1>11, <3>1, <3>2
    <2> QED
        BY <2>1, <2>2
<1>19. Tiled(g, B \cup {c})
    <2>1. /\ IsHeap(g) /\ g.brk = h.brk /\ g.first = 1
          /\ g.brk % 2 = 1 /\ g.brk + 1 <= MaxHeap
          /\ B \cup {c} \subseteq Nat \ {0} /\ 1 \in B \cup {c} /\ B \cup {c} # {}
        BY <1>3, <1>11 DEF Tiled, SameFrame
    <2>2. g.last \in B \cup {c} /\ g.last >= c /\ g.last >= h.last /\ g.last \in Nat
        BY <1>3, <1>5, <1>10 DEF Tiled, l
    <2>3. ASSUME NEW x \in B \cup {c}
          PROVE  /\ x % 2 = 1 /\ TaggedAt(g, x)
                 /\ x + Size(g, x) = g.brk \/ x + Size(g, x) \in B \cup {c}
                 /\ x + Size(g, x) <= g.brk
                 /\ x <= g.last
                 /\ \A y \in B \cup {c} : y > x => y >= x + Size(g, x)
        <3>0. \A y \in B : y \in Nat /\ y <= h.last /\ y % 2 = 1
            BY Bounds DEF Tiled
        <3>1. CASE x = a
            <4>1. x + Size(g, x) = c
                BY <1>3, <1>12, <3>1
            <4>2. \A y \in B : y > x => y >= c
                <5> SUFFICES ASSUME NEW y \in B, y > x PROVE y >= c
                    OBVIOUS
                <5>1. y + Size(h, y) <= a \/ a + s <= y
                    BY <1>2, <1>14, <3>1
                <5> QED
                    BY <1>2, <1>3, <3>1, <5>1, Bounds
            <4>3. c <= g.brk
                BY <1>2, <1>3, <2>1
            <4> QED
                BY <1>2, <1>3, <1>5, <1>13, <2>2, <3>1, <4>1, <4>2, <4>3
        <3>2. CASE x = c
            <4>1. x + Size(g, x) = a + s
                BY <1>3, <1>12, <3>2
            <4>2. \A y \in B : y > x => y >= a + s
                <5> SUFFICES ASSUME NEW y \in B, y > x PROVE y >= a + s
                    OBVIOUS
                <5>1. y # a /\ y \in Nat
                    BY <1>2, <1>3, <3>0, <3>2
                <5>2. y + Size(h, y) <= a \/ a + s <= y
                    BY <1>14, <5>1
                <5> QED
                    BY <1>2, <1>3, <3>2, <5>1, <5>2, Bounds
            <4>3. a + s = g.brk \/ a + s \in B
                BY <2>1 DEF Tiled, s
            <4> QED
                BY <1>2, <1>3, <1>13, <2>1, <2>2, <3>2, <4>1, <4>2, <4>3
        <3>3. CASE x \in B \ {a}
            <4>1. /\ x + Size(g, x) = h.brk \/ x + Size(g, x) \in B
                  /\ x + Size(g, x) <= h.brk
                  /\ \A y \in B : y > x => y >= x + Size(g, x)
                BY <1>16, <3>3 DEF Tiled
            <4>2. c > x => c >= x + Size(g, x)
                <5>1. x + Size(h, x) <= a \/ a + s <= x
                    BY <1>14, <3>3
                <5> QED
                    BY <1>2, <1>3, <1>16, <3>3, <5>1, Bounds
            <4>3. x <= g.last
                BY <1>5, <2>2, <3>0, <3>3
            <4> QED
                BY <1>16, <2>1, <3>0, <3>3, <4>1, <4>2, <4>3
        <3> QED
            BY <3>1, <3>2, <3>3
    <2> HIDE DEF TaggedAt
    <2> QED
        BY <1>2, <2>1, <2>2, <2>3 DEF Tiled
<1>20. Split(h, g, B, a, n)
    BY <1>1, <1>3, <1>11, <1>12, <1>15, <1>17, <1>18, <1>19 DEF Split, c, k, s
<1> QED
    BY <1>6, <1>9, <1>20

\* The block at a has absorbed the block at c, which begins where a ended.
Merged(h, g, B, a, c) ==
    /\ Tiled(g, B \ {c})
    /\ SameFrame(h, g) /\ g.free = h.free
    /\ g.last = IF c = h.last THEN a ELSE h.last
    /\ Size(g, a) = Size(h, a) + Size(h, c) /\ ~Used(g, a)
    /\ \A b \in B \ {a, c} : Stands(h, g, b)
    /\ \A b \in B \ {c} : g.mem[b + 1] = h.mem[b + 1] /\ g.mem[b + 2] = h.mem[b + 2]

LEMMA MergeIs ==
    ASSUME NEW h, NEW B, Tiled(h, B), NEW a \in B, NEW c \in B, c = a + Size(h, a),
           NEW S, \A w \in S : w \in Int /\ a + 3 <= w /\ w < c + Size(h, c) - 1
    PROVE  LET m == SetHeader(h, a, Size(h, a) + Size(h, c), FALSE)
           IN  Merged(h, Forget([m EXCEPT !.last = IF c = @ THEN a ELSE @], S), B, a, c)
<1> DEFINE u == FALSE
           s == Size(h, a)
           k == Size(h, c)
           n == s + k
           l == IF c = h.last THEN a ELSE h.last
           h1 == SetHeader(h, a, n, u)
           h2 == [h1 EXCEPT !.last = l]
           g  == Forget(h2, S)
<1>1. u \in BOOLEAN /\ u = FALSE
    OBVIOUS
<1>2. /\ a \in Nat /\ a % 2 = 1 /\ a >= 1 /\ s \in Nat /\ s % 2 = 0 /\ s >= 4 /\ a \in Words
      /\ c \in Nat /\ c = a + s /\ k \in Nat /\ k % 2 = 0 /\ k >= 4
      /\ c + k <= h.brk /\ h.brk \in Nat
      /\ c + k - 1 \in Words
    BY Bounds, InWords
<1>3. n \in Nat /\ n % 2 = 0 /\ n >= 4 /\ a + n = c + k /\ a + n - 1 = c + k - 1
    BY <1>2
<1>4. IsHeap(h) /\ h.last \in Nat /\ a <= h.last /\ c <= h.last
    BY DEF Tiled
<1>5. \A b \in B \ {a, c} : b + Size(h, b) <= a \/ c + k <= b
    <2> SUFFICES ASSUME NEW b \in B \ {a, c}
                 PROVE  b + Size(h, b) <= a \/ c + k <= b
        OBVIOUS
    <2>1. b + Size(h, b) <= a \/ a + s <= b
        BY Apart
    <2>2. b + Size(h, b) <= c \/ c + k <= b
        BY Apart
    <2> QED
        BY <1>2, <2>1, <2>2, Bounds
<1>6. h1 = SetHeader(h, a, Size(h, a) + Size(h, c), FALSE)
    OBVIOUS
<1> HIDE DEF u, s, k, n
<1>7. /\ SameFrame(h, h1) /\ h1.last = h.last /\ h1.free = h.free
      /\ \A w \in Words : h1.mem[w] = IF w = a \/ w = a + n - 1 THEN Tag(n, u) ELSE h.mem[w]
    <2>1. a \in Words /\ a + n - 1 \in Words
        BY <1>2, <1>3
    <2> QED
        BY <1>4, <2>1, SetHeaderIs
<1> HIDE DEF h1
<1>8. h2 = [h1 EXCEPT !.last = IF c = @ THEN a ELSE @]
    BY <1>7
<1> HIDE DEF l
<1>9. SameFrame(h1, h2) /\ h2.last = l /\ h2.free = h1.free /\ h2.mem = h1.mem
    <2>1. IsHeap(h1)
        BY <1>7 DEF SameFrame
    <2> QED
        BY <2>1, SetLastIs
<1> HIDE DEF h2
<1>10. /\ SameFrame(h2, g) /\ g.last = h2.last /\ g.free = h2.free
       /\ \A w \in Words : w \notin S => g.mem[w] = h2.mem[w]
    <2>1. IsHeap(h2)
        BY <1>9 DEF SameFrame
    <2> QED
        BY <2>1, ForgetIs
<1> HIDE DEF g
<1>11. /\ SameFrame(h, g) /\ g.free = h.free /\ g.last = l
       /\ g.mem[a] = Tag(n, u) /\ g.mem[a + n - 1] = Tag(n, u)
       /\ \A w \in Words : w # a /\ w # a + n - 1 /\ w \notin S => g.mem[w] = h.mem[w]
    <2>1. SameFrame(h, g) /\ g.free = h.free /\ g.last = l
        BY <1>7, <1>9, <1>10 DEF SameFrame
    <2>2. a \notin S /\ a + n - 1 \notin S
        BY <1>2, <1>3 DEF k
    <2> QED
        BY <1>2, <1>3, <1>7, <1>9, <1>10, <2>1, <2>2
<1>12. Size(g, a) = n /\ Used(g, a) = u
    BY <1>11, TagIs DEF Size, Used
<1>13. TaggedAt(g, a)
    BY <1>1, <1>3, <1>11, <1>12 DEF TaggedAt
<1>14. ASSUME NEW b \in B \ {a, c} PROVE Stands(h, g, b)
    <2> SUFFICES ASSUME NEW w \in Nat, b <= w, w < b + Size(h, b)
                 PROVE  g.mem[w] = h.mem[w]
        BY DEF Stands
    <2>1. b + Size(h, b) <= a \/ c + k <= b
        BY <1>5
    <2>2. b \in Nat /\ Size(h, b) \in Nat /\ w \in Words
        BY Bounds, InWords
    <2>3. w # a /\ w # a + n - 1
        BY <1>2, <1>3, <2>1, <2>2
    <2>4. w \notin S
        BY <1>2, <2>1, <2>2 DEF k
    <2> QED
        BY <1>11, <2>2, <2>3, <2>4
<1>15. \A b \in B \ {a, c} : Size(g, b) = Size(h, b) /\ TaggedAt(g, b)
    <2> SUFFICES ASSUME NEW b \in B \ {a, c}
                 PROVE  Size(g, b) = Size(h, b) /\ TaggedAt(g, b)
        OBVIOUS
    <2>1. /\ Size(g, b) = Size(h, b) /\ Used(g, b) = Used(h, b)
          /\ g.mem[b] = h.mem[b] /\ g.mem[b + Size(h, b) - 1] = h.mem[b + Size(h, b) - 1]
        BY <1>14, StandsIs
    <2> QED
        BY <2>1 DEF Tiled, TaggedAt
<1>16. \A b \in B \ {c} : g.mem[b + 1] = h.mem[b + 1] /\ g.mem[b + 2] = h.mem[b + 2]
    <2>1. ASSUME NEW b \in B \ {a, c}
          PROVE  g.mem[b + 1] = h.mem[b + 1] /\ g.mem[b + 2] = h.mem[b + 2]
        BY <1>14, Bounds DEF Stands
    <2>2. g.mem[a + 1] = h.mem[a + 1] /\ g.mem[a + 2] = h.mem[a + 2]
        <3>1. /\ a + 1 # a /\ a + 1 # a + n - 1 /\ a + 1 \notin S
              /\ a + 2 # a /\ a + 2 # a + n - 1 /\ a + 2 \notin S
            BY <1>2, <1>3
        <3>2. a + 1 \in Words /\ a + 2 \in Words
            BY <1>2, InWords DEF s
        <3> QED
            BY <1>11, <3>1, <3>2
    <2> QED
        BY <2>1, <2>2
<1>17. Tiled(g, B \ {c})
    <2>1. /\ IsHeap(g) /\ g.brk = h.brk /\ g.first = 1
          /\ g.brk \in Nat /\ g.brk % 2 = 1 /\ g.brk + 1 <= MaxHeap
          /\ B \ {c} \subseteq Nat \ {0} /\ 1 \in B
        BY <1>11 DEF Tiled, SameFrame
    <2>2. 1 \in B \ {c}
        BY <1>2, <2>1
    <2>3. ASSUME NEW x \in B \ {c}
          PROVE  x \in Nat /\ x % 2 = 1 /\ x <= h.last /\ (x # a => x + Size(h, x) <= a \/ c + k <= x)
        BY <1>5, Bounds DEF Tiled
    <2>4. g.last \in B \ {c} /\ \A x \in B \ {c} : x <= g.last
        <3>1. CASE c = h.last
            BY <1>2, <1>11, <2>3, <3>1, Bounds DEF l
        <3>2. CASE c # h.last
            BY <1>11, <2>3, <3>2 DEF l, Tiled
        <3> QED
            BY <3>1, <3>2
    <2>5. ASSUME NEW x \in B \ {c}
          PROVE  /\ TaggedAt(g, x)
                 /\ x + Size(g, x) = g.brk \/ x + Size(g, x) \in B \ {c}
                 /\ x + Size(g, x) <= g.brk
                 /\ \A y \in B \ {c} : y > x => y >= x + Size(g, x)
        <3>1. CASE x = a
            <4>1. x + Size(g, x) = c + k
                BY <1>3, <1>12, <3>1
            <4>2. c + k = g.brk \/ c + k \in B \ {c}
                BY <1>2, <2>1 DEF Tiled, k
            <4>3. \A y \in B \ {c} : y > x => y >= c + k
                BY <1>2, <2>3, <3>1, Bounds
            <4> QED
                BY <1>2, <1>13, <2>1, <3>1, <4>1, <4>2, <4>3
        <3>2. CASE x # a
            <4>1. /\ x + Size(g, x) = h.brk \/ x + Size(g, x) \in B
                  /\ x + Size(g, x) <= h.brk
                  /\ \A y \in B : y > x => y >= x + Size(g, x)
                  /\ TaggedAt(g, x) /\ Size(g, x) = Size(h, x)
                BY <1>15, <3>2 DEF Tiled
            <4>2. x + Size(g, x) # c
                BY <1>2, <2>3, <3>2, <4>1, Bounds
            <4> QED
                BY <2>1, <4>1, <4>2
        <3> QED
            BY <3>1, <3>2
    <2> HIDE DEF TaggedAt
    <2> QED
        BY <2>1, <2>2, <2>3, <2>4, <2>5 DEF Tiled
<1>18. Merged(h, g, B, a, c)
    BY <1>1, <1>11, <1>12, <1>14, <1>16, <1>17 DEF Merged, l, n, s, k
<1> QED
    BY <1>6, <1>8, <1>18 DEF g

LEMMA ThreeFields ==
    ASSUME NEW h, IsHeap(h), NEW x, NEW y, NEW z
    PROVE  [h EXCEPT !.brk = x, !.first = y, !.last = z] =
           [mem |-> h.mem, brk |-> x, first |-> y, last |-> z, free |-> h.free]
<1> DEFINE r == [h EXCEPT !.brk = x]
           t == [r EXCEPT !.first = y]
           u == [t EXCEPT !.last = z]
<1>1. [h EXCEPT !.brk = x, !.first = y, !.last = z] = u
    OBVIOUS
<1>2. r = [mem |-> h.mem, brk |-> x, first |-> h.first, last |-> h.last, free |-> h.free]
    BY DEF IsHeap
<1> HIDE DEF r
<1>3. t = [mem |-> h.mem, brk |-> x, first |-> y, last |-> h.last, free |-> h.free]
    BY <1>2
<1> HIDE DEF t
<1>4. u = [mem |-> h.mem, brk |-> x, first |-> y, last |-> z, free |-> h.free]
    BY <1>3
<1> QED
    BY <1>1, <1>4

\* mem_sbrk made room for a block of n words at the break.
Extended(h, g, B, n) ==
    /\ Tiled(g, B \cup {h.brk}) /\ h.brk \notin B
    /\ g.free = h.free
    /\ Size(g, h.brk) = n /\ Used(g, h.brk)
    /\ \A b \in B : Stands(h, g, b)

LEMMA ExtendIs ==
    ASSUME NEW h, NEW B, Tiled(h, B), NEW n \in Nat, n % 2 = 0, n >= 4, ~ SbrkFails(h, n)
    PROVE  Extended(h, Extend(h, n), B, n)
<1> DEFINE u == TRUE
           b == h.brk
           e == b + n
           f == IF h.first = Null THEN b ELSE h.first
           h1 == [h EXCEPT !.brk = e, !.first = IF @ = Null THEN b ELSE @, !.last = b]
           g  == SetHeader(h1, b, n, u)
<1>1. u \in BOOLEAN /\ u = TRUE
    OBVIOUS
<1>2. /\ b \in Nat /\ b % 2 = 1 /\ b >= 1 /\ MaxHeap \in Nat /\ MaxHeap % 2 = 0
      /\ e = b + n /\ e \in Nat /\ e % 2 = 1 /\ e <= MaxHeap
    <2>1. b \in Nat /\ b % 2 = 1 /\ MaxHeap \in Nat /\ MaxHeap % 2 = 0 /\ e <= MaxHeap
        BY HeapAssumption DEF Tiled, SbrkFails
    <2> HIDE DEF b
    <2> QED
        BY <2>1
<1>3. e + 1 <= MaxHeap
    BY <1>2
<1>4. b \in Words /\ b + n - 1 \in Words
    BY <1>2, <1>3 DEF Words
<1>5. IsHeap(h)
    BY DEF Tiled
<1>6. g = Extend(h, n)
    BY DEF Extend
<1> HIDE DEF u, b, e
<1>7. h1 = [mem |-> h.mem, brk |-> e, first |-> f, last |-> b, free |-> h.free]
    <2>1. h1 = [h EXCEPT !.brk = e, !.first = f, !.last = b]
        OBVIOUS
    <2> HIDE DEF f, h1
    <2> QED
        BY <1>5, <2>1, ThreeFields
<1> HIDE DEF f, h1
<1>8. /\ h1.mem = h.mem /\ h1.brk = e /\ h1.first = f /\ h1.last = b /\ h1.free = h.free
      /\ IsHeap(h1)
    <2>1. /\ h1.mem = h.mem /\ h1.brk = e /\ h1.first = f /\ h1.last = b /\ h1.free = h.free
        BY <1>7
    <2>2. h1 = [mem |-> h1.mem, brk |-> h1.brk, first |-> h1.first, last |-> h1.last, free |-> h1.free]
        BY <1>7, <2>1
    <2> QED
        BY <1>5, <2>1, <2>2 DEF IsHeap
<1>9. /\ SameFrame(h1, g) /\ g.last = h1.last /\ g.free = h1.free
      /\ \A w \in Words : g.mem[w] = IF w = b \/ w = b + n - 1 THEN Tag(n, u) ELSE h1.mem[w]
    BY <1>4, <1>8, SetHeaderIs
<1> HIDE DEF g
<1>10. /\ IsHeap(g) /\ g.brk = e /\ g.first = f /\ g.last = b /\ g.free = h.free
       /\ g.mem[b] = Tag(n, u) /\ g.mem[b + n - 1] = Tag(n, u)
       /\ \A w \in Words : w < b => g.mem[w] = h.mem[w]
    BY <1>2, <1>4, <1>8, <1>9 DEF SameFrame, Words
<1>11. Size(g, b) = n /\ Used(g, b) = u
    BY <1>10, TagIs DEF Size, Used
<1>12. TaggedAt(g, b)
    BY <1>1, <1>10, <1>11 DEF TaggedAt
<1>13. ASSUME NEW x \in B
       PROVE  Stands(h, g, x) /\ Size(g, x) = Size(h, x) /\ Used(g, x) = Used(h, x) /\ TaggedAt(g, x)
    <2>1. Stands(h, g, x)
        <3> SUFFICES ASSUME NEW w \in Nat, x <= w, w < x + Size(h, x)
                     PROVE  g.mem[w] = h.mem[w]
            BY DEF Stands
        <3>1. w \in Words /\ w < b
            BY InWords DEF b
        <3> QED
            BY <1>10, <3>1
    <2>2. /\ Size(g, x) = Size(h, x) /\ Used(g, x) = Used(h, x)
          /\ g.mem[x] = h.mem[x] /\ g.mem[x + Size(h, x) - 1] = h.mem[x + Size(h, x) - 1]
        BY <2>1, StandsIs
    <2> QED
        BY <2>1, <2>2 DEF Tiled, TaggedAt
<1>14. \A x \in B : x \in Nat /\ x + Size(g, x) <= b /\ x + 4 <= b
    BY <1>13, Bounds DEF b
<1>15. b \notin B
    BY <1>2, <1>14
<1>16. Tiled(g, B \cup {b})
    <2>1. B \cup {b} \subseteq Nat \ {0} /\ B \cup {b} # {}
        <3>1. B \subseteq Nat \ {0}
            BY DEF Tiled
        <3>2. b \in Nat \ {0}
            BY <1>2
        <3> QED
            BY <3>1, <3>2
    <2>2. f = 1 /\ 1 \in B \cup {b}
        BY DEF Tiled, f, b, Null
    <2>3. ASSUME NEW x \in B \cup {b}
          PROVE  /\ x % 2 = 1 /\ TaggedAt(g, x)
                 /\ x + Size(g, x) = e \/ x + Size(g, x) \in B \cup {b}
                 /\ x + Size(g, x) <= e
                 /\ x <= b
                 /\ \A y \in B \cup {b} : y > x => y >= x + Size(g, x)
        <3>1. CASE x = b
            BY <1>2, <1>11, <1>12, <1>14, <3>1
        <3>2. CASE x \in B
            <4>1. /\ x % 2 = 1
                  /\ x + Size(h, x) = b \/ x + Size(h, x) \in B
                  /\ \A y \in B : y > x => y >= x + Size(h, x)
                BY <3>2 DEF Tiled, b
            <4> QED
                BY <1>2, <1>13, <1>14, <3>2, <4>1, Bounds
        <3> QED
            BY <3>1, <3>2
    <2> HIDE DEF TaggedAt
    <2> QED
        BY <1>2, <1>3, <1>10, <2>1, <2>2, <2>3 DEF Tiled
<1>17. Extended(h, g, B, n)
    BY <1>1, <1>10, <1>11, <1>13, <1>15, <1>16 DEF Extended, b
<1> QED
    BY <1>6, <1>17

------------------------------------------------------------------------------
(* The walks find B and F *)

LEMMA HalfHeap ==
    /\ MaxHeap \in Nat /\ MaxHeap \div 2 \in Nat /\ MaxHeap = 2 * (MaxHeap \div 2)
    /\ MaxLength = MaxHeap \div 2 + 1
    BY HeapAssumption DEF MaxLength

\* Nodes are odd words of the heap, so a list of different ones is short.
LEMMA FewNodes ==
    ASSUME NEW h, NEW F, NEW n, Listed(h, F, n)
    PROVE  n \in Nat /\ n < MaxLength
<1> DEFINE M == MaxHeap \div 2
           f == [k \in 1 .. n |-> (F[k] + 1) \div 2]
<1>1. n \in Nat /\ M \in Nat /\ MaxHeap = 2 * M /\ MaxLength = M + 1
    BY HalfHeap DEF Listed
<1> HIDE DEF M
<1>2. ASSUME NEW k \in 1 .. n
      PROVE  F[k] \in Nat /\ f[k] \in 1 .. M /\ F[k] = 2 * f[k] - 1
    <2>1. F[k] \in Nat /\ F[k] % 2 = 1 /\ F[k] + 2 < MaxHeap
        BY DEF Listed
    <2>2. f[k] = (F[k] + 1) \div 2
        OBVIOUS
    <2> HIDE DEF f
    <2>3. f[k] \in Nat /\ 2 * f[k] = F[k] + 1
        BY <2>1, <2>2
    <2> QED
        BY <1>1, <2>1, <2>3
<1>3. f \in [1 .. n -> 1 .. M]
    BY <1>2
<1>4. \A j, k \in 1 .. n : f[j] = f[k] => j = k
    BY <1>2 DEF Listed
<1> HIDE DEF f
<1>5. /\ IsFiniteSet(1 .. n) /\ Cardinality(1 .. n) = n
      /\ IsFiniteSet(1 .. M) /\ Cardinality(1 .. M) = M
    BY <1>1, FS_Interval
<1>6. ~(M < n)
    <2>1. SUFFICES ASSUME M < n PROVE FALSE
        OBVIOUS
    <2>2. \E j, k \in 1 .. n : j # k /\ f[j] = f[k]
        BY <1>3, <1>5, <2>1, FS_PigeonHole
    <2> QED
        BY <1>4, <2>2
<1> QED
    BY <1>1, <1>6

LEMMA FreeNodeIs ==
    ASSUME NEW h, NEW F, NEW n, Listed(h, F, n)
    PROVE  \A k \in 1 .. MaxLength : FreeNode(h)[k] = IF k <= n THEN F[k] ELSE Null
<1> DEFINE After(p) == IF p = Null THEN Null ELSE Right(h, p)
           Walks(f) == f = [k \in 1 .. MaxLength |-> IF k = 1 THEN h.free ELSE After(f[k - 1])]
           P == [k \in 1 .. MaxLength |-> IF k <= n THEN F[k] ELSE Null]
<1>1. n \in Nat /\ MaxLength \in Nat /\ n < MaxLength
    BY FewNodes, HalfHeap
<1>2. FreeNode(h) = CHOOSE f : Walks(f)
    BY DEF FreeNode
<1>3. \A k \in 1 .. n : /\ F[k] # Null
                        /\ Right(h, F[k]) = IF k = n THEN Null ELSE F[k + 1]
    <2>1. \A k \in 1 .. n : Right(h, F[k]) = IF k = n THEN Null ELSE F[k + 1]
        BY DEF Listed
    <2>2. \A k \in 1 .. n : F[k] # Null
        BY ListedNodes
    <2> QED
        BY <2>1, <2>2
<1>4. h.free = IF n = 0 THEN Null ELSE F[1]
    BY DEF Listed
<1>5. ASSUME NEW k \in 1 .. MaxLength
      PROVE  P[k] = IF k = 1 THEN h.free ELSE After(P[k - 1])
    <2>1. P[k] = IF k <= n THEN F[k] ELSE Null
        OBVIOUS
    <2>2. CASE k = 1
        BY <1>1, <1>4, <2>1, <2>2
    <2>3. CASE k # 1
        <3>1. k - 1 \in 1 .. MaxLength
            BY <1>1, <2>3
        <3>2. P[k - 1] = IF k - 1 <= n THEN F[k - 1] ELSE Null
            BY <3>1
        <3> HIDE DEF P
        <3>3. CASE k - 1 <= n
            <4>1. k - 1 \in 1 .. n
                BY <1>1, <3>1, <3>3
            <4>2. P[k - 1] = F[k - 1] /\ F[k - 1] # Null
                BY <1>3, <3>2, <3>3, <4>1
            <4>3. Right(h, F[k - 1]) = IF k - 1 = n THEN Null ELSE F[(k - 1) + 1]
                BY <1>3, <4>1
            <4> QED
                BY <1>1, <2>1, <2>3, <3>3, <4>1, <4>2, <4>3
        <3>4. CASE ~(k - 1 <= n)
            BY <1>1, <2>1, <2>3, <3>2, <3>4
        <3> QED
            BY <3>3, <3>4
    <2> QED
        BY <2>2, <2>3
<1>6. Walks(P)
    <2>1. P = [k \in 1 .. MaxLength |-> P[k]]
        OBVIOUS
    <2> HIDE DEF P, After
    <2> QED
        BY <1>5, <2>1
<1> DEFINE f == FreeNode(h)
<1>7. Walks(f)
    <2> HIDE DEF Walks, P
    <2> QED
        BY <1>2, <1>6
<1>8. \A k \in 1 .. MaxLength : f[k] = IF k = 1 THEN h.free ELSE After(f[k - 1])
    <2> HIDE DEF f, After
    <2> QED
        BY <1>7
<1> HIDE DEF f, Walks, After
<1>9. \A k \in 1 .. MaxLength : f[k] = P[k]
    <2> DEFINE Wrong == {k \in 1 .. MaxLength : f[k] # P[k]}
    <2>1. SUFFICES ASSUME Wrong # {} PROVE FALSE
        OBVIOUS
    <2>2. Wrong \in SUBSET Nat
        OBVIOUS
    <2> HIDE DEF Wrong, P
    <2>3. PICK k \in Wrong : \A j \in Wrong : k <= j
        BY <2>1, <2>2, LeastNat
    <2>4. k \in 1 .. MaxLength /\ f[k] # P[k]
        BY <2>3 DEF Wrong
    <2>5. k # 1
        BY <1>5, <1>8, <2>4
    <2>6. k - 1 \in 1 .. MaxLength
        BY <1>1, <2>4, <2>5
    <2>7. f[k - 1] = P[k - 1]
        BY <2>3, <2>4, <2>6 DEF Wrong
    <2> QED
        BY <1>5, <1>8, <2>4, <2>5, <2>7
<1> QED
    BY <1>9 DEF f

\* The block before a.
LEMMA Predecessor ==
    ASSUME NEW h, NEW B, Tiled(h, B), NEW a \in B, a # 1
    PROVE  \E l \in B : l < a /\ l + Size(h, l) = a
<1>1. a \in Nat /\ a >= 1 /\ a < h.brk /\ h.brk \in Nat
    BY Bounds
<1>2. PICK l \in B : l <= a - 1 /\ a - 1 < l + Size(h, l)
    <2>1. a - 1 \in Nat /\ 1 <= a - 1 /\ a - 1 < h.brk
        BY <1>1
    <2> QED
        BY <2>1, Covered
<1>3. l < a
    BY <1>1, <1>2, Bounds
<1>4. l + Size(h, l) <= a
    BY <1>3 DEF Tiled
<1> QED
    BY <1>1, <1>2, <1>3, <1>4, Bounds

\* The block after a.
LEMMA Successor ==
    ASSUME NEW h, NEW B, Tiled(h, B), NEW a \in B
    PROVE  /\ a < h.last => a + Size(h, a) \in B
           /\ a = h.last => a + Size(h, a) = h.brk
<1>1. h.last \in B /\ h.last \in Nat
    BY DEF Tiled
<1>2. h.last < h.brk
    BY <1>1, Bounds
<1>3. a + Size(h, a) = h.brk \/ a + Size(h, a) \in B
    BY DEF Tiled
<1>4. a < h.last => a + Size(h, a) <= h.last
    BY <1>1 DEF Tiled
<1>5. \A b \in B : b <= h.last
    BY DEF Tiled
<1> QED
    BY <1>1, <1>2, <1>3, <1>4, <1>5, Bounds

LEMMA BlocksAre ==
    ASSUME NEW h, NEW B, Tiled(h, B)
    PROVE  Blocks(h) = B
<1> DEFINE After(p) == IF p = Null \/ p >= h.last THEN Null ELSE p + Size(h, p)
           Step(b, k) == b[k] = IF k = 1 THEN h.first ELSE After(b[k - 1])
           Walks(b) == b = [k \in 1 .. MaxLength |-> IF k = 1 THEN h.first ELSE After(b[k - 1])]
           Partly(N) == \E b : \A k \in 1 .. N : Step(b, k)
<1>1. BlockAt(h) = CHOOSE b : Walks(b)
    BY DEF BlockAt
<1> HIDE DEF After
<1>2. \A N \in Nat : Partly(N)
    <2> DEFINE Stuck == {N \in Nat : ~ Partly(N)}
    <2>1. SUFFICES ASSUME Stuck # {} PROVE FALSE
        OBVIOUS
    <2>2. Stuck \in SUBSET Nat
        OBVIOUS
    <2> HIDE DEF Stuck, Partly
    <2>3. PICK N \in Stuck : \A j \in Stuck : N <= j
        BY <2>1, <2>2, LeastNat
    <2>4. N \in Nat /\ ~ Partly(N)
        BY <2>3 DEF Stuck
    <2>5. N # 0
        BY <2>4 DEF Partly
    <2>6. N - 1 \in Nat /\ Partly(N - 1)
        BY <2>3, <2>4, <2>5 DEF Stuck
    <2>7. PICK b : \A k \in 1 .. N - 1 : Step(b, k)
        BY <2>6 DEF Partly
    <2> DEFINE v == IF N = 1 THEN h.first ELSE After(b[N - 1])
               c == [k \in 1 .. N |-> IF k = N THEN v ELSE b[k]]
    <2>8. c[N] = v /\ \A k \in 1 .. N - 1 : c[k] = b[k]
        BY <2>4, <2>5
    <2> HIDE DEF c
    <2>9. ASSUME NEW k \in 1 .. N PROVE Step(c, k)
        <3>1. CASE k = N
            <4>1. N # 1 => c[N - 1] = b[N - 1]
                BY <2>4, <2>5, <2>8
            <4> QED
                BY <2>8, <3>1, <4>1
        <3>2. CASE k # N
            <4>1. k \in 1 .. N - 1 /\ (k # 1 => k - 1 \in 1 .. N - 1)
                BY <2>4, <3>2
            <4> QED
                BY <2>7, <2>8, <4>1
        <3> QED
            BY <3>1, <3>2
    <2> QED
        BY <2>4, <2>9 DEF Partly
<1>3. \E b : Walks(b)
    <2>1. MaxLength \in Nat
        BY HalfHeap
    <2>2. PICK b : \A k \in 1 .. MaxLength : Step(b, k)
        BY <1>2, <2>1
    <2> DEFINE c == [k \in 1 .. MaxLength |-> b[k]]
    <2>3. \A k \in 1 .. MaxLength : Step(c, k)
        <3> SUFFICES ASSUME NEW k \in 1 .. MaxLength PROVE Step(c, k)
            OBVIOUS
        <3>1. c[k] = b[k] /\ (k # 1 => c[k - 1] = b[k - 1])
            BY <2>1
        <3> HIDE DEF c
        <3> QED
            BY <2>2, <3>1
    <2>4. c = [k \in 1 .. MaxLength |-> c[k]]
        OBVIOUS
    <2> HIDE DEF c
    <2>5. Walks(c)
        BY <2>3, <2>4
    <2> QED
        BY <2>5
<1> DEFINE b == BlockAt(h)
<1>4. Walks(b)
    <2> HIDE DEF Walks
    <2> QED
        BY <1>1, <1>3
<1>5. \A k \in 1 .. MaxLength : Step(b, k)
    <2> HIDE DEF b
    <2> QED
        BY <1>4
<1> HIDE DEF b, Walks
<1>6. /\ MaxLength \in Nat /\ MaxHeap \in Nat /\ MaxHeap = 2 * MaxLength - 2
    BY HalfHeap
<1> DEFINE Placed(k) == b[k] = Null \/ (b[k] \in B /\ b[k] >= 2 * k - 1)
<1>7. \A k \in 1 .. MaxLength : Placed(k)
    <2> DEFINE Wrong == {k \in 1 .. MaxLength : ~ Placed(k)}
    <2>1. SUFFICES ASSUME Wrong # {} PROVE FALSE
        OBVIOUS
    <2>2. Wrong \in SUBSET Nat
        OBVIOUS
    <2> HIDE DEF Wrong
    <2>3. PICK k \in Wrong : \A j \in Wrong : k <= j
        BY <2>1, <2>2, LeastNat
    <2>4. k \in 1 .. MaxLength /\ ~ Placed(k) /\ Step(b, k)
        BY <1>5, <2>3 DEF Wrong
    <2>5. k # 1
        <3>1. h.first = Null \/ (h.first = 1 /\ 1 \in B)
            BY DEF Tiled
        <3> QED
            BY <2>4, <3>1
    <2>6. k - 1 \in 1 .. MaxLength /\ Placed(k - 1)
        <3>1. k - 1 \in 1 .. MaxLength
            BY <1>6, <2>4, <2>5
        <3>2. k - 1 \notin Wrong
            BY <2>3, <2>4
        <3> QED
            BY <3>1, <3>2 DEF Wrong
    <2>7. b[k] = After(b[k - 1])
        BY <2>4, <2>5
    <2> DEFINE p == b[k - 1]
    <2>8. p # Null /\ ~(p >= h.last) /\ b[k] = p + Size(h, p)
        BY <2>4, <2>7 DEF After
    <2>9. p \in B /\ p >= 2 * (k - 1) - 1
        BY <2>6, <2>8
    <2> HIDE DEF p
    <2>10. p < h.last
        <3>1. h.last \in Nat /\ p \in Nat
            BY <2>9 DEF Tiled
        <3> QED
            BY <2>8, <3>1
    <2>11. b[k] \in B /\ b[k] >= 2 * k - 1
        BY <2>4, <2>8, <2>9, <2>10, Successor, Bounds
    <2> QED
        BY <2>4, <2>11
<1>8. ASSUME NEW a \in B
      PROVE  \E k \in 1 .. MaxLength : b[k] = a
    <2> DEFINE Missed == {x \in B : ~ \E k \in 1 .. MaxLength : b[k] = x}
    <2>1. SUFFICES ASSUME Missed # {} PROVE FALSE
        OBVIOUS
    <2>2. Missed \in SUBSET Nat
        BY DEF Tiled
    <2> HIDE DEF Missed
    <2>3. PICK x \in Missed : \A y \in Missed : x <= y
        BY <2>1, <2>2, LeastNat
    <2>4. x \in B /\ ~ \E k \in 1 .. MaxLength : b[k] = x
        BY <2>3 DEF Missed
    <2>5. x # 1
        <3>1. b[1] = h.first /\ 1 \in 1 .. MaxLength
            BY <1>5, <1>6, HalfHeap
        <3>2. h.first = 1
            BY <2>4 DEF Tiled
        <3> QED
            BY <2>4, <3>1, <3>2
    <2>6. PICK l \in B : l < x /\ l + Size(h, l) = x
        BY <2>4, <2>5, Predecessor
    <2>7. l \notin Missed
        BY <2>3, <2>4, <2>6, Bounds
    <2>8. PICK k \in 1 .. MaxLength : b[k] = l
        BY <2>7 DEF Missed
    <2>9. l # Null /\ l >= 2 * k - 1 /\ l \in Nat /\ l + 4 < MaxHeap
        BY <1>7, <2>6, <2>8, Bounds DEF Null
    <2>10. k + 1 \in 1 .. MaxLength /\ k + 1 # 1 /\ (k + 1) - 1 = k
        BY <1>6, <2>9
    <2>11. b[k + 1] = After(b[k])
        BY <1>5, <2>10
    <2>12. ~(l >= h.last)
        <3>1. x <= h.last /\ h.last \in Nat /\ x \in Nat
            BY <2>4 DEF Tiled
        <3> QED
            BY <2>6, <2>9, <3>1
    <2>13. b[k + 1] = x
        BY <2>6, <2>8, <2>9, <2>11, <2>12 DEF After
    <2> QED
        BY <2>4, <2>10, <2>13
<1>9. Null \notin B
    BY DEF Tiled, Null
<1>10. Blocks(h) = {b[k] : k \in 1 .. MaxLength} \ {Null}
    BY DEF Blocks, b
<1> HIDE DEF Step
<1> QED
    BY <1>7, <1>8, <1>9, <1>10

------------------------------------------------------------------------------
(* The whole heap *)

Shape(h, B, F, n) == Tiled(h, B) /\ Listed(h, F, n) /\ Nodes(F, n) = FreeIn(h, B)

\* No two free blocks of S are neighbours.
Separate(h, S) == \A x \in S : x + Size(h, x) \notin S

Good(h, B, F, n) == Shape(h, B, F, n) /\ Separate(h, FreeIn(h, B))

\* What the allocator keeps true of the heap between its calls.
Sound(h) == \E F, n : Good(h, Blocks(h), F, n)

UsedBlocks(h) == UsedIn(h, Blocks(h))

LEMMA GoodIsSound ==
    ASSUME NEW h, NEW B, NEW F, NEW n, Good(h, B, F, n)
    PROVE  Sound(h) /\ Blocks(h) = B
    BY BlocksAre DEF Good, Shape, Sound

LEMMA InitSound == Sound(InitHeap) /\ Blocks(InitHeap) = {}
<1> DEFINE F == <<>>
<1>1. Tiled(InitHeap, {}) /\ InitHeap.free = Null
    BY InitTiled
<1>2. Listed(InitHeap, F, 0)
    BY <1>1 DEF Listed
<1>3. Nodes(F, 0) = FreeIn(InitHeap, {}) /\ FreeIn(InitHeap, {}) = {}
    BY DEF Nodes, FreeIn
<1>4. Good(InitHeap, {}, F, 0)
    BY <1>1, <1>2, <1>3 DEF Good, Shape, Separate
<1> QED
    BY <1>4, GoodIsSound

(* The block at a has been found, and is neither in the free list nor       *)
(* marked yet; the other used blocks are untouched.                         *)
Taken(h, t, B, a, s, C, G, m) ==
    /\ Tiled(t, C) /\ Listed(t, G, m) /\ a \in C
    /\ Nodes(G, m) = FreeIn(t, C) \ {a}
    /\ Size(t, a) >= s /\ ~Used(t, a)
    /\ UsedIn(t, C) = UsedIn(h, B)
    /\ \A x \in UsedIn(h, B) : Stands(h, t, x)
    /\ Separate(t, FreeIn(t, C) \ {a})

LEMMA TakeWholeGives ==
    ASSUME NEW h, NEW B, NEW F, NEW n, Good(h, B, F, n), NEW i \in 1 .. n,
           NEW s, s <= Size(h, F[i])
    PROVE  Taken(h, TakeWhole(h, F[i]), B, F[i], s, B, Drop(F, n, i), n - 1)
<1> DEFINE a == F[i]
           t == TakeWhole(h, a)
           G == Drop(F, n, i)
<1>1. /\ Tiled(h, B) /\ IsHeap(h) /\ Listed(h, F, n) /\ n \in Nat
      /\ Nodes(F, n) = FreeIn(h, B) /\ Separate(h, FreeIn(h, B))
      /\ \A j, k \in 1 .. n : F[j] = F[k] => j = k
    BY DEF Good, Shape, Tiled, Listed
<1>2. a \in FreeIn(h, B)
    BY <1>1, ListedNodes
<1>3. Unlinked(h, t, F, n, i)
    BY <1>1, TakeWholeIs
<1> HIDE DEF t
<1>4. Listed(t, G, n - 1) /\ Nodes(G, n - 1) = FreeIn(h, B) \ {a}
    BY <1>1, <1>3, UnlinkedIs, DropNodes
<1> HIDE DEF a, G
<1>5. Relinks(h, t, FreeIn(h, B) \ {a}) /\ FreeIn(h, B) \ {a} \in SUBSET B
    BY <1>1, <1>3 DEF Unlinked, FreeIn, a
<1>6. /\ Tiled(t, B)
      /\ \A x \in B : Size(t, x) = Size(h, x) /\ Used(t, x) = Used(h, x)
      /\ \A x \in B \ (FreeIn(h, B) \ {a}) : Stands(h, t, x)
    BY <1>1, <1>5, RelinksKeep
<1>7. FreeIn(t, B) = FreeIn(h, B) /\ UsedIn(t, B) = UsedIn(h, B)
    BY <1>6 DEF FreeIn, UsedIn
<1>8. Separate(t, FreeIn(t, B) \ {a})
    BY <1>1, <1>6, <1>7 DEF Separate, FreeIn
<1>9. Size(t, a) >= s /\ ~Used(t, a) /\ a \in B
    BY <1>2, <1>6 DEF FreeIn, a
<1>10. \A x \in UsedIn(h, B) : Stands(h, t, x)
    BY <1>6 DEF UsedIn, FreeIn
<1> QED
    BY <1>4, <1>6, <1>7, <1>8, <1>9, <1>10 DEF Taken, a, t, G

LEMMA TakeAndSplitGives ==
    ASSUME NEW h, NEW B, NEW F, NEW n, Good(h, B, F, n), NEW i \in 1 .. n,
           NEW s \in Nat, s % 2 = 0, s >= 4, s + 4 <= Size(h, F[i])
    PROVE  Taken(h, TakeAndSplit(h, F[i], s), B, F[i], s, B \cup {F[i] + s},
                 Push(Drop(F, n, i), n - 1, F[i] + s), (n - 1) + 1)
<1> DEFINE a == F[i]
           c == a + s
           C == B \cup {c}
           cut == SetHeader(SetHeader(h, a, s, FALSE), c, Size(h, a) - s, FALSE)
           g == [cut EXCEPT !.last = IF c > @ THEN c ELSE @]
           g1 == RemoveFreeNode(g, a)
           D == Drop(F, n, i)
           t == AddFreeNode(g1, c)
           G == Push(D, n - 1, c)
<1>1. /\ Tiled(h, B) /\ IsHeap(h) /\ Listed(h, F, n) /\ n \in Nat
      /\ Nodes(F, n) = FreeIn(h, B) /\ Separate(h, FreeIn(h, B))
      /\ \A j, k \in 1 .. n : F[j] = F[k] => j = k
    BY DEF Good, Shape, Tiled, Listed
<1>2. \A k \in 1 .. n : F[k] \in FreeIn(h, B)
    BY <1>1, ListedNodes
<1>3. a \in B /\ ~Used(h, a)
    BY <1>2 DEF FreeIn
<1>4. Split(h, g, B, a, s)
    <2> HIDE DEF a
    <2> QED
        BY <1>1, <1>3, SplitIs DEF a
<1>5. t = TakeAndSplit(h, a, s)
    BY DEF TakeAndSplit
<1> HIDE DEF a, c, cut, g, t
<1>6. /\ Tiled(g, C) /\ IsHeap(g) /\ c \notin B /\ g.free = h.free /\ c = a + s
      /\ Size(g, a) = s /\ ~Used(g, a) /\ Size(g, c) = Size(h, a) - s /\ ~Used(g, c)
      /\ \A b \in B \ {a} : Stands(h, g, b)
      /\ \A b \in B : g.mem[b + 1] = h.mem[b + 1] /\ g.mem[b + 2] = h.mem[b + 2]
    BY <1>4 DEF Split, SameFrame, c
<1>7. Listed(g, F, n)
    <2>1. \A k \in 1 .. n : /\ g.mem[F[k] + 1] = h.mem[F[k] + 1]
                            /\ g.mem[F[k] + 2] = h.mem[F[k] + 2]
        BY <1>2, <1>6 DEF FreeIn
    <2> QED
        BY <1>1, <1>6, <2>1, ListedStays
<1>8. Unlinked(g, g1, F, n, i)
    BY <1>6, <1>7, RemoveIs DEF a
<1> HIDE DEF g1
<1>9. Listed(g1, D, n - 1) /\ Nodes(D, n - 1) = FreeIn(h, B) \ {a}
    BY <1>1, <1>7, <1>8, UnlinkedIs, DropNodes DEF a
<1> HIDE DEF D
<1>10. Relinks(g, g1, FreeIn(h, B) \ {a}) /\ FreeIn(h, B) \ {a} \in SUBSET C
    BY <1>1, <1>8 DEF Unlinked, FreeIn, a
<1>11. /\ Tiled(g1, C) /\ IsHeap(g1)
       /\ \A x \in C : Size(g1, x) = Size(g, x) /\ Used(g1, x) = Used(g, x)
       /\ \A x \in C \ (FreeIn(h, B) \ {a}) : Stands(g, g1, x)
    <2>1. IsHeap(g1)
        BY <1>10 DEF Relinks, SameFrame
    <2> DEFINE S == FreeIn(h, B) \ {a}
    <2>2. Relinks(g, g1, S) /\ S \in SUBSET C /\ Tiled(g, C)
        BY <1>6, <1>10
    <2> HIDE DEF S, C
    <2> QED
        BY <2>1, <2>2, RelinksKeep DEF S
<1>12. /\ Relinks(g1, t, (FreeIn(h, B) \ {a}) \cup {c})
       /\ Listed(t, G, (n - 1) + 1)
       /\ Nodes(G, (n - 1) + 1) = (FreeIn(h, B) \ {a}) \cup {c}
    <2>1. c \in Nat /\ c % 2 = 1 /\ c + 2 < MaxHeap
        BY <1>6, Bounds
    <2>2. n - 1 \in Nat /\ c \notin Nodes(D, n - 1)
        BY <1>1, <1>6, <1>9 DEF FreeIn
    <2> DEFINE m == n - 1
    <2> HIDE DEF m
    <2>3. m \in Nat /\ c \notin Nodes(D, m) /\ Listed(g1, D, m)
        BY <1>9, <2>2 DEF m
    <2>4. /\ Relinks(g1, AddFreeNode(g1, c), Nodes(D, m) \cup {c})
          /\ Listed(AddFreeNode(g1, c), Push(D, m, c), m + 1)
        BY <1>11, <2>1, <2>3, AddIs
    <2>5. Nodes(Push(D, m, c), m + 1) = Nodes(D, m) \cup {c}
        BY <2>3, PushNodes
    <2> QED
        BY <1>9, <2>4, <2>5 DEF m, t
<1> HIDE DEF G
<1>13. (FreeIn(h, B) \ {a}) \cup {c} \in SUBSET C
    BY DEF FreeIn
<1>14. /\ Tiled(t, C)
       /\ \A x \in C : Size(t, x) = Size(g1, x) /\ Used(t, x) = Used(g1, x)
       /\ \A x \in C \ ((FreeIn(h, B) \ {a}) \cup {c}) : Stands(g1, t, x)
    BY <1>11, <1>12, <1>13, RelinksKeep
<1>15. ASSUME NEW x \in B \ {a}
       PROVE  Size(t, x) = Size(h, x) /\ Used(t, x) = Used(h, x)
    <2>1. Size(g, x) = Size(h, x) /\ Used(g, x) = Used(h, x)
        BY <1>1, <1>6, StandsIs
    <2> QED
        BY <1>11, <1>14, <2>1
<1>16. /\ a \in C /\ Size(t, a) = s /\ ~Used(t, a)
       /\ Size(t, c) = Size(h, a) - s /\ ~Used(t, c)
    BY <1>3, <1>6, <1>11, <1>14
<1>17. a # c /\ a \in Nat /\ c = a + s /\ c + Size(t, c) = a + Size(h, a)
    BY <1>1, <1>3, <1>6, <1>16, Bounds
<1>18. /\ FreeIn(t, C) \ {a} = (FreeIn(h, B) \ {a}) \cup {c}
       /\ UsedIn(t, C) = UsedIn(h, B)
    BY <1>3, <1>6, <1>15, <1>16, <1>17 DEF FreeIn, UsedIn
<1>19. ASSUME NEW x \in UsedIn(h, B) PROVE Stands(h, t, x)
    <2>1. x \in B \ {a} /\ x # c /\ x \notin FreeIn(h, B)
        BY <1>3, <1>6 DEF UsedIn, FreeIn
    <2>2. Stands(h, g, x) /\ Stands(g, g1, x) /\ Stands(g1, t, x)
        BY <1>6, <1>11, <1>14, <2>1
    <2>3. Size(g, x) = Size(h, x) /\ Size(g1, x) = Size(h, x)
        BY <1>1, <1>11, <2>1, <2>2, StandsIs
    <2> QED
        BY <2>2, <2>3 DEF Stands
<1>20. Separate(t, FreeIn(t, C) \ {a})
    <2> SUFFICES ASSUME NEW x \in (FreeIn(h, B) \ {a}) \cup {c},
                        x + Size(t, x) \in (FreeIn(h, B) \ {a}) \cup {c}
                 PROVE  FALSE
        BY <1>18 DEF Separate
    <2>1. CASE x = c
        <3>1. a + Size(h, a) \in (FreeIn(h, B) \ {a}) \cup {c}
            BY <1>17, <2>1
        <3>2. a + Size(h, a) # c
            BY <1>1, <1>3, <1>17, Bounds DEF a
        <3> QED
            BY <1>1, <1>3, <3>1, <3>2 DEF Separate, FreeIn
    <2>2. CASE x # c
        <3>1. x \in B \ {a} /\ x \in FreeIn(h, B) /\ Size(t, x) = Size(h, x)
            BY <1>15, <2>2 DEF FreeIn
        <3>2. x + Size(h, x) # c
            <4>1. x + Size(h, x) <= a \/ a + Size(h, a) <= x
                BY <1>1, <1>3, <3>1, Apart
            <4>2. s < Size(h, a)
                BY <1>1, <1>3, Bounds DEF a
            <4> QED
                BY <1>1, <1>3, <1>17, <3>1, <4>1, <4>2, Bounds
        <3> QED
            BY <1>1, <3>1, <3>2 DEF Separate
    <2> QED
        BY <2>1, <2>2
<1> DEFINE m == (n - 1) + 1
<1> HIDE DEF m, C
<1>21. Taken(h, t, B, a, s, C, G, m)
    BY <1>12, <1>14, <1>16, <1>18, <1>19, <1>20 DEF Taken, m
<1> QED
    BY <1>5, <1>21 DEF a, C, c, G, D, m

LEMMA TakeIs ==
    ASSUME NEW h, NEW B, NEW F, NEW n, Good(h, B, F, n), NEW i \in 1 .. n,
           NEW s \in Nat, s % 2 = 0, s >= 4, s <= Size(h, F[i])
    PROVE  \E C, G, m : Taken(h, Take(h, F[i], s), B, F[i], s, C, G, m)
<1>1. Size(h, F[i]) \in Nat
    <2>1. F[i] \in B /\ Tiled(h, B)
        BY ListedNodes DEF Good, Shape, FreeIn
    <2> QED
        BY <2>1, Bounds
<1>2. CASE Size(h, F[i]) - s >= MinBlock
    <2>1. s + 4 <= Size(h, F[i])
        BY <1>1, <1>2, MinBlockIs
    <2>2. Take(h, F[i], s) = TakeAndSplit(h, F[i], s)
        BY <1>2 DEF Take
    <2> QED
        BY <2>1, <2>2, TakeAndSplitGives
<1>3. CASE ~ (Size(h, F[i]) - s >= MinBlock)
    BY <1>3, TakeWholeGives DEF Take
<1> QED
    BY <1>2, <1>3

(* The used blocks of h are those of g, word for word.                      *)
Keeps(h, B, g, C) ==
    UsedIn(g, C) = UsedIn(h, B) /\ \A x \in UsedIn(h, B) : Stands(h, g, x)

LEMMA KeepsOn ==
    ASSUME NEW h, NEW B, Tiled(h, B), NEW g, NEW C, Keeps(h, B, g, C),
           NEW k, NEW D, Keeps(g, C, k, D)
    PROVE  Keeps(h, B, k, D)
<1> SUFFICES ASSUME NEW x \in UsedIn(h, B) PROVE Stands(h, k, x)
    BY DEF Keeps
<1>1. Stands(h, g, x) /\ Stands(g, k, x)
    BY DEF Keeps
<1>2. Size(g, x) = Size(h, x)
    BY <1>1, StandsIs DEF UsedIn
<1> QED
    BY <1>1, <1>2 DEF Stands

\* Only links of free blocks have changed.
LEMMA RelinksKeepUsed ==
    ASSUME NEW h, NEW B, Tiled(h, B), NEW S, S \subseteq FreeIn(h, B), NEW g, Relinks(h, g, S)
    PROVE  /\ Tiled(g, B) /\ IsHeap(g) /\ Keeps(h, B, g, B)
           /\ FreeIn(g, B) = FreeIn(h, B)
           /\ \A a \in B : Size(g, a) = Size(h, a) /\ Used(g, a) = Used(h, a)
<1>1. S \in SUBSET B
    BY DEF FreeIn
<1>2. /\ Tiled(g, B)
      /\ \A a \in B : Size(g, a) = Size(h, a) /\ Used(g, a) = Used(h, a)
      /\ \A a \in B \ S : Stands(h, g, a)
    BY <1>1, RelinksKeep
<1>3. UsedIn(h, B) \subseteq B \ S
    BY DEF UsedIn, FreeIn
<1> QED
    BY <1>2, <1>3 DEF Keeps, UsedIn, FreeIn, Tiled

------------------------------------------------------------------------------
(* coalesce *)

\* What coalesce reads of its neighbours is what they are.
LEMMA LeftIs ==
    ASSUME NEW h, NEW B, Tiled(h, B), NEW a \in B
    PROVE  /\ HasFreeLeft(h, a) =>
                LET l == a - h.mem[a - 1][2]
                IN  l \in FreeIn(h, B) /\ l < a /\ l + Size(h, l) = a
           /\ ~ HasFreeLeft(h, a) => \A x \in FreeIn(h, B) : x + Size(h, x) # a
<1>1. h.first = 1
    BY DEF Tiled
<1>2. CASE a = 1
    <2>1. ~ HasFreeLeft(h, a)
        BY <1>1, <1>2 DEF HasFreeLeft
    <2>2. \A x \in B : x + Size(h, x) # a
        BY <1>2, Bounds
    <2> QED
        BY <2>1, <2>2 DEF FreeIn
<1>3. CASE a # 1
    <2>1. PICK l \in B : l < a /\ l + Size(h, l) = a
        BY <1>3, Predecessor
    <2>2. h.mem[l + Size(h, l) - 1] = h.mem[l]
        BY DEF Tiled, TaggedAt
    <2>3. h.mem[a - 1][2] = Size(h, l)
        <3>1. h.mem[a - 1] = h.mem[l]
          <4>1. l + Size(h, l) - 1 = a - 1
              BY <2>1, Bounds
          <4> QED
              BY <2>2, <4>1
        <3> QED
            BY <3>1 DEF Size
    <2>4. a - h.mem[a - 1][2] = l
        BY <2>1, <2>3, Bounds
    <2>5. HasFreeLeft(h, a) <=> ~ Used(h, l)
        BY <1>1, <1>3, <2>4 DEF HasFreeLeft
    <2>6. ASSUME NEW x \in B, x + Size(h, x) = a PROVE x = l
        <3>1. SUFFICES ASSUME x # l PROVE FALSE
            OBVIOUS
        <3>2. x + Size(h, x) <= l \/ l + Size(h, l) <= x
            BY <3>1, Apart
        <3> QED
            BY <2>1, <2>6, <3>2, Bounds
    <2> QED
        BY <2>1, <2>4, <2>5, <2>6 DEF FreeIn
<1> QED
    BY <1>2, <1>3

LEMMA RightIs ==
    ASSUME NEW h, NEW B, Tiled(h, B), NEW a \in B
    PROVE  HasFreeRight(h, a) <=> a + Size(h, a) \in FreeIn(h, B)
<1>1. a <= h.last /\ h.last \in Nat /\ h.last \in B /\ a \in Nat
    BY Bounds DEF Tiled
<1>2. CASE a < h.last
    BY <1>2, Successor DEF HasFreeRight, FreeIn
<1>3. CASE a = h.last
    <2>1. a + Size(h, a) = h.brk
        BY <1>3, Successor
    <2>2. \A x \in B : x # h.brk
        BY Bounds
    <2>3. ~ HasFreeRight(h, a)
        BY <1>1, <1>3 DEF HasFreeRight
    <2> QED
        BY <2>1, <2>2, <2>3 DEF FreeIn
<1> QED
    BY <1>1, <1>2, <1>3

\* The free list holds the free blocks, except perhaps the one at b.
Loose(h, B, F, n, b) ==
    /\ Tiled(h, B) /\ Listed(h, F, n)
    /\ b \in FreeIn(h, B)
    /\ Nodes(F, n) \subseteq FreeIn(h, B)
    /\ FreeIn(h, B) \ {b} \subseteq Nodes(F, n)

\* Two free blocks may be neighbours if one of them is at b, or the left one is.
NearOnly(h, B, b) ==
    \A x \in FreeIn(h, B) : x + Size(h, x) \in FreeIn(h, B) => x = b \/ x + Size(h, x) = b
RightOnly(h, B, b) ==
    \A x \in FreeIn(h, B) : x + Size(h, x) \in FreeIn(h, B) => x = b

LEMMA MergeLeftIs ==
    ASSUME NEW h, NEW B, NEW F, NEW n, NEW a, Loose(h, B, F, n, a), NearOnly(h, B, a),
           a \notin Nodes(F, n), HasFreeLeft(h, a)
    PROVE  LET l == a - h.mem[a - 1][2]
               g == MergeLeft(h, a)
           IN  /\ Loose(g, B \ {a}, F, n, l) /\ RightOnly(g, B \ {a}, l)
               /\ l \in Nodes(F, n)
               /\ Keeps(h, B, g, B \ {a})
<1> DEFINE l == a - h.mem[a - 1][2]
           S == {a - 1, a}
           m == SetHeader(h, l, Size(h, l) + Size(h, a), FALSE)
           g == Forget([m EXCEPT !.last = IF a = @ THEN l ELSE @], S)
           C == B \ {a}
<1>1. /\ Tiled(h, B) /\ Listed(h, F, n) /\ a \in B /\ ~Used(h, a)
      /\ Nodes(F, n) \subseteq FreeIn(h, B) /\ FreeIn(h, B) \ {a} \subseteq Nodes(F, n)
    BY DEF Loose, FreeIn
<1>2. l \in FreeIn(h, B) /\ l < a /\ l + Size(h, l) = a
    BY <1>1, LeftIs
<1>3. g = MergeLeft(h, a)
    BY DEF MergeLeft
<1> HIDE DEF l
<1>4. l \in B /\ l # a /\ l \in Nat /\ a \in Nat /\ Size(h, l) >= 4 /\ Size(h, a) >= 4
      /\ Size(h, l) \in Nat /\ Size(h, a) \in Nat
    BY <1>1, <1>2, Bounds DEF FreeIn
<1>5. \A w \in S : w \in Int /\ l + 3 <= w /\ w < a + Size(h, a) - 1
    BY <1>2, <1>4
<1>6. Merged(h, g, B, l, a)
    BY <1>1, <1>2, <1>4, <1>5, MergeIs
<1> HIDE DEF g, S
<1>7. /\ Tiled(g, C) /\ g.free = h.free /\ ~Used(g, l)
      /\ \A b \in C \ {l} : Stands(h, g, b) /\ Size(g, b) = Size(h, b) /\ Used(g, b) = Used(h, b)
      /\ \A b \in C : g.mem[b + 1] = h.mem[b + 1] /\ g.mem[b + 2] = h.mem[b + 2]
    BY <1>1, <1>6, StandsIs DEF Merged
<1>8. FreeIn(g, C) = FreeIn(h, B) \ {a} /\ UsedIn(g, C) = UsedIn(h, B)
    <2>1. ~Used(h, l)
        BY <1>2 DEF FreeIn
    <2> QED
        BY <1>1, <1>4, <1>7, <2>1 DEF FreeIn, UsedIn
<1>9. Listed(g, F, n)
    <2>1. \A k \in 1 .. n : F[k] \in C
        BY <1>1, ListedNodes DEF FreeIn
    <2> QED
        BY <1>1, <1>7, <2>1, ListedStays
<1>10. l \in Nodes(F, n)
    BY <1>1, <1>2, <1>4
<1>11. Loose(g, C, F, n, l)
    BY <1>1, <1>2, <1>4, <1>7, <1>8, <1>9 DEF Loose
<1>12. RightOnly(g, C, l)
    <2> SUFFICES ASSUME NEW x \in FreeIn(g, C), x + Size(g, x) \in FreeIn(g, C), x # l
                 PROVE  FALSE
        BY DEF RightOnly
    <2>1. Size(g, x) = Size(h, x)
        BY <1>7 DEF FreeIn
    <2> QED
        BY <1>8, <2>1 DEF NearOnly
<1>13. Keeps(h, B, g, C)
    <2>1. \A x \in UsedIn(h, B) : x \in C \ {l}
        BY <1>1, <1>2 DEF UsedIn, FreeIn
    <2> QED
        BY <1>7, <1>8, <2>1 DEF Keeps
<1> QED
    BY <1>3, <1>10, <1>11, <1>12, <1>13 DEF l

LEMMA MergeRightIs ==
    ASSUME NEW h, NEW B, NEW F, NEW n, NEW b, Loose(h, B, F, n, b), RightOnly(h, B, b),
           HasFreeRight(h, b)
    PROVE  \E C, G, m :
              LET g == MergeRight(h, b)
              IN  /\ Loose(g, C, G, m, b) /\ Separate(g, FreeIn(g, C))
                  /\ b \in Nodes(G, m) <=> b \in Nodes(F, n)
                  /\ Keeps(h, B, g, C)
<1> DEFINE r == b + Size(h, b)
           g1 == RemoveFreeNode(h, r)
           S == r - 1 .. r + 2
           m == SetHeader(g1, b, Size(g1, b) + Size(g1, r), FALSE)
           g == Forget([m EXCEPT !.last = IF r = @ THEN b ELSE @], S)
           C == B \ {r}
<1>1. /\ Tiled(h, B) /\ IsHeap(h) /\ Listed(h, F, n) /\ b \in B /\ ~Used(h, b) /\ n \in Nat
      /\ Nodes(F, n) \subseteq FreeIn(h, B) /\ FreeIn(h, B) \ {b} \subseteq Nodes(F, n)
      /\ \A j, k \in 1 .. n : F[j] = F[k] => j = k
      /\ b \in FreeIn(h, B)
    BY DEF Loose, FreeIn, Listed, Tiled
<1>2. r \in FreeIn(h, B) /\ r \in B /\ ~Used(h, r)
    BY <1>1, RightIs DEF FreeIn
<1>3. g = MergeRight(h, b)
    BY DEF MergeRight
<1>4. /\ r = b + Size(h, b) /\ r # b /\ r \in Nat /\ b \in Nat
      /\ Size(h, b) >= 4 /\ Size(h, r) >= 4
      /\ Size(h, b) \in Nat /\ Size(h, r) \in Nat
    BY <1>1, <1>2, Bounds
<1> HIDE DEF r
<1>5. PICK i \in 1 .. n : r = F[i]
    BY <1>1, <1>2, <1>4 DEF Nodes
<1> DEFINE G == Drop(F, n, i)
<1>6. Unlinked(h, g1, F, n, i)
    BY <1>1, <1>5, RemoveIs
<1> HIDE DEF g1
<1>7. Listed(g1, G, n - 1) /\ Nodes(G, n - 1) = Nodes(F, n) \ {r}
    BY <1>1, <1>5, <1>6, UnlinkedIs, DropNodes
<1> HIDE DEF G
<1>8. /\ Tiled(g1, B) /\ IsHeap(g1) /\ Keeps(h, B, g1, B)
      /\ FreeIn(g1, B) = FreeIn(h, B)
      /\ \A a \in B : Size(g1, a) = Size(h, a) /\ Used(g1, a) = Used(h, a)
    <2> DEFINE T == Nodes(F, n) \ {F[i]}
    <2>1. Relinks(h, g1, T) /\ T \subseteq FreeIn(h, B)
        BY <1>1, <1>6 DEF Unlinked
    <2> HIDE DEF T
    <2> QED
        BY <1>1, <2>1, RelinksKeepUsed
<1>9. \A w \in S : w \in Int /\ b + 3 <= w /\ w < r + Size(g1, r) - 1
    BY <1>2, <1>4, <1>8
<1>10. Merged(g1, g, B, b, r)
    <2>1. r = b + Size(g1, b)
        BY <1>1, <1>4, <1>8
    <2> QED
        BY <1>1, <1>2, <1>8, <1>9, <2>1, MergeIs
<1> HIDE DEF g, S
<1>11. /\ Tiled(g, C) /\ g.free = g1.free /\ ~Used(g, b)
       /\ Size(g, b) = Size(h, b) + Size(h, r)
       /\ \A x \in C \ {b} : Stands(g1, g, x) /\ Size(g, x) = Size(h, x) /\ Used(g, x) = Used(h, x)
       /\ \A x \in C : g.mem[x + 1] = g1.mem[x + 1] /\ g.mem[x + 2] = g1.mem[x + 2]
    <2>1. \A x \in C \ {b} : Stands(g1, g, x)
        BY <1>10 DEF Merged
    <2>2. \A x \in C \ {b} : Size(g, x) = Size(h, x) /\ Used(g, x) = Used(h, x)
        BY <1>8, <2>1, StandsIs
    <2>3. Size(g, b) = Size(h, b) + Size(h, r)
        BY <1>1, <1>2, <1>8, <1>10 DEF Merged
    <2> QED
        BY <1>10, <2>1, <2>2, <2>3 DEF Merged
<1>12. FreeIn(g, C) = FreeIn(h, B) \ {r} /\ UsedIn(g, C) = UsedIn(h, B)
    BY <1>1, <1>2, <1>4, <1>11 DEF FreeIn, UsedIn
<1>13. Listed(g, G, n - 1)
    <2>1. \A k \in 1 .. n - 1 : G[k] \in C
        BY <1>1, <1>7, ListedNodes DEF FreeIn
    <2> QED
        BY <1>7, <1>11, <2>1, ListedStays
<1>14. Loose(g, C, G, n - 1, b)
    <2>1. b \in FreeIn(g, C)
        BY <1>1, <1>4, <1>12
    <2> QED
        BY <1>1, <1>7, <1>11, <1>12, <1>13, <2>1 DEF Loose
<1>15. Separate(g, FreeIn(g, C))
    <2> SUFFICES ASSUME NEW x \in FreeIn(h, B) \ {r}, x + Size(g, x) \in FreeIn(h, B) \ {r}
                 PROVE  FALSE
        BY <1>12 DEF Separate
    <2>1. CASE x = b
        <3>1. x + Size(g, x) = r + Size(h, r)
            BY <1>4, <1>11, <2>1
        <3>2. r = b
            BY <1>2, <3>1 DEF RightOnly
        <3> QED
            BY <1>4, <3>2
    <2>2. CASE x # b
        <3>1. Size(g, x) = Size(h, x)
            BY <1>11, <2>2 DEF FreeIn
        <3> QED
            BY <2>2, <3>1 DEF RightOnly
    <2> QED
        BY <2>1, <2>2
<1>16. b \in Nodes(G, n - 1) <=> b \in Nodes(F, n)
    BY <1>4, <1>7
<1>17. Keeps(h, B, g, C)
    <2>1. \A x \in UsedIn(g1, B) : x \in C \ {b}
        BY <1>1, <1>2, <1>8 DEF UsedIn
    <2>2. UsedIn(g, C) = UsedIn(g1, B)
        BY <1>8, <1>12 DEF Keeps
    <2>3. Keeps(g1, B, g, C)
        BY <1>11, <2>1, <2>2 DEF Keeps
    <2> QED
        BY <1>1, <1>8, <2>3, KeepsOn
<1> QED
    BY <1>3, <1>14, <1>15, <1>16, <1>17

\* The right half of coalesce, whether there is anything to merge or not.
LEMMA AfterRight ==
    ASSUME NEW h, NEW B, NEW F, NEW n, NEW b, Loose(h, B, F, n, b), RightOnly(h, B, b),
           NEW g, g = IF HasFreeRight(h, b) THEN MergeRight(h, b) ELSE h
    PROVE  \E C, G, m : /\ Loose(g, C, G, m, b) /\ Separate(g, FreeIn(g, C))
                        /\ b \in Nodes(G, m) <=> b \in Nodes(F, n)
                        /\ Keeps(h, B, g, C)
<1>1. CASE HasFreeRight(h, b)
    BY <1>1, MergeRightIs
<1>2. CASE ~ HasFreeRight(h, b)
    <2>1. g = h
        BY <1>2
    <2>2. b \in B /\ Tiled(h, B)
        BY DEF Loose, FreeIn
    <2>3. b + Size(h, b) \notin FreeIn(h, B)
        BY <1>2, <2>2, RightIs
    <2>4. Separate(h, FreeIn(h, B))
        BY <2>3 DEF RightOnly, Separate
    <2>5. Keeps(h, B, h, B)
        BY DEF Keeps, Stands
    <2> QED
        BY <2>1, <2>4, <2>5
<1> QED
    BY <1>1, <1>2

LEMMA CoalesceIs ==
    ASSUME NEW h, NEW B, NEW F, NEW n, NEW a, Loose(h, B, F, n, a), NearOnly(h, B, a),
           a \notin Nodes(F, n)
    PROVE  /\ Sound(Coalesce(h, a))
           /\ Keeps(h, B, Coalesce(h, a), Blocks(Coalesce(h, a)))
<1> DEFINE flag == HasFreeLeft(h, a)
           b == IF flag THEN a - h.mem[a - 1][2] ELSE a
           g == IF flag THEN MergeLeft(h, a) ELSE h
           m == IF HasFreeRight(g, b) THEN MergeRight(g, b) ELSE g
           c == IF flag THEN m ELSE AddFreeNode(m, b)
<1>1. c = Coalesce(h, a)
    BY DEF Coalesce
<1>2. Tiled(h, B) /\ a \in B
    BY DEF Loose, FreeIn
<1>3. CASE flag
    <2>1. /\ Loose(g, B \ {a}, F, n, b) /\ RightOnly(g, B \ {a}, b)
          /\ b \in Nodes(F, n) /\ Keeps(h, B, g, B \ {a})
        BY <1>3, MergeLeftIs
    <2>2. c = m
        BY <1>3
    <2> HIDE DEF flag, b, g
    <2>3. PICK C, G, k : /\ Loose(m, C, G, k, b) /\ Separate(m, FreeIn(m, C))
                         /\ b \in Nodes(G, k) /\ Keeps(g, B \ {a}, m, C)
        BY <2>1, AfterRight
    <2> HIDE DEF m, c
    <2>4. Good(m, C, G, k)
        BY <2>3 DEF Good, Shape, Loose
    <2>5. Keeps(h, B, m, C)
        BY <1>2, <2>1, <2>3, KeepsOn
    <2> QED
        BY <1>1, <2>2, <2>4, <2>5, GoodIsSound
<1>4. CASE ~ flag
    <2>1. b = a /\ g = h /\ c = AddFreeNode(m, a)
        BY <1>4
    <2>2. RightOnly(h, B, a)
        BY <1>2, <1>4, LeftIs DEF NearOnly, RightOnly
    <2> HIDE DEF flag, b, g
    <2>3. PICK C, G, k : /\ Loose(m, C, G, k, a) /\ Separate(m, FreeIn(m, C))
                         /\ a \notin Nodes(G, k) /\ Keeps(h, B, m, C)
        BY <2>1, <2>2, AfterRight
    <2> HIDE DEF m, c
    <2>4. /\ Tiled(m, C) /\ IsHeap(m) /\ Listed(m, G, k) /\ k \in Nat
          /\ a \in FreeIn(m, C) /\ a \in C
          /\ Nodes(G, k) \cup {a} = FreeIn(m, C)
        BY <2>3 DEF Loose, FreeIn, Tiled, Listed
    <2>5. a \in Nat /\ a % 2 = 1 /\ a + 2 < MaxHeap
        BY <2>4, Bounds
    <2>6. Relinks(m, c, FreeIn(m, C)) /\ Listed(c, Push(G, k, a), k + 1)
        BY <2>1, <2>3, <2>4, <2>5, AddIs
    <2>7. /\ Tiled(c, C) /\ Keeps(m, C, c, C) /\ FreeIn(c, C) = FreeIn(m, C)
          /\ \A x \in C : Size(c, x) = Size(m, x)
        BY <2>4, <2>6, RelinksKeepUsed
    <2>8. Nodes(Push(G, k, a), k + 1) = FreeIn(c, C)
        BY <2>4, <2>7, PushNodes
    <2>9. Separate(c, FreeIn(c, C))
        BY <2>3, <2>7 DEF Separate, FreeIn
    <2>10. Good(c, C, Push(G, k, a), k + 1)
        BY <2>6, <2>7, <2>8, <2>9 DEF Good, Shape
    <2>11. Keeps(h, B, c, C)
        BY <1>2, <2>3, <2>7, KeepsOn
    <2> QED
        BY <1>1, <2>10, <2>11, GoodIsSound
<1> QED
    BY <1>3, <1>4

------------------------------------------------------------------------------
(* mm_malloc, mm_free, and the client's own writes *)

LEMMA SoundIs ==
    ASSUME NEW h, Sound(h)
    PROVE  \E F, n : /\ Good(h, Blocks(h), F, n) /\ Listed(h, F, n)
                     /\ Nodes(F, n) = FreeIn(h, Blocks(h))
                     /\ Tiled(h, Blocks(h)) /\ IsHeap(h)
                     /\ Separate(h, FreeIn(h, Blocks(h)))
    BY DEF Sound, Good, Shape, Tiled

\* The client writes inside the block at p, between header and footer.
Inside(h, g, p) ==
    /\ SameFrame(h, g) /\ g.last = h.last /\ g.free = h.free
    /\ \A w \in Words : w <= p \/ p + Size(h, p) - 1 <= w => g.mem[w] = h.mem[w]

LEMMA InsideIs ==
    ASSUME NEW h, Sound(h), NEW p \in UsedBlocks(h), NEW g, Inside(h, g, p)
    PROVE  /\ Sound(g) /\ Blocks(g) = Blocks(h) /\ UsedBlocks(g) = UsedBlocks(h)
           /\ \A x \in Blocks(h) : Size(g, x) = Size(h, x) /\ Used(g, x) = Used(h, x)
           /\ \A x \in Blocks(h) \ {p} : Stands(h, g, x)
<1> DEFINE B == Blocks(h)
<1>1. PICK F, n : /\ Listed(h, F, n) /\ Nodes(F, n) = FreeIn(h, B)
                  /\ Tiled(h, B) /\ IsHeap(h) /\ Separate(h, FreeIn(h, B))
    BY SoundIs
<1>2. p \in B /\ Used(h, p)
    BY DEF UsedBlocks, UsedIn
<1> HIDE DEF B
<1>3. ASSUME NEW x \in B \ {p} PROVE Stands(h, g, x)
    <2> SUFFICES ASSUME NEW w \in Nat, x <= w, w < x + Size(h, x)
                 PROVE  g.mem[w] = h.mem[w]
        BY DEF Stands
    <2>1. x + Size(h, x) <= p \/ p + Size(h, p) <= x
        BY <1>1, <1>2, Apart
    <2>2. w \in Words /\ (w <= p \/ p + Size(h, p) - 1 <= w)
        BY <1>1, <1>2, <2>1, Bounds, InWords
    <2> QED
        BY <2>2 DEF Inside
<1>4. g.mem[p] = h.mem[p] /\ g.mem[p + Size(h, p) - 1] = h.mem[p + Size(h, p) - 1]
    <2>1. p \in Words /\ p + Size(h, p) - 1 \in Words /\ p \in Nat /\ Size(h, p) \in Nat
        BY <1>1, <1>2, Bounds, InWords
    <2> QED
        BY <2>1 DEF Inside, Words
<1>5. \A x \in B : /\ g.mem[x] = h.mem[x]
                   /\ g.mem[x + Size(h, x) - 1] = h.mem[x + Size(h, x) - 1]
    BY <1>1, <1>3, <1>4, StandsIs
<1>6. Tiled(g, B) /\ \A x \in B : Size(g, x) = Size(h, x) /\ Used(g, x) = Used(h, x)
    BY <1>1, <1>5, TiledStays DEF Inside
<1>7. Listed(g, F, n)
    <2>1. \A k \in 1 .. n : F[k] \in B \ {p}
        BY <1>1, <1>2, ListedNodes DEF FreeIn
    <2>2. \A x \in B \ {p} : g.mem[x + 1] = h.mem[x + 1] /\ g.mem[x + 2] = h.mem[x + 2]
        BY <1>1, <1>3, Bounds DEF Stands
    <2> QED
        BY <1>1, <2>1, <2>2, ListedStays DEF Inside
<1>8. FreeIn(g, B) = FreeIn(h, B) /\ UsedIn(g, B) = UsedIn(h, B)
    BY <1>6 DEF FreeIn, UsedIn
<1>9. Separate(g, FreeIn(g, B))
    BY <1>1, <1>6, <1>8 DEF Separate, FreeIn
<1>10. Good(g, B, F, n)
    BY <1>1, <1>6, <1>7, <1>8, <1>9 DEF Good, Shape
<1>11. Sound(g) /\ Blocks(g) = B
    BY <1>10, GoodIsSound
<1> QED
    BY <1>3, <1>6, <1>8, <1>11 DEF UsedBlocks, B

\* h now has the block at a, in use and of s words at least.
Serves(h, g, a, s) ==
    /\ Sound(g)
    /\ a \in Nat /\ a \notin UsedBlocks(h)
    /\ UsedBlocks(g) = UsedBlocks(h) \cup {a}
    /\ \A x \in UsedBlocks(h) : Stands(h, g, x)
    /\ Size(g, a) \in Nat /\ Size(g, a) >= s

LEMMA TakenServes ==
    ASSUME NEW h, Tiled(h, Blocks(h)), NEW t, NEW a, NEW s, NEW C, NEW G, NEW m,
           Taken(h, t, Blocks(h), a, s, C, G, m)
    PROVE  Serves(h, SetHeader(t, a, Size(t, a), TRUE), a, s)
<1> DEFINE B == Blocks(h)
           u == TRUE
           g == SetHeader(t, a, Size(t, a), u)
<1>1. /\ Tiled(h, B) /\ Tiled(t, C) /\ Listed(t, G, m) /\ a \in C
      /\ Nodes(G, m) = FreeIn(t, C) \ {a}
      /\ Size(t, a) >= s /\ ~Used(t, a)
      /\ UsedIn(t, C) = UsedIn(h, B)
      /\ \A x \in UsedIn(h, B) : Stands(h, t, x)
      /\ Separate(t, FreeIn(t, C) \ {a})
    BY DEF Taken
<1>2. u \in BOOLEAN /\ u = TRUE
    OBVIOUS
<1> HIDE DEF u, B
<1>3. Marked(t, g, C, a, u)
    BY <1>1, <1>2, MarkIs
<1>4. g = SetHeader(t, a, Size(t, a), TRUE)
    BY <1>2
<1> HIDE DEF g
<1>5. /\ Tiled(g, C) /\ g.free = t.free /\ Used(g, a)
      /\ \A x \in C : Size(g, x) = Size(t, x)
      /\ \A x \in C \ {a} : Used(g, x) = Used(t, x) /\ Stands(t, g, x)
      /\ \A w \in Words : w # a /\ w # a + Size(t, a) - 1 => g.mem[w] = t.mem[w]
    BY <1>2, <1>3 DEF Marked
<1>6. FreeIn(g, C) = FreeIn(t, C) \ {a} /\ UsedIn(g, C) = UsedIn(h, B) \cup {a}
    BY <1>1, <1>5 DEF FreeIn, UsedIn
<1>7. Listed(g, G, m)
    <2>1. \A k \in 1 .. m : G[k] \in C \ {a}
        BY <1>1, ListedNodes DEF FreeIn
    <2>2. \A x \in C \ {a} : g.mem[x + 1] = t.mem[x + 1] /\ g.mem[x + 2] = t.mem[x + 2]
        BY <1>1, <1>5, Bounds DEF Stands
    <2> QED
        BY <1>1, <1>5, <2>1, <2>2, ListedStays
<1>8. Separate(g, FreeIn(g, C))
    BY <1>1, <1>5, <1>6 DEF Separate, FreeIn
<1>9. Good(g, C, G, m)
    BY <1>1, <1>5, <1>6, <1>7, <1>8 DEF Good, Shape
<1>10. Sound(g) /\ Blocks(g) = C
    BY <1>9, GoodIsSound
<1>11. a \notin UsedIn(h, B)
    BY <1>1 DEF UsedIn
<1>12. Keeps(h, B, t, C) /\ \A x \in UsedIn(h, B) : Stands(t, g, x)
    BY <1>1, <1>5, <1>11 DEF Keeps, UsedIn
<1>13. \A x \in UsedIn(h, B) : Stands(h, g, x)
    <2> SUFFICES ASSUME NEW x \in UsedIn(h, B) PROVE Stands(h, g, x)
        OBVIOUS
    <2>1. Stands(h, t, x) /\ Stands(t, g, x)
        BY <1>1, <1>12
    <2>2. Size(t, x) = Size(h, x)
        BY <1>1, <2>1, StandsIs DEF UsedIn
    <2> QED
        BY <2>1, <2>2 DEF Stands
<1>14. a \in Nat /\ Size(g, a) \in Nat /\ Size(g, a) >= s
    BY <1>1, <1>5, Bounds
<1>15. Serves(h, g, a, s)
    BY <1>6, <1>10, <1>11, <1>13, <1>14 DEF Serves, UsedBlocks, B
<1> QED
    BY <1>4, <1>15

LEMMA ExtendServes ==
    ASSUME NEW h, Sound(h), NEW s \in Nat, s % 2 = 0, s >= 4, ~ SbrkFails(h, s)
    PROVE  Serves(h, Extend(h, s), h.brk, s)
<1> DEFINE B == Blocks(h)
           b == h.brk
           C == B \cup {b}
           g == Extend(h, s)
<1>1. PICK F, n : /\ Listed(h, F, n) /\ Nodes(F, n) = FreeIn(h, B)
                  /\ Tiled(h, B) /\ IsHeap(h) /\ Separate(h, FreeIn(h, B))
    BY SoundIs
<1> HIDE DEF B
<1>2. /\ Tiled(g, C) /\ b \notin B /\ g.free = h.free
      /\ Size(g, b) = s /\ Used(g, b)
      /\ \A x \in B : Stands(h, g, x)
    BY <1>1, ExtendIs DEF Extended
<1> HIDE DEF g, b
<1>3. \A x \in B : Size(g, x) = Size(h, x) /\ Used(g, x) = Used(h, x)
    BY <1>1, <1>2, StandsIs
<1>4. FreeIn(g, C) = FreeIn(h, B) /\ UsedIn(g, C) = UsedIn(h, B) \cup {b}
    BY <1>2, <1>3 DEF FreeIn, UsedIn
<1>5. Listed(g, F, n)
    <2>1. \A k \in 1 .. n : F[k] \in B
        BY <1>1, ListedNodes DEF FreeIn
    <2>2. \A x \in B : g.mem[x + 1] = h.mem[x + 1] /\ g.mem[x + 2] = h.mem[x + 2]
        BY <1>1, <1>2, Bounds DEF Stands
    <2> QED
        BY <1>1, <1>2, <2>1, <2>2, ListedStays
<1>6. Separate(g, FreeIn(g, C))
    BY <1>1, <1>3, <1>4 DEF Separate, FreeIn
<1>7. Good(g, C, F, n)
    BY <1>1, <1>2, <1>4, <1>5, <1>6 DEF Good, Shape
<1>8. Sound(g) /\ Blocks(g) = C
    BY <1>7, GoodIsSound
<1>9. b \in Nat
    BY <1>1 DEF Tiled, b
<1>10. b \notin UsedIn(h, B) /\ \A x \in UsedIn(h, B) : Stands(h, g, x)
    BY <1>2 DEF UsedIn
<1>11. Serves(h, g, b, s)
    BY <1>2, <1>4, <1>8, <1>9, <1>10 DEF Serves, UsedBlocks, B
<1> QED
    BY <1>11 DEF g, b

\* find_fit goes through the free blocks, all of them.
LEMMA FittingIs ==
    ASSUME NEW h, Sound(h), NEW s
    PROVE  /\ \A k \in Fitting(h, s) : /\ FreeNode(h)[k] \in FreeIn(h, Blocks(h))
                                       /\ Size(h, FreeNode(h)[k]) >= s
           /\ \A a \in FreeIn(h, Blocks(h)) : Size(h, a) >= s => Fitting(h, s) # {}
<1> DEFINE B == Blocks(h)
           f == FreeNode(h)
<1>1. PICK F, n : /\ Listed(h, F, n) /\ Nodes(F, n) = FreeIn(h, B)
    BY SoundIs
<1>2. n \in Nat /\ n < MaxLength /\ MaxLength \in Nat
    BY <1>1, FewNodes, HalfHeap
<1>3. \A k \in 1 .. MaxLength : f[k] = IF k <= n THEN F[k] ELSE Null
    BY <1>1, FreeNodeIs
<1>4. Fitting(h, s) = {k \in 1 .. MaxLength : f[k] # Null /\ Size(h, f[k]) >= s}
    BY DEF Fitting
<1> HIDE DEF B, f
<1>5. \A k \in 1 .. n : F[k] \in FreeIn(h, B) /\ F[k] # Null /\ k \in 1 .. MaxLength /\ f[k] = F[k]
    BY <1>1, <1>2, <1>3, ListedNodes
<1>6. ASSUME NEW k \in Fitting(h, s) PROVE f[k] \in FreeIn(h, B) /\ Size(h, f[k]) >= s
    <2>1. k \in 1 .. MaxLength /\ f[k] # Null /\ Size(h, f[k]) >= s
        BY <1>4
    <2>2. k \in 1 .. n
        BY <1>2, <1>3, <2>1
    <2> QED
        BY <1>5, <2>1, <2>2
<1>7. ASSUME NEW a \in FreeIn(h, B), Size(h, a) >= s PROVE Fitting(h, s) # {}
    <2>1. PICK k \in 1 .. n : a = F[k]
        BY <1>1 DEF Nodes
    <2>2. k \in Fitting(h, s)
        BY <1>4, <1>5, <1>7, <2>1
    <2> QED
        BY <2>2
<1> QED
    BY <1>6, <1>7 DEF B, f

LEMMA FitServes ==
    ASSUME NEW h, Sound(h), NEW s \in Nat, s % 2 = 0, s >= 4, NEW k \in Fitting(h, s)
    PROVE  LET a == FreeNode(h)[k]
               t == Take(h, a, s)
           IN  Serves(h, SetHeader(t, a, Size(t, a), TRUE), a, s)
<1> DEFINE B == Blocks(h)
           a == FreeNode(h)[k]
           t == Take(h, a, s)
<1>1. PICK F, n : Good(h, B, F, n)
    BY SoundIs
<1>2. a \in FreeIn(h, B) /\ Size(h, a) >= s
    BY FittingIs
<1> HIDE DEF a
<1>3. Tiled(h, B) /\ Nodes(F, n) = FreeIn(h, B)
    BY <1>1 DEF Good, Shape
<1>4. PICK i \in 1 .. n : a = F[i]
    BY <1>2, <1>3 DEF Nodes
<1>5. s <= Size(h, F[i])
    BY <1>2, <1>3, <1>4, Bounds DEF FreeIn
<1>6. \E C, G, m : Taken(h, t, B, a, s, C, G, m)
    BY <1>1, <1>4, <1>5, TakeIs
<1> QED
    BY <1>3, <1>6, TakenServes DEF a

LEMMA MallocIs ==
    ASSUME NEW h, Sound(h), NEW n \in Nat, n >= 1
    PROVE  LET m == Malloc(h, n) IN
           /\ m.ptr = Null => m.heap = h /\ Fitting(h, BlockSize(n)) = {}
           /\ m.ptr # Null => m.ptr \in Nat /\ Serves(h, m.heap, m.ptr - 1, BlockSize(n))
<1> DEFINE s == BlockSize(n)
           fit == Fitting(h, s)
           m == Malloc(h, n)
           a == FreeNode(h)[Least(fit)]
           t == Take(h, a, s)
           g == SetHeader(t, a, Size(t, a), TRUE)
<1>1. s \in Nat /\ s % 2 = 0 /\ s >= 4
    BY BlockSizes
<1>2. m = IF fit # {} THEN [heap |-> g, ptr |-> a + 1]
          ELSE IF SbrkFails(h, s) THEN [heap |-> h, ptr |-> Null]
          ELSE [heap |-> Extend(h, s), ptr |-> h.brk + 1]
    BY DEF Malloc
<1> HIDE DEF s, m
<1>3. CASE fit # {}
    <2>1. fit \in SUBSET Nat
        BY HalfHeap DEF Fitting
    <2>2. Least(fit) \in fit
        BY <1>3, <2>1, LeastIs
    <2>3. Serves(h, g, a, s)
        BY <1>1, <2>2, FitServes
    <2> HIDE DEF g, a, fit
    <2>4. m.heap = g /\ m.ptr = a + 1
        BY <1>2, <1>3
    <2>5. a \in Nat
        BY <2>3 DEF Serves
    <2>6. m.ptr # Null /\ m.ptr \in Nat /\ m.ptr - 1 = a
        BY <2>4, <2>5 DEF Null
    <2> QED
        BY <2>3, <2>4, <2>6 DEF s, m
<1>4. CASE fit = {} /\ SbrkFails(h, s)
    <2> HIDE DEF g, a
    <2>1. m.heap = h /\ m.ptr = Null
        BY <1>2, <1>4
    <2> QED
        BY <1>4, <2>1 DEF s, m
<1>5. CASE fit = {} /\ ~ SbrkFails(h, s)
    <2> HIDE DEF g, a
    <2>1. m.heap = Extend(h, s) /\ m.ptr = h.brk + 1
        BY <1>2, <1>5
    <2>2. Serves(h, Extend(h, s), h.brk, s)
        BY <1>1, <1>5, ExtendServes
    <2>3. h.brk \in Nat
        BY <2>2 DEF Serves
    <2>4. m.ptr # Null /\ m.ptr \in Nat /\ m.ptr - 1 = h.brk
        BY <2>1, <2>3 DEF Null
    <2> QED
        BY <2>1, <2>2, <2>4 DEF s, m
<1> QED
    BY <1>3, <1>4, <1>5

LEMMA PayloadIs ==
    ASSUME NEW h, Sound(h), NEW p \in Nat, p - 1 \in Blocks(h)
    PROVE  \A w : w \in Payload(h, p) <=>
                     w \in Nat /\ p - 1 < w /\ w < p - 1 + Size(h, p - 1) - 1
<1>1. Tiled(h, Blocks(h))
    BY SoundIs
<1> DEFINE a == p - 1
           s == Size(h, a)
<1>2. a \in Nat /\ s \in Nat /\ p = a + 1
    BY <1>1, Bounds
<1>3. Payload(h, p) = p .. p + s - 3
    BY DEF Payload
<1> HIDE DEF s
<1> QED
    BY <1>2, <1>3 DEF s

\* Writing over a payload, as the client and the driver do.
LEMMA WriteInside ==
    ASSUME NEW h, Sound(h), NEW p \in Nat, p - 1 \in Blocks(h),
           NEW S, S \subseteq Payload(h, p), NEW d
    PROVE  Inside(h, Write(h, S, d), p - 1)
<1> DEFINE g == Write(h, S, d)
<1>1. IsHeap(h)
    BY SoundIs
<1>2. /\ SameFrame(h, g) /\ g.last = h.last /\ g.free = h.free
      /\ \A w \in Words : g.mem[w] = IF w \in S THEN Content(d) ELSE h.mem[w]
    BY <1>1, WriteIs
<1> HIDE DEF g
<1> DEFINE a == p - 1
<1>3. \A w \in S : w \in Nat /\ a < w /\ w < a + Size(h, a) - 1
    BY PayloadIs
<1>4. a \in Nat /\ Size(h, a) \in Nat
    <2>1. Tiled(h, Blocks(h))
        BY SoundIs
    <2> QED
        BY <2>1, Bounds
<1> HIDE DEF a
<1>5. ASSUME NEW w \in Words, w <= a \/ a + Size(h, a) - 1 <= w
      PROVE  g.mem[w] = h.mem[w]
    <2>1. w \notin S
        BY <1>3, <1>4, <1>5
    <2> QED
        BY <1>2, <2>1
<1>6. Inside(h, g, a)
    BY <1>2, <1>5 DEF Inside
<1> QED
    BY <1>6 DEF g, a

LEMMA ReleaseIs ==
    ASSUME NEW h, Sound(h), NEW p \in Nat, p - 1 \in UsedBlocks(h)
    PROVE  LET g == Release(h, p) IN
           /\ Sound(g)
           /\ UsedBlocks(g) = UsedBlocks(h) \ {p - 1}
           /\ \A x \in UsedBlocks(h) \ {p - 1} : Stands(h, g, x)
<1> DEFINE B == Blocks(h)
           a == p - 1
           u == FALSE
           g0 == Forget(h, Payload(h, p))
           g1 == SetHeader(g0, a, Size(h, a), u)
           g == Coalesce(g1, a)
<1>1. a \in B /\ Used(h, a) /\ a \in UsedBlocks(h)
    BY DEF UsedBlocks, UsedIn
<1>2. u \in BOOLEAN /\ u = FALSE
    OBVIOUS
<1>3. Inside(h, g0, a)
    BY <1>1, WriteInside DEF Forget
<1>4. g = Release(h, p)
    BY DEF Release
<1>5. Tiled(h, B)
    BY SoundIs
<1> HIDE DEF g0, u, a
<1>6. /\ Sound(g0) /\ Blocks(g0) = B /\ UsedBlocks(g0) = UsedBlocks(h)
      /\ \A x \in B : Size(g0, x) = Size(h, x) /\ Used(g0, x) = Used(h, x)
      /\ \A x \in B \ {a} : Stands(h, g0, x)
    BY <1>1, <1>3, InsideIs
<1>7. PICK F, n : /\ Listed(g0, F, n) /\ Nodes(F, n) = FreeIn(g0, B)
                  /\ Tiled(g0, B) /\ Separate(g0, FreeIn(g0, B))
    BY <1>6, SoundIs
<1> HIDE DEF B
<1>8. Marked(g0, g1, B, a, u)
    <2>1. g1 = SetHeader(g0, a, Size(g0, a), u)
        BY <1>1, <1>6
    <2> QED
        BY <1>1, <1>2, <1>7, <2>1, MarkIs
<1> HIDE DEF g1
<1>9. /\ Tiled(g1, B) /\ g1.free = g0.free /\ ~Used(g1, a)
      /\ \A x \in B : Size(g1, x) = Size(g0, x)
      /\ \A x \in B \ {a} : Used(g1, x) = Used(g0, x) /\ Stands(g0, g1, x)
    BY <1>2, <1>8 DEF Marked
<1>10. /\ FreeIn(g1, B) = FreeIn(g0, B) \cup {a} /\ a \notin FreeIn(g0, B)
       /\ UsedIn(g1, B) = UsedIn(h, B) \ {a}
    BY <1>1, <1>6, <1>9 DEF FreeIn, UsedIn
<1>11. Listed(g1, F, n)
    <2>1. \A k \in 1 .. n : F[k] \in B \ {a}
        BY <1>7, <1>10, ListedNodes DEF FreeIn
    <2>2. \A x \in B \ {a} : g1.mem[x + 1] = g0.mem[x + 1] /\ g1.mem[x + 2] = g0.mem[x + 2]
        BY <1>7, <1>9, Bounds DEF Stands
    <2> QED
        BY <1>7, <1>9, <2>1, <2>2, ListedStays
<1>12. Loose(g1, B, F, n, a) /\ a \notin Nodes(F, n)
    BY <1>7, <1>9, <1>10, <1>11 DEF Loose
<1>13. NearOnly(g1, B, a)
    BY <1>7, <1>9, <1>10 DEF NearOnly, Separate, FreeIn
<1>14. Sound(g) /\ Keeps(g1, B, g, Blocks(g))
    BY <1>12, <1>13, CoalesceIs
<1> HIDE DEF g
<1>15. UsedBlocks(g) = UsedBlocks(h) \ {a}
    BY <1>10, <1>14 DEF Keeps, UsedBlocks, B
<1>16. ASSUME NEW x \in UsedBlocks(h) \ {a} PROVE Stands(h, g, x)
    <2>1. x \in B \ {a} /\ x \in UsedIn(g1, B)
        BY <1>10 DEF UsedBlocks, UsedIn, B
    <2>2. Stands(h, g0, x) /\ Stands(g0, g1, x) /\ Stands(g1, g, x)
        BY <1>6, <1>9, <1>14, <2>1 DEF Keeps
    <2>3. Size(g0, x) = Size(h, x) /\ Size(g1, x) = Size(h, x)
        BY <1>6, <1>9, <2>1
    <2> QED
        BY <2>2, <2>3 DEF Stands
<1> QED
    BY <1>4, <1>14, <1>15, <1>16 DEF a

\* A block that serves h still does after the client has written in it.
LEMMA ServesOn ==
    ASSUME NEW h, Sound(h), NEW g, NEW a, NEW s, Serves(h, g, a, s), NEW f, Inside(g, f, a)
    PROVE  Serves(h, f, a, s) /\ Size(f, a) = Size(g, a)
<1>1. /\ Sound(g) /\ a \in Nat /\ a \notin UsedBlocks(h)
      /\ UsedBlocks(g) = UsedBlocks(h) \cup {a}
      /\ \A x \in UsedBlocks(h) : Stands(h, g, x)
      /\ Size(g, a) \in Nat /\ Size(g, a) >= s
    BY DEF Serves
<1>2. a \in UsedBlocks(g) /\ UsedBlocks(g) \subseteq Blocks(g) /\ UsedBlocks(h) \subseteq Blocks(h)
    BY <1>1 DEF UsedBlocks, UsedIn
<1>3. /\ Sound(f) /\ UsedBlocks(f) = UsedBlocks(g)
      /\ Size(f, a) = Size(g, a)
      /\ \A x \in Blocks(g) \ {a} : Stands(g, f, x)
    BY <1>1, <1>2, InsideIs
<1>4. Tiled(h, Blocks(h))
    BY SoundIs
<1>5. ASSUME NEW x \in UsedBlocks(h) PROVE Stands(h, f, x)
    <2>1. Stands(h, g, x) /\ Stands(g, f, x)
        BY <1>1, <1>2, <1>3
    <2>2. Size(g, x) = Size(h, x)
        BY <1>2, <1>4, <2>1, StandsIs
    <2> QED
        BY <2>1, <2>2 DEF Stands
<1> QED
    BY <1>1, <1>3, <1>5 DEF Serves

\* memcpy of n words to a payload that has room for them.
LEMMA MemcpyIs ==
    ASSUME NEW h, Sound(h), NEW p \in Nat, p - 1 \in Blocks(h),
           NEW from, NEW n \in Nat, n + 2 <= Size(h, p - 1)
    PROVE  LET g == Memcpy(h, p, from, n) IN
           /\ Inside(h, g, p - 1)
           /\ \A w \in Words : g.mem[w] = IF w \in p .. p + n - 1 THEN h.mem[from + (w - p)]
                                          ELSE h.mem[w]
<1> DEFINE m == [w \in DOMAIN h.mem |->
                    IF w \in p .. p + n - 1 THEN h.mem[from + (w - p)] ELSE h.mem[w]]
           g == [h EXCEPT !.mem = m]
           a == p - 1
<1>1. Memcpy(h, p, from, n) = g
    BY DEF Memcpy
<1>2. IsHeap(h) /\ Tiled(h, Blocks(h))
    BY SoundIs
<1>3. DOMAIN h.mem = Words
    BY <1>2 DEF IsHeap
<1>4. /\ m = [w \in Words |-> m[w]]
      /\ \A w \in Words : m[w] = IF w \in p .. p + n - 1 THEN h.mem[from + (w - p)] ELSE h.mem[w]
    BY <1>3
<1> HIDE DEF m
<1>5. g = [mem |-> m, brk |-> h.brk, first |-> h.first, last |-> h.last, free |-> h.free]
    BY <1>2 DEF IsHeap
<1> HIDE DEF g
<1>6. /\ g.brk = h.brk /\ g.first = h.first /\ g.last = h.last
      /\ g.free = h.free /\ g.mem = m
    BY <1>5
<1>7. SameFrame(h, g)
    BY <1>4, <1>5, <1>6 DEF SameFrame, IsHeap
<1>8. a \in Nat /\ Size(h, a) \in Nat /\ p = a + 1
    BY <1>2, Bounds
<1>9. ASSUME NEW w \in Words, w <= a \/ a + Size(h, a) - 1 <= w
      PROVE  g.mem[w] = h.mem[w]
    <2>1. w \notin p .. p + n - 1
        BY <1>8, <1>9 DEF Words
    <2> QED
        BY <1>4, <1>6, <2>1
<1>10. Inside(h, g, a)
    BY <1>6, <1>7, <1>9 DEF Inside
<1> QED
    BY <1>1, <1>4, <1>6, <1>10 DEF a

------------------------------------------------------------------------------
(* The allocator and its client *)

ClientTypeOK ==
    /\ live \in [Ids -> [at : Nat, len : Nat, kept : Nat] \cup {NoBlock}]
    /\ \A d \in Held : live[d].len \in Requests /\ live[d].kept <= live[d].len
    /\ crashed \in BOOLEAN

\* No payload has been handed out twice.
OneHolder == \A d, e \in Held : live[d].at = live[e].at => d = e

(* The inductive invariant: the heap is sound, and its used blocks are the  *)
(* ones that the client holds, one each.  No part is inductive by itself:   *)
(* mm_free takes the client's word that there is a block before its         *)
(* pointer, and what it merges with depends on the neighbours' words.       *)
AllocInv ==
    /\ ClientTypeOK
    /\ Sound(heap)
    /\ UsedIffHeld
    /\ OneHolder

LEMMA UsedAre ==
    \A h : Blocks(h) \ FreeBlocks(h) = UsedBlocks(h) /\ FreeBlocks(h) = FreeIn(h, Blocks(h))
    BY DEF FreeBlocks, UsedBlocks, UsedIn, FreeIn

LEMMA Holds ==
    ASSUME AllocInv, NEW d \in Held
    PROVE  /\ d \in Ids /\ live[d] \in [at : Nat, len : Nat, kept : Nat]
           /\ live[d].len \in Requests /\ live[d].kept <= live[d].len
           /\ live[d].at \in Nat /\ live[d].len \in Nat /\ live[d].kept \in Nat
           /\ live[d].at - 1 \in UsedBlocks(heap)
           /\ live[d].at - 1 \in Blocks(heap)
           /\ Size(heap, live[d].at - 1) \in Nat
           /\ Size(heap, live[d].at - 1) >= 2 + live[d].len
           /\ live[d].at >= 2 /\ live[d].at % 2 = 0
<1>1. d \in Ids /\ live[d] \in [at : Nat, len : Nat, kept : Nat]
    BY DEF AllocInv, ClientTypeOK, Held
<1>2. live[d].at - 1 \in UsedBlocks(heap) /\ Size(heap, live[d].at - 1) >= 2 + live[d].len
    BY UsedAre DEF AllocInv, UsedIffHeld
<1>3. live[d].len \in Requests /\ live[d].kept <= live[d].len
    BY DEF AllocInv, ClientTypeOK
<1>4. Tiled(heap, Blocks(heap)) /\ live[d].at - 1 \in Blocks(heap)
    BY <1>2, SoundIs DEF AllocInv, UsedBlocks, UsedIn
<1>5. /\ live[d].at - 1 >= 1 /\ (live[d].at - 1) % 2 = 1
      /\ Size(heap, live[d].at - 1) \in Nat
    BY <1>4, Bounds
<1>6. live[d].at >= 2 /\ live[d].at % 2 = 0
    BY <1>1, <1>5
<1> QED
    BY <1>1, <1>2, <1>3, <1>4, <1>5, <1>6

LEMMA InitAlloc ==
    ASSUME Init
    PROVE  AllocInv
<1>1. Held = {}
    BY DEF Init, Held
<1>2. ClientTypeOK /\ OneHolder
    BY <1>1 DEF ClientTypeOK, Init, OneHolder
<1>3. Sound(heap) /\ Blocks(heap) = {}
    BY InitSound DEF Init
<1>4. UsedIffHeld
    BY <1>1, <1>3 DEF UsedIffHeld
<1> QED
    BY <1>2, <1>3, <1>4 DEF AllocInv

------------------------------------------------------------------------------
(* One operation at a time: the invariant, and the step of the contract *)

\* What every operation leaves to the blocks it is not about.
OthersStand(d) ==
    \A e \in Held \ {d} : /\ live'[e] = live[e]
                          /\ live[e].at - 1 \in UsedBlocks(heap')
                          /\ Stands(heap, heap', live[e].at - 1)

LEMMA OthersAre ==
    ASSUME AllocInv, NEW d, OthersStand(d), NEW e \in Held \ {d}
    PROVE  /\ live'[e] = live[e]
           /\ live[e].at - 1 \in UsedBlocks(heap') /\ live[e].at - 1 \in Blocks(heap')
           /\ Size(heap', live[e].at - 1) = Size(heap, live[e].at - 1)
<1>1. /\ live'[e] = live[e] /\ live[e].at - 1 \in UsedBlocks(heap')
      /\ Stands(heap, heap', live[e].at - 1)
    BY DEF OthersStand
<1>2. Tiled(heap, Blocks(heap))
    BY SoundIs DEF AllocInv
<1>3. live[e].at - 1 \in Blocks(heap)
    BY Holds
<1>4. Size(heap', live[e].at - 1) = Size(heap, live[e].at - 1)
    BY <1>1, <1>2, <1>3, StandsIs
<1> QED
    BY <1>1, <1>4 DEF UsedBlocks, UsedIn

LEMMA ContentIs ==
    ASSUME NEW d
    PROVE  Content(d)[1] = "content" /\ Content(d)[2] = d
    BY DEF Content

\* The words that the client has written in a block are words of the heap.
LEMMA WrittenIn ==
    ASSUME AllocInv, NEW e \in Held, NEW w \in live[e].at .. live[e].at + live[e].kept - 1
    PROVE  /\ w \in Words /\ w \in Nat
           /\ live[e].at - 1 < w /\ w < live[e].at - 1 + Size(heap, live[e].at - 1)
<1>1. /\ live[e].at \in Nat /\ live[e].kept \in Nat /\ live[e].kept <= live[e].len
      /\ live[e].len \in Nat /\ live[e].at - 1 \in Blocks(heap)
      /\ Size(heap, live[e].at - 1) >= 2 + live[e].len
      /\ Size(heap, live[e].at - 1) \in Nat
    BY Holds
<1>2. w \in Int /\ live[e].at - 1 < w /\ w < live[e].at - 1 + Size(heap, live[e].at - 1)
    BY <1>1
<1>3. Tiled(heap, Blocks(heap))
    BY SoundIs DEF AllocInv
<1>4. w \in Words /\ w \in Nat
    <2> DEFINE a == live[e].at - 1
    <2>1. a \in Blocks(heap) /\ w \in Int /\ a <= w /\ w < a + Size(heap, a)
        BY <1>1, <1>2
    <2> HIDE DEF a
    <2> QED
        BY <1>3, <2>1, InWords
<1> QED
    BY <1>2, <1>4

LEMMA OthersKeep ==
    ASSUME AllocInv, Sound(heap'), NEW d, OthersStand(d)
    PROVE  Contract!KeepsOthers(d)
<1>1. SUFFICES ASSUME NEW e \in Held \ {d}, NEW w \in live[e].at .. live[e].at + live[e].kept - 1
               PROVE  w \in Words /\ heap'.mem[w] = heap.mem[w]
    <2>1. DOMAIN heap.mem = Words /\ DOMAIN heap'.mem = Words
        BY SoundIs DEF AllocInv, IsHeap
    <2> QED
        BY <2>1 DEF Contract!KeepsOthers, Contract!Keeps, Contract!Written, Contract!Held, Held
<1>2. /\ w \in Words /\ w \in Nat
      /\ live[e].at - 1 < w /\ w < live[e].at - 1 + Size(heap, live[e].at - 1)
    BY <1>1, WrittenIn
<1>3. live[e].at - 1 \in Nat
    BY Holds
<1>4. Stands(heap, heap', live[e].at - 1)
    BY DEF OthersStand
<1> QED
    BY <1>2, <1>3, <1>4 DEF Stands

(* The used blocks and the client's blocks change together: d has the block *)
(* b instead of what it had.                                                *)
LEMMA GainStep ==
    ASSUME AllocInv, Sound(heap'), NEW d \in Ids,
           NEW b \in [at : Nat, len : Nat, kept : Nat],
           b.len \in Requests, b.kept <= b.len,
           live' = [live EXCEPT ![d] = b], crashed' = crashed, OthersStand(d),
           UsedBlocks(heap') = {live[e].at - 1 : e \in Held \ {d}} \cup {b.at - 1},
           \A e \in Held \ {d} : live[e].at # b.at,
           Size(heap', b.at - 1) >= 2 + b.len
    PROVE  /\ AllocInv'
           /\ b # NoBlock /\ live'[d] = b
           /\ Contract!GoodPlace(d, b)
           /\ Contract!KeepsOthers(d)
<1>1. b # NoBlock
    BY HeapAssumption
<1>2. live'[d] = b /\ \A e \in Ids \ {d} : live'[e] = live[e]
    BY DEF AllocInv, ClientTypeOK
<1>3. Held' = (Held \ {d}) \cup {d}
    BY <1>1, <1>2 DEF Held
<1>4. \A e \in Held \ {d} : /\ live'[e] = live[e]
                            /\ live'[e].at - 1 \in UsedBlocks(heap')
                            /\ Size(heap', live'[e].at - 1) >= 2 + live'[e].len
    BY OthersAre, Holds
<1>5. ClientTypeOK'
    <2>1. live' \in [Ids -> [at : Nat, len : Nat, kept : Nat] \cup {NoBlock}]
        BY DEF AllocInv, ClientTypeOK
    <2>2. \A e \in Held' : live'[e].len \in Requests /\ live'[e].kept <= live'[e].len
        BY <1>2, <1>3, <1>4 DEF AllocInv, ClientTypeOK
    <2>3. crashed' \in BOOLEAN
        BY DEF AllocInv, ClientTypeOK
    <2> QED
        BY <2>1, <2>2, <2>3 DEF ClientTypeOK
<1>6. OneHolder'
    <2>1. \A e, f \in Held' : live'[e].at = live'[f].at => e = f
        BY <1>2, <1>3, <1>4 DEF AllocInv, OneHolder
    <2> QED
        BY <2>1 DEF OneHolder
<1>7. UsedIffHeld'
    <2>1. ASSUME NEW e \in Held'
          PROVE  /\ live'[e].at - 1 \in UsedBlocks(heap')
                 /\ Size(heap', live'[e].at - 1) >= 2 + live'[e].len
        <3>1. CASE e = d
            BY <1>2, <3>1
        <3>2. CASE e \in Held \ {d}
            BY <1>4, <3>2
        <3> QED
            BY <1>3, <3>1, <3>2
    <2>2. ASSUME NEW a \in UsedBlocks(heap')
          PROVE  \E e \in Held' : live'[e].at = a + 1
        <3>1. ASSUME NEW e \in Held \ {d} PROVE live'[e].at = (live[e].at - 1) + 1
            BY <1>4, Holds
        <3>2. live'[d].at = (b.at - 1) + 1
            BY <1>2
        <3> QED
            BY <1>3, <3>1, <3>2
    <2> QED
        BY <2>1, <2>2, UsedAre DEF UsedIffHeld
<1>8. Contract!GoodPlace(d, b)
    <2> DEFINE p == b.at - 1
    <2>1. p \in Blocks(heap') /\ Tiled(heap', Blocks(heap'))
        BY SoundIs DEF UsedBlocks, UsedIn
    <2>2. /\ p \in Nat /\ p % 2 = 1 /\ Size(heap', p) \in Nat
          /\ p + Size(heap', p) <= heap'.brk /\ heap'.brk \in Nat /\ heap'.brk < MaxHeap
          /\ MaxHeap \in Nat
        BY <2>1, Bounds
    <2>3. b.at % 2 = 0 /\ b.at + b.len <= MaxHeap
        BY <2>2
    <2>4. ASSUME NEW e \in Held \ {d}
          PROVE  (b.at .. b.at + b.len - 1) \cap (live[e].at .. live[e].at + live[e].len - 1) = {}
        <3> DEFINE a == live[e].at - 1
        <3>1. /\ live[e].at \in Nat /\ live[e].len \in Nat
              /\ Size(heap, a) >= 2 + live[e].len /\ Size(heap, a) \in Nat
            BY Holds
        <3>2. a \in Blocks(heap') /\ Size(heap', a) = Size(heap, a)
            BY OthersAre
        <3>3. a # p
            BY <3>1
        <3>4. p + Size(heap', p) <= a \/ a + Size(heap', a) <= p
            BY <2>1, <3>2, <3>3, Apart
        <3> QED
            BY <2>2, <3>1, <3>2, <3>4
    <2>5. \A e \in Held \ {d} : b.at # live[e].at
        OBVIOUS
    <2> QED
        BY <2>3, <2>4, <2>5 DEF Contract!GoodPlace, Contract!Region, Contract!Held, Held
<1>9. Contract!KeepsOthers(d)
    BY OthersKeep
<1> QED
    BY <1>1, <1>2, <1>5, <1>6, <1>7, <1>8, <1>9 DEF AllocInv

\* The blocks in use are those of the client.
LEMMA UsedBlocksAre ==
    ASSUME AllocInv
    PROVE  UsedBlocks(heap) = {live[e].at - 1 : e \in Held}
<1>1. ASSUME NEW a \in UsedBlocks(heap)
      PROVE  \E e \in Held : a = live[e].at - 1
    <2>1. a \in Nat
        BY SoundIs, Bounds DEF AllocInv, UsedBlocks, UsedIn
    <2>2. PICK e \in Held : live[e].at = a + 1
        BY UsedAre DEF AllocInv, UsedIffHeld
    <2> QED
        BY <2>1, <2>2
<1> QED
    BY <1>1, Holds

\* The other holders' blocks are other blocks.
LEMMA OthersApart ==
    ASSUME AllocInv, NEW d \in Held, NEW e \in Held \ {d}
    PROVE  live[e].at # live[d].at /\ live[e].at - 1 # live[d].at - 1
<1>1. live[e].at # live[d].at
    BY DEF AllocInv, OneHolder
<1>2. live[e].at \in Nat /\ live[d].at \in Nat
    BY Holds
<1> QED
    BY <1>1, <1>2

\* mm_malloc or mm_realloc that found no room.
LEMMA RefusalStep ==
    ASSUME AllocInv, UNCHANGED vars
    PROVE  AllocInv' /\ Contract!Refuse
<1>1. AllocInv'
    BY DEF vars, AllocInv, ClientTypeOK, Held, UsedIffHeld, OneHolder
<1>2. Contract!Refuse
    BY DEF vars, Contract!Refuse, Contract!Keeps
<1> QED
    BY <1>1, <1>2

LEMMA MallocStep ==
    ASSUME AllocInv, NEW d \in Ids, NEW n \in Requests, n >= 1, DoMalloc(d, n)
    PROVE  AllocInv' /\ Contract!Next
<1> DEFINE m == Malloc(heap, n)
           p == m.ptr - 1
           s == BlockSize(n)
           g == Forget(m.heap, Payload(m.heap, m.ptr))
           b == Block(m.ptr, n, n)
<1>1. n \in Nat /\ s \in Nat /\ 2 + n <= s
    <2>1. n \in Nat
        BY HeapAssumption DEF Requests
    <2> QED
        BY <2>1, BlockSizes
<1>2. m.ptr # Null => m.ptr \in Nat /\ Serves(heap, m.heap, p, s)
    BY <1>1, MallocIs DEF AllocInv
<1>3. /\ live[d] = NoBlock /\ crashed' = crashed
      /\ m.ptr = Null => heap' = heap /\ live' = live
      /\ m.ptr # Null => /\ heap' = Write(g, m.ptr .. m.ptr + n - 1, d)
                         /\ live' = [live EXCEPT ![d] = b]
    BY DEF DoMalloc
<1> HIDE DEF m, s
<1>4. CASE m.ptr = Null
    BY <1>3, <1>4, RefusalStep DEF vars, Contract!Next
<1>5. CASE m.ptr # Null
    <2>1. m.ptr \in Nat /\ p \in Nat /\ Sound(m.heap) /\ p \in Blocks(m.heap) /\ m.ptr = p + 1
        BY <1>2, <1>5 DEF Serves, UsedBlocks, UsedIn
    <2>2. Inside(m.heap, g, p)
        BY <2>1, WriteInside DEF Forget
    <2> HIDE DEF g
    <2>3. Serves(heap, g, p, s)
        BY <1>2, <1>5, <2>1, <2>2, ServesOn DEF AllocInv
    <2>4. Sound(g) /\ p \in Blocks(g) /\ Size(g, p) \in Nat /\ Size(g, p) >= s
        BY <2>3 DEF Serves, UsedBlocks, UsedIn
    <2>5. m.ptr .. m.ptr + n - 1 \subseteq Payload(g, m.ptr)
        BY <1>1, <2>1, <2>4 DEF Payload
    <2>6. Inside(g, heap', p)
        BY <1>3, <1>5, <2>1, <2>4, <2>5, WriteInside
    <2>7. Serves(heap, heap', p, s)
        BY <2>3, <2>4, <2>6, ServesOn DEF AllocInv
    <2>8. /\ b \in [at : Nat, len : Nat, kept : Nat]
          /\ b.at = m.ptr /\ b.len = n /\ b.kept = n
        BY <1>1, <2>1 DEF Block
    <2> HIDE DEF b
    <2>9. Held \ {d} = Held /\ d \notin Held
        BY <1>3 DEF Held
    <2>10. OthersStand(d)
        BY <1>3, <1>5, <2>7, <2>9, Holds DEF OthersStand, AllocInv, ClientTypeOK, Serves
    <2>11. \A e \in Held \ {d} : live[e].at # b.at
        BY <2>7, <2>8, Holds DEF Serves
    <2>12. UsedBlocks(heap') = {live[e].at - 1 : e \in Held \ {d}} \cup {b.at - 1}
        BY <2>7, <2>8, <2>9, UsedBlocksAre DEF Serves
    <2>13. Sound(heap') /\ Size(heap', b.at - 1) >= 2 + b.len
        BY <1>1, <2>7, <2>8 DEF Serves
    <2>14. /\ AllocInv' /\ b # NoBlock /\ live'[d] = b
           /\ Contract!GoodPlace(d, b) /\ Contract!KeepsOthers(d)
        BY <1>1, <1>3, <1>5, <2>8, <2>10, <2>11, <2>12, <2>13, GainStep
    <2>15. \A w \in b.at .. b.at + b.kept - 1 : w \in Words /\ heap'.mem[w] = Content(d)
        <3>1. IsHeap(g) /\ Tiled(g, Blocks(g))
            BY <2>4, SoundIs
        <3>2. \A w \in m.ptr .. m.ptr + n - 1 : w \in Words
            BY <1>1, <2>1, <2>4, <3>1, InWords
        <3>3. \A w \in Words : w \in m.ptr .. m.ptr + n - 1 => heap'.mem[w] = Content(d)
            <4> DEFINE S == m.ptr .. m.ptr + n - 1
            <4>1. heap' = Write(g, S, d)
                BY <1>3, <1>5
            <4> HIDE DEF S
            <4>2. \A w \in Words : Write(g, S, d).mem[w] = IF w \in S THEN Content(d) ELSE g.mem[w]
                BY <3>1, WriteIs
            <4> QED
                BY <4>1, <4>2 DEF S
        <3> QED
            BY <2>8, <3>2, <3>3
    <2>16. DOMAIN heap'.mem = Words
        BY <2>13, SoundIs DEF IsHeap
    <2>17. \A w \in Contract!Written(b) :
              [v \in DOMAIN heap'.mem |->
                 IF heap'.mem[v][1] = "content" THEN heap'.mem[v][2] ELSE Junk][w] = d
        BY <2>15, <2>16, ContentIs DEF Contract!Written
    <2>18. Contract!Malloc(d)
        BY <1>3, <1>5, <2>9, <2>14, <2>17 DEF Contract!Malloc, Contract!Held, Held
    <2> QED
        BY <2>14, <2>18 DEF Contract!Next
<1> QED
    BY <1>4, <1>5

LEMMA CallocStep ==
    ASSUME AllocInv, NEW d \in Ids, NEW n \in Requests, n >= 1, DoCalloc(d, n)
    PROVE  AllocInv' /\ [Contract!Next]_(Contract!vars)
<1>1. n # 0
    BY HeapAssumption DEF Requests
<1>2. CASE Malloc(heap, n).ptr # Null
    BY <1>1, <1>2, MallocStep DEF DoCalloc
<1>3. CASE Malloc(heap, n).ptr = Null
    BY <1>1, <1>3
       DEF DoCalloc, AllocInv, ClientTypeOK, UsedIffHeld, OneHolder, Held, Contract!vars
<1> QED
    BY <1>2, <1>3

LEMMA FreeStep ==
    ASSUME AllocInv, NEW d \in Ids, DoFree(d)
    PROVE  AllocInv' /\ Contract!Next
<1> DEFINE p == live[d].at - 1
           g == Release(heap, live[d].at)
<1>1. d \in Held
    BY DEF DoFree, Held
<1>2. live[d].at \in Nat /\ p \in UsedBlocks(heap)
    BY <1>1, Holds
<1>3. /\ Sound(g) /\ UsedBlocks(g) = UsedBlocks(heap) \ {p}
      /\ \A x \in UsedBlocks(heap) \ {p} : Stands(heap, g, x)
    BY <1>2, ReleaseIs DEF AllocInv
<1>4. /\ heap' = g /\ crashed' = crashed
      /\ live' = [live EXCEPT ![d] = NoBlock]
    BY DEF DoFree
<1> HIDE DEF g
<1>5. live'[d] = NoBlock /\ \A e \in Ids \ {d} : live'[e] = live[e]
    BY <1>4 DEF AllocInv, ClientTypeOK
<1>6. Held' = Held \ {d}
    BY <1>5 DEF Held
<1>7. OthersStand(d)
    <2> SUFFICES ASSUME NEW e \in Held \ {d}
                 PROVE  /\ live'[e] = live[e]
                        /\ live[e].at - 1 \in UsedBlocks(heap')
                        /\ Stands(heap, heap', live[e].at - 1)
        BY DEF OthersStand
    <2>1. live[e].at - 1 \in UsedBlocks(heap) /\ e \in Ids
        BY Holds
    <2>2. live[e].at - 1 # p
        BY <1>1, OthersApart
    <2> QED
        BY <1>3, <1>4, <1>5, <2>1, <2>2
<1>8. UsedIffHeld'
    <2>1. \A e \in Held' : /\ live'[e].at - 1 \in UsedBlocks(heap')
                           /\ Size(heap', live'[e].at - 1) >= 2 + live'[e].len
        BY <1>6, <1>7, OthersAre, Holds
    <2>2. ASSUME NEW a \in UsedBlocks(heap')
          PROVE  \E e \in Held' : live'[e].at = a + 1
        <3>1. a \in UsedBlocks(heap) /\ a # p
            BY <1>3, <1>4
        <3>2. PICK e \in Held : a = live[e].at - 1
            BY <3>1, UsedBlocksAre
        <3>3. e # d /\ live[e].at \in Nat
            BY <3>1, <3>2, Holds
        <3>4. e \in Held' /\ live'[e] = live[e] /\ live[e].at = a + 1
            BY <1>6, <1>7, <3>2, <3>3, OthersAre
        <3> QED
            BY <3>4
    <2> QED
        BY <2>1, <2>2, UsedAre DEF UsedIffHeld
<1>9. ClientTypeOK' /\ OneHolder'
    <2>1. \A e \in Held' : live'[e] = live[e] /\ e \in Held
        BY <1>6, <1>7 DEF OthersStand
    <2>2. ClientTypeOK'
        BY <1>4, <2>1 DEF AllocInv, ClientTypeOK
    <2>3. \A e, f \in Held' : live'[e].at = live'[f].at => e = f
        BY <2>1 DEF AllocInv, OneHolder
    <2> QED
        BY <2>2, <2>3 DEF OneHolder
<1>10. Contract!Free(d)
    <2>1. Contract!KeepsOthers(d)
        BY <1>3, <1>4, <1>7, OthersKeep
    <2> QED
        BY <1>1, <1>4, <2>1 DEF Contract!Free, Contract!Held, Held
<1> QED
    BY <1>3, <1>4, <1>8, <1>9, <1>10 DEF AllocInv, Contract!Next

LEMMA ReallocInPlaceStep ==
    ASSUME AllocInv, NEW d \in Ids, NEW n \in Requests, DoReallocInPlace(d, n)
    PROVE  AllocInv' /\ Contract!Next
<1> DEFINE p    == live[d].at - 1
           kept == IF n < live[d].kept THEN n ELSE live[d].kept
           S    == (live[d].at + kept) .. (live[d].at + live[d].len - 1)
           b    == Block(live[d].at, n, kept)
<1>1. d \in Held /\ n \in Nat /\ n >= 1
    BY HeapAssumption DEF DoReallocInPlace, Held, Requests
<1>2. /\ live[d].at \in Nat /\ live[d].len \in Nat /\ live[d].kept \in Nat
      /\ live[d].kept <= live[d].len
      /\ p \in UsedBlocks(heap) /\ p \in Blocks(heap) /\ p \in Nat
      /\ Size(heap, p) \in Nat /\ Size(heap, p) >= 2 + live[d].len
    BY <1>1, Holds
<1>3. /\ heap' = Forget(heap, S) /\ crashed' = crashed
      /\ Size(heap, p) >= BlockSize(n)
      /\ live' = [live EXCEPT ![d] = b]
    BY DEF DoReallocInPlace
<1>4. kept \in Nat /\ kept <= n /\ kept <= live[d].kept
    BY <1>1, <1>2
<1>5. kept = IF n < live[d].kept THEN n ELSE live[d].kept
    OBVIOUS
<1> HIDE DEF kept
<1>6. /\ b \in [at : Nat, len : Nat, kept : Nat]
      /\ b.at = live[d].at /\ b.len = n /\ b.kept = kept
    BY <1>1, <1>2, <1>4 DEF Block
<1> HIDE DEF b
<1>7. Size(heap, p) >= 2 + n
    BY <1>1, <1>2, <1>3, BlockSizes
<1>8. S \subseteq Payload(heap, live[d].at)
    BY <1>2, <1>4 DEF Payload
<1>9. IsHeap(heap) /\ Sound(heap)
    BY SoundIs DEF AllocInv
<1>10. \A w \in Words : w \notin S => heap'.mem[w] = heap.mem[w]
    <2> HIDE DEF S
    <2>1. \A w \in Words : w \notin S => Forget(heap, S).mem[w] = heap.mem[w]
        BY <1>9, ForgetIs
    <2> QED
        BY <1>3, <2>1
<1>11. Inside(heap, heap', p)
    <2> HIDE DEF S
    <2>1. Inside(heap, Forget(heap, S), p)
        BY <1>2, <1>8, <1>9, WriteInside DEF Forget
    <2> QED
        BY <1>3, <2>1
<1>12. /\ Sound(heap') /\ UsedBlocks(heap') = UsedBlocks(heap)
       /\ Size(heap', p) = Size(heap, p)
       /\ \A x \in Blocks(heap) \ {p} : Stands(heap, heap', x)
    BY <1>2, <1>9, <1>11, InsideIs
<1>13. \A e \in Ids \ {d} : live'[e] = live[e]
    BY <1>3 DEF AllocInv, ClientTypeOK
<1>14. OthersStand(d)
    <2> SUFFICES ASSUME NEW e \in Held \ {d}
                 PROVE  /\ live'[e] = live[e]
                        /\ live[e].at - 1 \in UsedBlocks(heap')
                        /\ Stands(heap, heap', live[e].at - 1)
        BY DEF OthersStand
    <2>1. /\ live[e].at - 1 \in UsedBlocks(heap) /\ e \in Ids
          /\ live[e].at - 1 \in Blocks(heap)
        BY Holds
    <2>2. live[e].at - 1 # p
        BY <1>1, OthersApart
    <2> QED
        BY <1>12, <1>13, <2>1, <2>2
<1>15. /\ AllocInv' /\ b # NoBlock /\ live'[d] = b
       /\ Contract!GoodPlace(d, b) /\ Contract!KeepsOthers(d)
    <2>1. UsedBlocks(heap') = {live[e].at - 1 : e \in Held \ {d}} \cup {b.at - 1}
        BY <1>1, <1>6, <1>12, UsedBlocksAre
    <2>2. Size(heap', b.at - 1) >= 2 + b.len
        BY <1>6, <1>7, <1>12
    <2>3. \A e \in Held \ {d} : live[e].at # b.at
        BY <1>1, <1>6, OthersApart
    <2> QED
        BY <1>3, <1>4, <1>6, <1>12, <1>14, <2>1, <2>2, <2>3, GainStep
<1>16. \A k \in 0 .. kept - 1 : /\ live[d].at + k \in Words
                                /\ heap'.mem[live[d].at + k] = heap.mem[live[d].at + k]
    <2> SUFFICES ASSUME NEW k \in 0 .. kept - 1
                 PROVE  /\ live[d].at + k \in Words
                        /\ heap'.mem[live[d].at + k] = heap.mem[live[d].at + k]
        OBVIOUS
    <2> DEFINE w == live[d].at + k
    <2>1. w \in live[d].at .. live[d].at + live[d].kept - 1 /\ w \notin S
        BY <1>2, <1>4
    <2> HIDE DEF w, S
    <2>2. w \in Words
        BY <1>1, <2>1, WrittenIn
    <2> QED
        BY <1>10, <2>1, <2>2 DEF w
<1>17. Contract!Realloc(d)
    <2>1. DOMAIN heap.mem = Words /\ DOMAIN heap'.mem = Words
        BY <1>9, <1>12, SoundIs DEF IsHeap
    <2>2. \A k \in 0 .. b.kept - 1 :
             [v \in DOMAIN heap'.mem |->
                 IF heap'.mem[v][1] = "content" THEN heap'.mem[v][2] ELSE Junk][b.at + k]
             = [v \in DOMAIN heap.mem |->
                 IF heap.mem[v][1] = "content" THEN heap.mem[v][2] ELSE Junk][live[d].at + k]
        BY <1>6, <1>16, <2>1
    <2> QED
        BY <1>1, <1>3, <1>5, <1>6, <1>15, <2>2
           DEF Contract!Realloc, Contract!Held, Held
<1> QED
    BY <1>15, <1>17 DEF Contract!Next

LEMMA ResetStep ==
    ASSUME AllocInv, Reset
    PROVE  AllocInv' /\ Contract!Next
<1>1. Held' = {}
    BY DEF Reset, Held
<1>2. Sound(heap') /\ Blocks(heap') = {}
    BY InitSound DEF Reset
<1>3. UsedIffHeld' /\ OneHolder'
    BY <1>1, <1>2 DEF UsedIffHeld, OneHolder
<1>4. ClientTypeOK'
    BY <1>1 DEF ClientTypeOK, AllocInv, Reset
<1> QED
    BY <1>2, <1>3, <1>4 DEF AllocInv, Reset, Contract!Next, Contract!Reset

(* mm_realloc by a new block.  It copies all of the old payload, which is   *)
(* more than the client wrote and no more than the new one has room for:    *)
(* the old block was smaller than the new.                                  *)
LEMMA ReallocMovesStep ==
    ASSUME AllocInv, NEW d \in Ids, NEW n \in Requests, DoReallocMoves(d, n)
    PROVE  AllocInv' /\ Contract!Next
<1> DEFINE old    == live[d]
           q      == old.at - 1
           copied == Copied(heap, old.at)
           m      == Malloc(heap, n)
           p      == m.ptr - 1
           s      == BlockSize(n)
           new    == Forget(m.heap, Payload(m.heap, m.ptr))
           copy   == Memcpy(new, m.ptr, old.at, copied)
           b      == Block(m.ptr, n, old.kept)
<1>1. /\ d \in Held /\ n \in Nat /\ n >= 1
      /\ s \in Nat /\ 2 + n <= s /\ s <= n + 3 /\ s % 2 = 0
    <2>1. d \in Held /\ n \in Nat /\ n >= 1
        BY HeapAssumption DEF DoReallocMoves, Held, Requests
    <2> QED
        BY <2>1, BlockSizes
<1>2. m.ptr # Null => m.ptr \in Nat /\ Serves(heap, m.heap, p, s)
    BY <1>1, MallocIs DEF AllocInv
<1>3. /\ Size(heap, q) < s /\ crashed' = crashed
      /\ m.ptr = Null => heap' = heap /\ live' = live
      /\ m.ptr # Null => /\ heap' = Release(copy, old.at)
                         /\ live' = [live EXCEPT ![d] = b]
    BY DEF DoReallocMoves
<1> HIDE DEF m, s
<1>4. CASE m.ptr = Null
    BY <1>3, <1>4, RefusalStep DEF vars, Contract!Next
<1>5. CASE m.ptr # Null
    <2>1. /\ old.at \in Nat /\ old.len \in Nat /\ old.kept \in Nat /\ old.kept <= old.len
          /\ q \in UsedBlocks(heap) /\ q \in Blocks(heap)
          /\ Size(heap, q) \in Nat /\ Size(heap, q) >= 2 + old.len
        BY <1>1, Holds
    <2>2. copied \in Nat /\ copied = Size(heap, q) - 2 /\ old.len <= copied
        BY <2>1 DEF Copied
    <2>3. copied + 2 <= s /\ old.kept <= n
        <3>1. Tiled(heap, Blocks(heap))
            BY SoundIs DEF AllocInv
        <3>2. Size(heap, q) % 2 = 0
            BY <2>1, <3>1, Bounds
        <3>3. Size(heap, q) + 2 <= s
            BY <1>1, <1>3, <2>1, <3>2, EvenLess
        <3> HIDE DEF q, copied
        <3> QED
            BY <1>1, <2>1, <2>2, <3>3
    <2> HIDE DEF copied
    \* After mm_malloc: the old block stands, the new one has room.
    <2>4. m.ptr \in Nat /\ p \in Nat /\ Sound(m.heap) /\ p \in Blocks(m.heap) /\ m.ptr = p + 1
        BY <1>2, <1>5 DEF Serves, UsedBlocks, UsedIn
    <2>5. Inside(m.heap, new, p)
        BY <2>4, WriteInside DEF Forget
    <2> HIDE DEF new
    <2>6. Serves(heap, new, p, s)
        BY <1>2, <1>5, <2>5, ServesOn DEF AllocInv
    <2>7. Sound(new) /\ p \in Blocks(new) /\ Size(new, p) \in Nat /\ Size(new, p) >= s
        BY <2>6 DEF Serves, UsedBlocks, UsedIn
    \* After memcpy: so does the new one's content.
    <2>8. /\ Inside(new, copy, p)
          /\ \A w \in Words : copy.mem[w] = IF w \in m.ptr .. m.ptr + copied - 1
                                            THEN new.mem[old.at + (w - m.ptr)] ELSE new.mem[w]
        <3>1. copied + 2 <= Size(new, p)
            BY <1>1, <2>2, <2>3, <2>7
        <3> HIDE DEF old
        <3> QED
            BY <2>2, <2>4, <2>7, <3>1, MemcpyIs
    <2> HIDE DEF copy
    <2>9. Serves(heap, copy, p, s)
        BY <2>6, <2>7, <2>8, ServesOn DEF AllocInv
    <2>10. /\ Sound(copy) /\ UsedBlocks(copy) = UsedBlocks(heap) \cup {p}
           /\ q \in UsedBlocks(copy) /\ p \in UsedBlocks(copy) /\ p # q
           /\ p \notin UsedBlocks(heap)
           /\ \A x \in UsedBlocks(heap) : Stands(heap, copy, x)
           /\ Size(copy, p) \in Nat /\ Size(copy, p) >= s
        BY <2>1, <2>9 DEF Serves
    \* After mm_free of the old one.
    <2>11. /\ Sound(heap') /\ UsedBlocks(heap') = UsedBlocks(copy) \ {q}
           /\ \A x \in UsedBlocks(copy) \ {q} : Stands(copy, heap', x)
        BY <1>3, <1>5, <2>1, <2>10, ReleaseIs
    <2>12. Tiled(heap, Blocks(heap)) /\ Tiled(copy, Blocks(copy)) /\ Tiled(heap', Blocks(heap'))
        BY <2>10, <2>11, SoundIs DEF AllocInv
    <2>13. Size(heap', p) = Size(copy, p)
        BY <2>10, <2>11, <2>12, StandsIs DEF UsedBlocks, UsedIn
    <2>14. \A x \in UsedBlocks(heap) \ {q} : Stands(heap, heap', x)
        <3> SUFFICES ASSUME NEW x \in UsedBlocks(heap) \ {q} PROVE Stands(heap, heap', x)
            OBVIOUS
        <3>1. Stands(heap, copy, x) /\ Stands(copy, heap', x)
            BY <2>10, <2>11
        <3>2. Size(copy, x) = Size(heap, x)
            BY <2>12, <3>1, StandsIs DEF UsedBlocks, UsedIn
        <3> QED
            BY <3>1, <3>2 DEF Stands
    <2>15. /\ b \in [at : Nat, len : Nat, kept : Nat]
           /\ b.at = m.ptr /\ b.len = n /\ b.kept = old.kept
        BY <1>1, <2>1, <2>4 DEF Block
    <2> HIDE DEF b
    <2>16. \A e \in Ids \ {d} : live'[e] = live[e]
        BY <1>3, <1>5 DEF AllocInv, ClientTypeOK
    <2>17. OthersStand(d)
        <3> SUFFICES ASSUME NEW e \in Held \ {d}
                     PROVE  /\ live'[e] = live[e]
                            /\ live[e].at - 1 \in UsedBlocks(heap')
                            /\ Stands(heap, heap', live[e].at - 1)
            BY DEF OthersStand
        <3>1. live[e].at - 1 \in UsedBlocks(heap) /\ e \in Ids
            BY Holds
        <3>2. live[e].at - 1 # q
            BY <1>1, OthersApart
        <3> QED
            BY <2>10, <2>11, <2>14, <2>16, <3>1, <3>2
    <2>18. /\ AllocInv' /\ b # NoBlock /\ live'[d] = b
           /\ Contract!GoodPlace(d, b) /\ Contract!KeepsOthers(d)
        <3>1. UsedBlocks(heap') = {live[e].at - 1 : e \in Held \ {d}} \cup {b.at - 1}
            <4>1. UsedBlocks(heap') = ({live[e].at - 1 : e \in Held} \cup {p}) \ {q}
                BY <2>10, <2>11, UsedBlocksAre
            <4>2. {live[e].at - 1 : e \in Held} \ {q} = {live[e].at - 1 : e \in Held \ {d}}
                BY <1>1, OthersApart
            <4> QED
                BY <2>10, <2>15, <4>1, <4>2
        <3>2. Size(heap', b.at - 1) >= 2 + b.len
            BY <1>1, <2>10, <2>13, <2>15
        <3>3. \A e \in Held \ {d} : live[e].at # b.at
            BY <2>10, <2>15, Holds
        <3>4. b.len \in Requests /\ b.kept <= b.len
            BY <2>3, <2>15
        <3> QED
            BY <1>3, <1>5, <2>11, <2>15, <2>17, <3>1, <3>2, <3>3, <3>4, GainStep
    <2>19. ASSUME NEW k \in 0 .. old.kept - 1
           PROVE  /\ m.ptr + k \in Words /\ old.at + k \in Words
                  /\ heap'.mem[m.ptr + k] = heap.mem[old.at + k]
        <3> DEFINE w == m.ptr + k
                   v == old.at + k
        <3>1. k \in Nat /\ k < old.kept
            BY <2>1
        <3>2. v \in old.at .. old.at + old.kept - 1
            BY <2>1, <3>1
        <3>3. w \in m.ptr .. m.ptr + copied - 1 /\ old.at + (w - m.ptr) = v
            BY <2>1, <2>2, <2>4, <3>1
        <3>4. w \in Nat /\ p <= w /\ w < p + Size(copy, p)
            <4>1. k <= copied
                BY <2>1, <2>2, <3>1
            <4>2. copied + 1 < Size(copy, p)
                BY <1>1, <2>2, <2>3, <2>10
            <4> HIDE DEF old, p
            <4> QED
                BY <2>2, <2>4, <2>10, <3>1, <4>1, <4>2
        <3> HIDE DEF w, v
        <3>5. v \in Words /\ v \in Nat /\ q < v /\ v < q + Size(heap, q)
            BY <1>1, <3>2, WrittenIn
        <3>6. w \in Words
            BY <2>10, <2>12, <3>4, InWords DEF UsedBlocks, UsedIn
        <3>7. heap'.mem[w] = copy.mem[w]
            BY <2>10, <2>11, <3>4 DEF Stands
        <3>8. copy.mem[w] = new.mem[v]
            BY <2>8, <3>3, <3>6
        <3>9. new.mem[v] = heap.mem[v]
            <4>1. Stands(heap, new, q) /\ q \in Nat
                BY <2>1, <2>6, <2>12, Bounds DEF Serves
            <4> QED
                BY <2>1, <3>5, <4>1 DEF Stands
        <3> QED
            BY <3>5, <3>6, <3>7, <3>8, <3>9 DEF w, v
    <2>20. Contract!Realloc(d)
        <3>1. b.kept = IF b.len < old.kept THEN b.len ELSE old.kept
            BY <1>1, <2>1, <2>3, <2>15
        <3>2. DOMAIN heap.mem = Words /\ DOMAIN heap'.mem = Words
            BY <2>11, SoundIs DEF AllocInv, IsHeap
        <3>3. \A k \in 0 .. b.kept - 1 :
                 [v \in DOMAIN heap'.mem |->
                     IF heap'.mem[v][1] = "content" THEN heap'.mem[v][2] ELSE Junk][b.at + k]
                 = [v \in DOMAIN heap.mem |->
                     IF heap.mem[v][1] = "content" THEN heap.mem[v][2] ELSE Junk][old.at + k]
            BY <2>15, <2>19, <3>2
        <3> QED
            BY <1>1, <1>3, <1>5, <2>15, <2>18, <3>1, <3>3
               DEF Contract!Realloc, Contract!Held, Held
    <2> QED
        BY <2>18, <2>20 DEF Contract!Next
<1> QED
    BY <1>4, <1>5

LEMMA NextStep ==
    ASSUME MinRequest >= 1, AllocInv, [Next]_vars
    PROVE  AllocInv' /\ [Contract!Next]_(Contract!vars)
<1>1. \A n \in Requests : n >= 1
    BY HeapAssumption DEF Requests
<1>2. ASSUME NEW d \in Ids, NEW n \in Requests, DoMalloc(d, n)
      PROVE  AllocInv' /\ [Contract!Next]_(Contract!vars)
    BY <1>1, <1>2, MallocStep
<1>3. ASSUME NEW d \in Ids, NEW n \in Requests, DoCalloc(d, n)
      PROVE  AllocInv' /\ [Contract!Next]_(Contract!vars)
    BY <1>1, <1>3, CallocStep
<1>4. ASSUME NEW d \in Ids, NEW n \in Requests, DoReallocInPlace(d, n)
      PROVE  AllocInv' /\ [Contract!Next]_(Contract!vars)
    BY <1>4, ReallocInPlaceStep
<1>5. ASSUME NEW d \in Ids, NEW n \in Requests, DoReallocMoves(d, n)
      PROVE  AllocInv' /\ [Contract!Next]_(Contract!vars)
    BY <1>5, ReallocMovesStep
<1>6. ASSUME NEW d \in Ids, DoFree(d)
      PROVE  AllocInv' /\ [Contract!Next]_(Contract!vars)
    BY <1>6, FreeStep
<1>7. CASE Reset
    BY <1>7, ResetStep
<1>8. CASE UNCHANGED vars
    <2>1. AllocInv'
        BY <1>8, RefusalStep
    <2> QED
        BY <1>8, <2>1 DEF vars, Contract!vars
<1> QED
    BY <1>2, <1>3, <1>4, <1>5, <1>6, <1>7, <1>8 DEF Next

------------------------------------------------------------------------------
(* What holds for every client whose requests are of one byte or more *)

(* The heap stays well formed, and its used blocks stay the client's,       *)
(* whatever the client does with mm_malloc, mm_calloc, mm_realloc and       *)
(* mm_free.                                                                 *)
THEOREM AllocInvariant ==
    ASSUME MinRequest >= 1
    PROVE  Spec => []AllocInv
<1>1. Init => AllocInv
    BY InitAlloc
<1>2. AllocInv /\ [Next]_vars => AllocInv'
    BY NextStep
<1> QED
    BY <1>1, <1>2, PTL DEF Spec

(* Every block ends with a copy of its header, so that coalesce finds the   *)
(* block on the left of another by the word before it.                      *)
THEOREM FootersAreHeaders ==
    ASSUME MinRequest >= 1
    PROVE  Spec => []HeadersMatchFooters
<1>1. AllocInv => HeadersMatchFooters
    <2> SUFFICES ASSUME AllocInv, NEW a \in Blocks(heap)
                 PROVE  /\ heap.mem[a][1] = "tag"
                        /\ heap.mem[a + Size(heap, a) - 1] = heap.mem[a]
        BY DEF HeadersMatchFooters
    <2>1. TaggedAt(heap, a)
        BY SoundIs DEF AllocInv, Tiled
    <2> QED
        BY <2>1, TagIs DEF TaggedAt
<1> QED
    BY <1>1, AllocInvariant, PTL

(* The blocks tile the heap up to the break, mm_heap_last is the last of    *)
(* them, and no two free blocks are neighbours: one merge to the left and   *)
(* one to the right, at each mm_free, are enough.                           *)
THEOREM HeapIsCoalesced ==
    ASSUME MinRequest >= 1
    PROVE  Spec => []CoalescedTiling
<1>1. AllocInv => CoalescedTiling
    <2> SUFFICES ASSUME AllocInv PROVE CoalescedTiling
        OBVIOUS
    <2> DEFINE B == Blocks(heap)
    <2>1. Tiled(heap, B) /\ Separate(heap, FreeIn(heap, B))
        BY SoundIs DEF AllocInv
    <2>2. FreeBlocks(heap) = FreeIn(heap, B)
        BY UsedAre
    <2>3. \A a \in FreeBlocks(heap) : a + Size(heap, a) \notin FreeBlocks(heap)
        BY <2>1, <2>2 DEF Separate
    <2> HIDE DEF B
    <2>4. CASE B = {}
        <3>1. heap.brk = 1 /\ heap.first = Null /\ heap.last = Null
            BY <2>1, <2>4 DEF Tiled
        <3> QED
            BY <3>1 DEF CoalescedTiling
    <2>5. CASE B # {}
        <3>1. heap.last \in B /\ heap.first = 1
            BY <2>1, <2>5 DEF Tiled
        <3>2. heap.brk # 1
            BY <2>1, <3>1, Bounds
        <3>3. heap.last + Size(heap, heap.last) = heap.brk
            BY <2>1, <3>1, Successor
        <3> QED
            BY <2>3, <3>1, <3>2, <3>3 DEF CoalescedTiling, B
    <2> QED
        BY <2>4, <2>5
<1> QED
    BY <1>1, AllocInvariant, PTL

(* The free list, as find_fit walks it, comes to every free block once, to  *)
(* no other block, and to NULL after the last; each node but the first      *)
(* points back at the one before it, as remove_free_node needs.             *)
THEOREM FreeListIsExact ==
    ASSUME MinRequest >= 1
    PROVE  Spec => []FreeListExact
<1>1. AllocInv => FreeListExact
    <2> SUFFICES ASSUME AllocInv PROVE FreeListExact
        OBVIOUS
    <2> DEFINE B == Blocks(heap)
               S == FreeBlocks(heap)
               f == FreeNode(heap)
    <2>1. PICK F, n : Listed(heap, F, n) /\ Nodes(F, n) = FreeIn(heap, B)
        BY SoundIs DEF AllocInv
    <2>2. S = Nodes(F, n)
        BY <2>1, UsedAre
    <2>3. n \in Nat /\ n < MaxLength /\ MaxLength \in Nat
        BY <2>1, FewNodes, HalfHeap
    <2>4. \A k \in 1 .. MaxLength : f[k] = IF k <= n THEN F[k] ELSE Null
        BY <2>1, FreeNodeIs
    <2>5. \A k \in 1 .. n : F[k] # Null
        BY <2>1, ListedNodes
    <2> HIDE DEF B, S, f
    <2>6. Cardinality(S) = n
        <3> DEFINE g == [k \in 1 .. n |-> F[k]]
        <3>1. \A j, k \in 1 .. n : F[j] = F[k] => j = k
            BY <2>1 DEF Listed
        <3>2. g \in Bijection(1 .. n, S)
            BY <2>2, <3>1 DEF Nodes, Bijection, Injection, Surjection, IsInjective
        <3>3. ExistsBijection(1 .. n, S)
            BY <3>2 DEF ExistsBijection
        <3> QED
            BY <2>3, <3>3, FS_CountingElements
    <2>7. {f[k] : k \in 1 .. MaxLength} \ {Null} = S
        BY <2>2, <2>3, <2>4, <2>5 DEF Nodes
    <2>8. \A k \in 1 .. MaxLength : (f[k] = Null) <=> (k > n)
        BY <2>3, <2>4, <2>5
    <2>9. \A k \in 2 .. n : Left(heap, f[k]) = f[k - 1]
        <3> SUFFICES ASSUME NEW k \in 2 .. n PROVE Left(heap, f[k]) = f[k - 1]
            OBVIOUS
        <3>1. Left(heap, F[k]) = F[k - 1]
            BY <2>1 DEF Listed
        <3>2. f[k] = F[k] /\ f[k - 1] = F[k - 1]
            BY <2>3, <2>4
        <3> QED
            BY <3>1, <3>2
    <2> QED
        BY <2>6, <2>7, <2>8, <2>9 DEF FreeListExact, S, f
<1> QED
    BY <1>1, AllocInvariant, PTL

(* The allocated bit of a header says that the client holds the payload:    *)
(* no block leaks and none is handed out twice.                             *)
THEOREM NothingLeaksOrIsSharedOut ==
    ASSUME MinRequest >= 1
    PROVE  Spec => []UsedIffHeld
<1>1. AllocInv => UsedIffHeld
    BY DEF AllocInv
<1> QED
    BY <1>1, AllocInvariant, PTL

(* mm_malloc answers NULL only if no stretch of free words, in however many *)
(* free blocks, is as long as the block: there is nothing left to merge,    *)
(* and find_fit overlooks no free block.                                    *)
THEOREM NullMeansNoRoom ==
    ASSUME MinRequest >= 1
    PROVE  Spec => []FailsOnlyWithoutRoom
<1>1. AllocInv => FailsOnlyWithoutRoom
    <2> SUFFICES ASSUME AllocInv, NEW n \in Requests, Malloc(heap, n).ptr = Null,
                        NEW x \in FreeWords(heap),
                        x .. x + BlockSize(n) - 1 \subseteq FreeWords(heap)
                 PROVE  FALSE
        BY DEF FailsOnlyWithoutRoom
    <2> DEFINE s == BlockSize(n)
               B == Blocks(heap)
    <2>1. n \in Nat /\ n >= 1
        BY HeapAssumption DEF Requests
    <2>2. s \in Nat /\ s >= 4
        BY <2>1, BlockSizes
    <2>3. Tiled(heap, B) /\ Separate(heap, FreeIn(heap, B)) /\ Sound(heap)
        BY SoundIs DEF AllocInv
    <2>4. Fitting(heap, s) = {}
        BY <2>1, <2>3, MallocIs
    <2>5. \A a \in FreeIn(heap, B) : ~(Size(heap, a) >= s)
        BY <2>3, <2>4, FittingIs
    <2>6. x .. x + s - 1 \subseteq FreeWords(heap)
        OBVIOUS
    <2> HIDE DEF s
    <2>7. ASSUME NEW w \in FreeWords(heap)
          PROVE  w \in Nat /\ \E a \in FreeIn(heap, B) : a <= w /\ w < a + Size(heap, a)
        <3>1. PICK a \in FreeIn(heap, B) : w \in a .. a + Size(heap, a) - 1
            BY UsedAre DEF FreeWords
        <3>2. a \in Nat /\ Size(heap, a) \in Nat
            BY <2>3, Bounds DEF FreeIn
        <3> QED
            BY <3>1, <3>2
    <2>8. x \in Nat
        BY <2>7
    <2>9. PICK a \in FreeIn(heap, B) : a <= x /\ x < a + Size(heap, a)
        BY <2>7
    <2>10. a \in B /\ a \in Nat /\ Size(heap, a) \in Nat /\ Size(heap, a) < s
        BY <2>2, <2>3, <2>5, Bounds DEF FreeIn
    <2> DEFINE e == a + Size(heap, a)
    <2>11. e \in Nat /\ e \in x .. x + s - 1
        BY <2>2, <2>8, <2>9, <2>10
    <2>12. PICK b \in FreeIn(heap, B) : b <= e /\ e < b + Size(heap, b)
        BY <2>6, <2>7, <2>11
    <2>13. b \in B /\ b \in Nat /\ a # b
        BY <2>3, <2>10, <2>11, <2>12, Bounds DEF FreeIn
    <2>14. a + Size(heap, a) <= b \/ b + Size(heap, b) <= a
        BY <2>3, <2>10, <2>13, Apart
    <2>15. Size(heap, b) \in Nat
        BY <2>3, <2>13, Bounds
    <2>16. b = e
        BY <2>10, <2>12, <2>13, <2>14, <2>15
    <2> QED
        BY <2>3, <2>9, <2>12, <2>16 DEF Separate
<1> QED
    BY <1>1, AllocInvariant, PTL

(* The allocator implements the contract of mm_malloc, mm_calloc,           *)
(* mm_realloc and mm_free, step by step: aligned payloads inside the heap   *)
(* and clear of each other, whose content no operation on another block, no *)
(* header, footer or link, and no move by mm_realloc destroys.              *)
THEOREM AllocatorIsImplemented ==
    ASSUME MinRequest >= 1
    PROVE  Spec => ImplementsAllocator
<1>1. Init => Contract!Init
    BY DEF Init, Contract!Init
<1>2. AllocInv /\ [Next]_vars => [Contract!Next]_(Contract!vars)
    BY NextStep
<1> QED
    BY <1>1, <1>2, AllocInvariant, PTL DEF Spec, ImplementsAllocator, Contract!Spec
==============================================================================
