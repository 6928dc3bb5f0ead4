-------------------------- MODULE ImplicitHeapProofs --------------------------
(****************************************************************************)
(* The invariants of the implicit-list allocator, and that it implements    *)
(* its contract, for every heap, every number of blocks and every request.  *)
(*                                                                          *)
(* The allocator is functions from heap to heap, so most of the work is a   *)
(* fact per function: it leaves a heap Sound, and what it does to the used  *)
(* blocks.  The client's operations then see nothing of the heap but        *)
(* UsedBlocks and their sizes.                                              *)
(****************************************************************************)
EXTENDS ImplicitHeap, WellFoundedInduction, TLAPS

\* A heap that the functions of the model may take.
IsHeap(h) == h = [brk |-> h.brk, header |-> h.header, first |-> h.first, last |-> h.last]

UsedBlocks(h) == {a \in Blocks(h) : Used(h, a)}

(* The invariant of the heap alone: TypeOK, BlocksTileHeap and              *)
(* TraversalsAreExact, of any heap an operation passes through.             *)
Sound(h) ==
    /\ IsHeap(h)
    /\ h.brk \in Nat /\ h.brk + 1 <= MaxHeap
    /\ h.last \in Nat /\ h.last < h.brk
    /\ Blocks(h) \subseteq Nat \ {0}
    /\ \A a \in Blocks(h) : Size(h, a) \in Nat /\ Used(h, a) \in BOOLEAN
    /\ \A a \in Blocks(h) : a <= h.last
    /\ Tiling(h)

\* The used blocks are the same, and as large.
SameUsed(h, g) ==
    /\ UsedBlocks(g) = UsedBlocks(h)
    /\ \A a \in UsedBlocks(h) : Size(g, a) = Size(h, a)

------------------------------------------------------------------------------
(* Arithmetic *)

LEMMA LeastNat ==
    ASSUME NEW S \in SUBSET Nat, S # {}
    PROVE  \E a \in S : \A b \in S : a <= b
<1>1. IsWellFoundedOn(OpToRel(<, Nat), Nat)
    BY NatLessThanWellFounded
<1>2. PICK a \in S : \A b \in S : ~ (<<b, a>> \in OpToRel(<, Nat))
    BY <1>1, WFMin
<1>3. \A b \in S : ~ (b < a)
    BY <1>2 DEF OpToRel
<1> QED
    BY <1>3

LEMMA LeastIs ==
    ASSUME NEW S \in SUBSET Nat, S # {}
    PROVE  Least(S) \in S /\ \A b \in S : Least(S) <= b
<1>1. \E a \in S : \A b \in S : a <= b
    BY LeastNat
<1> QED
    BY <1>1 DEF Least

\* The last element of S that is not beyond x.
LEMMA GreatestBelow ==
    ASSUME NEW S \in SUBSET Nat, NEW x \in Nat, NEW y \in S, y <= x
    PROVE  \E a \in S : a <= x /\ \A b \in S : b <= x => b <= a
<1> DEFINE D == {x - b : b \in {c \in S : c <= x}}
<1>1. D \subseteq Nat /\ D # {}
    OBVIOUS
<1> HIDE DEF D
<1>2. PICK k \in D : \A i \in D : k <= i
    BY <1>1, LeastNat
<1>3. PICK a \in S : a <= x /\ k = x - a
    BY DEF D
<1>4. ASSUME NEW b \in S, b <= x
      PROVE  b <= a
    <2>1. x - b \in D
        BY <1>4 DEF D
    <2>2. x - a <= x - b
        BY <1>2, <1>3, <2>1
    <2> QED
        BY <2>2
<1> QED
    BY <1>3, <1>4

LEMMA BlockSizes ==
    ASSUME NEW n \in Nat
    PROVE  /\ BlockSize(n) \in Nat /\ BlockSize(n) % 2 = 0
           /\ BlockSize(n) >= 2
           /\ 1 + n <= BlockSize(n) /\ BlockSize(n) <= n + 2
    BY DEF BlockSize, RoundUp

LEMMA EvenLess ==
    ASSUME NEW a \in Nat, NEW b \in Nat, a % 2 = 0, b % 2 = 0, a < b
    PROVE  a + 2 <= b
    OBVIOUS

LEMMA MinBlockIs == MinBlock = 2
    BY DEF MinBlock, RoundUp

------------------------------------------------------------------------------
(* What a sound heap looks like *)

LEMMA Bounds ==
    ASSUME NEW h, Sound(h), NEW a \in Blocks(h)
    PROVE  /\ a \in Nat /\ a >= 1 /\ a % 2 = 1
           /\ Size(h, a) \in Nat /\ Size(h, a) >= 2 /\ Size(h, a) % 2 = 0
           /\ h.brk \in Nat /\ a + Size(h, a) <= h.brk /\ h.brk < MaxHeap
    BY HeapAssumption DEF Sound, Tiling

LEMMA Apart ==
    ASSUME NEW h, Sound(h), NEW a \in Blocks(h), NEW b \in Blocks(h), a # b
    PROVE  a + Size(h, a) <= b \/ b + Size(h, b) <= a
    BY Bounds DEF Sound, Tiling

\* No header lies inside a block.
LEMMA NoHeaderInside ==
    ASSUME NEW h, Sound(h), NEW a \in Blocks(h),
           NEW w \in Nat, a < w, w < a + Size(h, a)
    PROVE  w \notin Blocks(h)
<1>1. SUFFICES ASSUME w \in Blocks(h) PROVE FALSE
    OBVIOUS
<1>2. a + Size(h, a) <= w \/ w + Size(h, w) <= a
    BY <1>1, Apart
<1> QED
    BY <1>1, <1>2, Bounds

\* Every word between the padding and the break belongs to a block.
LEMMA Covered ==
    ASSUME NEW h, Sound(h), NEW w \in Nat, 1 <= w, w < h.brk
    PROVE  \E a \in Blocks(h) : a <= w /\ w < a + Size(h, a)
<1>1. 1 \in Blocks(h) /\ Blocks(h) \in SUBSET Nat
    BY DEF Sound, Tiling
<1>2. PICK a \in Blocks(h) : a <= w /\ \A b \in Blocks(h) : b <= w => b <= a
    BY <1>1, GreatestBelow
<1>3. a + Size(h, a) = h.brk \/ a + Size(h, a) \in Blocks(h)
    BY DEF Sound, Tiling
<1>4. w < a + Size(h, a)
    BY <1>2, <1>3, Bounds
<1> QED
    BY <1>2, <1>4

LEMMA VisitsAll ==
    ASSUME NEW h, Sound(h)
    PROVE  Visited(h) = Blocks(h)
    BY DEF Sound, Visited, Null

LEMMA InitSound == Sound(InitHeap) /\ Blocks(InitHeap) = {}
    BY HeapAssumption DEF Sound, IsHeap, InitHeap, Blocks, Tiling, Null

------------------------------------------------------------------------------
(* Writing one header *)

\* g is h with the header at a written.
Writes(h, a, n, u, g) ==
    /\ IsHeap(g)
    /\ g.brk = h.brk /\ g.first = h.first /\ g.last = h.last
    /\ Blocks(g) = Blocks(h) \cup {a}
    /\ Size(g, a) = n /\ Used(g, a) = u
    /\ \A b \in Blocks(h) : b # a => Size(g, b) = Size(h, b) /\ Used(g, b) = Used(h, b)

LEMMA SetHeaderWrites ==
    ASSUME NEW h, IsHeap(h), NEW a, NEW n, NEW u
    PROVE  Writes(h, a, n, u, SetHeader(h, a, n, u))
<1> DEFINE hd == [b \in DOMAIN h.header \cup {a} |->
                     IF b = a THEN [size |-> n, used |-> u] ELSE h.header[b]]
           s  == SetHeader(h, a, n, u)
<1>1. s = [brk |-> h.brk, header |-> hd, first |-> h.first, last |-> h.last]
    BY DEF SetHeader, IsHeap
<1> HIDE DEF s
<1>2. s.header = hd /\ s.brk = h.brk /\ s.first = h.first /\ s.last = h.last
    BY <1>1
<1>3. IsHeap(s)
    BY <1>1, <1>2 DEF IsHeap
<1>4. Blocks(s) = Blocks(h) \cup {a}
    BY <1>2 DEF Blocks
<1>5. s.header[a] = [size |-> n, used |-> u]
    BY <1>2
<1>6. \A b \in Blocks(h) : b # a => s.header[b] = h.header[b]
    BY <1>2 DEF Blocks
<1>7. Writes(h, a, n, u, s)
    BY <1>2, <1>3, <1>4, <1>5, <1>6 DEF Size, Used, Writes
<1> QED
    BY <1>7 DEF s

\* g is h with block a marked used, or free.
Marks(h, a, u, g) ==
    /\ Sound(g) /\ Blocks(g) = Blocks(h)
    /\ \A b \in Blocks(h) : Size(g, b) = Size(h, b)
    /\ UsedBlocks(g) = IF u THEN UsedBlocks(h) \cup {a} ELSE UsedBlocks(h) \ {a}

(* A header rewritten with its own size: mm_free, and the end of mm_malloc. *)
LEMMA MarkMarks ==
    ASSUME NEW h, Sound(h), NEW a \in Blocks(h), NEW u \in BOOLEAN
    PROVE  Marks(h, a, u, SetHeader(h, a, Size(h, a), u))
<1> DEFINE s == SetHeader(h, a, Size(h, a), u)
<1>1. Writes(h, a, Size(h, a), u, s)
    BY SetHeaderWrites DEF Sound
<1> HIDE DEF s
<1>2. Blocks(s) = Blocks(h) /\ \A b \in Blocks(h) : Size(s, b) = Size(h, b)
    BY <1>1 DEF Writes
<1>3. \A b \in Blocks(h) : Used(s, b) = IF b = a THEN u ELSE Used(h, b)
    BY <1>1 DEF Writes
<1>4. Sound(s)
    BY <1>1, <1>2, <1>3 DEF Sound, Tiling, Writes
<1>5. UsedBlocks(s) = IF u THEN UsedBlocks(h) \cup {a} ELSE UsedBlocks(h) \ {a}
    BY <1>2, <1>3 DEF UsedBlocks
<1>6. Marks(h, a, u, s)
    BY <1>2, <1>4, <1>5 DEF Marks
<1> QED
    BY <1>6 DEF s

------------------------------------------------------------------------------
(* coalesce *)

\* The blocks that stay, and where each ends then.
Rest(h)   == Blocks(h) \ Absorbed(h)
End(h, a) == Least({b \in Rest(h) \cup {h.brk} : b > a})

LEMMA EndIs ==
    ASSUME NEW h, Sound(h), NEW a \in Blocks(h)
    PROVE  /\ End(h, a) \in Rest(h) \cup {h.brk} /\ End(h, a) > a
           /\ \A b \in Rest(h) \cup {h.brk} : b > a => End(h, a) <= b
<1> DEFINE S == {b \in Rest(h) \cup {h.brk} : b > a}
<1>1. h.brk > a
    BY Bounds
<1>2. S \in SUBSET Nat /\ S # {}
    BY <1>1 DEF Sound, Rest
<1>3. Least(S) \in S /\ \A b \in S : Least(S) <= b
    BY <1>2, LeastIs
<1> QED
    BY <1>3 DEF End

\* The block after a used one is not absorbed: the used one keeps its end.
LEMMA UsedKeepsEnd ==
    ASSUME NEW h, Sound(h), NEW a \in Blocks(h), Used(h, a)
    PROVE  a \in Rest(h) /\ End(h, a) = a + Size(h, a)
<1>1. a \in Rest(h)
    BY DEF Rest, Absorbed
<1> DEFINE e == a + Size(h, a)
<1>2. e \notin Absorbed(h)
    <2>1. SUFFICES ASSUME NEW b \in Blocks(h), ~Used(h, b), b + Size(h, b) = e
                   PROVE  FALSE
        BY VisitsAll DEF Absorbed
    <2>2. a + Size(h, a) <= b \/ b + Size(h, b) <= a
        BY <2>1, Apart
    <2> QED
        BY <2>1, <2>2, Bounds
<1>3. e \in Rest(h) \cup {h.brk}
    BY <1>2 DEF Sound, Tiling, Rest
<1>4. e > a
    BY Bounds
<1>5. End(h, a) <= e
    BY <1>3, <1>4, EndIs
<1>6. End(h, a) >= e
    BY EndIs, Bounds DEF Sound, Tiling, Rest
<1> QED
    BY <1>1, <1>5, <1>6, EndIs, Bounds DEF Rest

LEMMA CoalesceIs ==
    ASSUME NEW h, Sound(h), NEW c, c = Coalesce(h)
    PROVE  /\ IsHeap(c)
           /\ c.brk = h.brk /\ c.first = h.first /\ c.last = h.last
           /\ Blocks(c) = Rest(h)
           /\ \A a \in Rest(h) : /\ Size(c, a) = End(h, a) - a
                                 /\ Used(c, a) = Used(h, a)
<1> DEFINE hd == [a \in Rest(h) |->
                     IF Used(h, a) \/ a \notin Visited(h) THEN h.header[a]
                     ELSE [size |-> End(h, a) - a, used |-> FALSE]]
<1>1. c = [h EXCEPT !.header = hd]
    BY DEF Coalesce, Rest, End
<1>2. c = [brk |-> h.brk, header |-> hd, first |-> h.first, last |-> h.last]
    BY <1>1 DEF Sound, IsHeap
<1>3. c.header = hd /\ c.brk = h.brk /\ c.first = h.first /\ c.last = h.last
    BY <1>2
<1>4. IsHeap(c)
    BY <1>2, <1>3 DEF IsHeap
<1>5. Blocks(c) = Rest(h)
    BY <1>3 DEF Blocks
<1>6. ASSUME NEW a \in Rest(h), Used(h, a)
      PROVE  Size(c, a) = End(h, a) - a /\ Used(c, a) = Used(h, a)
    <2>1. c.header[a] = h.header[a]
        BY <1>3, <1>6
    <2>2. a \in Blocks(h)
        BY DEF Rest
    <2>3. End(h, a) = a + Size(h, a)
        BY <1>6, <2>2, UsedKeepsEnd
    <2> QED
        BY <2>1, <2>2, <2>3, Bounds DEF Size, Used
<1>7. ASSUME NEW a \in Rest(h), ~Used(h, a)
      PROVE  Size(c, a) = End(h, a) - a /\ Used(c, a) = Used(h, a)
    <2>1. a \in Visited(h) /\ Used(h, a) = FALSE
        BY <1>7, VisitsAll DEF Rest, Sound
    <2>2. c.header[a] = [size |-> End(h, a) - a, used |-> FALSE]
        BY <1>3, <1>7, <2>1
    <2>3. Size(c, a) = End(h, a) - a
        BY <2>2 DEF Size
    <2>4. Used(c, a) = FALSE
        BY <2>2 DEF Used
    <2> QED
        BY <2>1, <2>3, <2>4
<1> QED
    BY <1>3, <1>4, <1>5, <1>6, <1>7

LEMMA CoalesceSound ==
    ASSUME NEW h, Sound(h), NEW c, c = Coalesce(h)
    PROVE  Sound(c) /\ SameUsed(h, c)
<1>1. /\ IsHeap(c)
      /\ c.brk = h.brk /\ c.first = h.first /\ c.last = h.last
      /\ Blocks(c) = Rest(h)
      /\ \A a \in Rest(h) : /\ Size(c, a) = End(h, a) - a
                            /\ Used(c, a) = Used(h, a)
    BY CoalesceIs
<1>2. Rest(h) \subseteq Blocks(h)
    BY DEF Rest
<1>3. \A a \in Rest(h) : /\ a + Size(c, a) = End(h, a)
                         /\ Size(c, a) \in Nat /\ Size(c, a) > 0 /\ Size(c, a) % 2 = 0
    <2> TAKE a \in Rest(h)
    <2>1. End(h, a) \in Nat /\ End(h, a) % 2 = 1 /\ End(h, a) > a
        BY <1>2, EndIs DEF Sound, Tiling
    <2>2. a \in Nat /\ a % 2 = 1
        BY <1>2, Bounds
    <2>3. Size(c, a) = End(h, a) - a
        BY <1>1
    <2> QED
        BY <2>1, <2>2, <2>3
<1>4. Blocks(h) # {} => 1 \in Rest(h)
    <2>1. SUFFICES ASSUME Blocks(h) # {}, 1 \in Absorbed(h) PROVE FALSE
        <3>1. ASSUME NEW a \in Blocks(h) PROVE h.brk # 1
            BY Bounds
        <3>2. Blocks(h) # {} => 1 \in Blocks(h)
            BY <3>1 DEF Sound, Tiling
        <3> QED
            BY <3>2 DEF Rest
    <2>2. PICK b \in Blocks(h) : b + Size(h, b) = 1
        BY <2>1, VisitsAll DEF Absorbed
    <2> QED
        BY <2>2, Bounds
<1>5. Tiling(c)
    <2>1. h.brk % 2 = 1
        BY DEF Sound, Tiling
    <2>2. h.first = IF Rest(h) = {} THEN Null ELSE 1
        BY <1>2, <1>4 DEF Sound, Tiling
    <2>3. h.brk # 1 => 1 \in Rest(h)
        BY <1>4 DEF Sound, Tiling
    <2>4. ASSUME NEW a \in Rest(h)
          PROVE  /\ a % 2 = 1
                 /\ End(h, a) = h.brk \/ End(h, a) \in Rest(h)
                 /\ End(h, a) <= h.brk
                 /\ \A b \in Rest(h) : b > a => b >= End(h, a)
        BY <1>2, EndIs, Bounds DEF Sound
    <2> QED
        BY <1>1, <1>3, <2>1, <2>2, <2>3, <2>4 DEF Tiling
<1>6. Sound(c)
    BY <1>1, <1>2, <1>3, <1>5 DEF Sound
<1>7. UsedBlocks(c) = UsedBlocks(h)
    BY <1>1, <1>2, UsedKeepsEnd DEF UsedBlocks
<1>8. \A a \in UsedBlocks(h) : Size(c, a) = Size(h, a)
    BY <1>1, UsedKeepsEnd, Bounds DEF UsedBlocks
<1> QED
    BY <1>6, <1>7, <1>8 DEF SameUsed

\* No two free neighbours are left.
LEMMA CoalesceMerges ==
    ASSUME NEW h, Sound(h), NEW a \in Blocks(Coalesce(h)), NEW b \in Blocks(Coalesce(h)),
           ~Used(Coalesce(h), a), ~Used(Coalesce(h), b)
    PROVE  a + Size(Coalesce(h), a) # b
<1>1. a \in Rest(h) /\ b \in Rest(h) /\ ~Used(h, a) /\ ~Used(h, b)
    BY CoalesceIs
<1>2. a \in Blocks(h) /\ b \in Blocks(h) /\ a \in Nat /\ b \in Nat /\ a >= 1
    BY <1>1, Bounds DEF Rest
<1>3. SUFFICES ASSUME a + Size(Coalesce(h), a) = b PROVE FALSE
    OBVIOUS
<1>4. End(h, a) = b
    <2>1. Size(Coalesce(h), a) = End(h, a) - a
        BY <1>1, CoalesceIs
    <2>2. End(h, a) \in Nat
        BY <1>2, EndIs DEF Rest, Sound
    <2> QED
        BY <1>2, <1>3, <2>1, <2>2
<1>5. a < b /\ b - 1 \in Nat /\ b - 1 < h.brk /\ 1 <= b - 1
    BY <1>2, <1>4, EndIs, Bounds
<1>6. PICK p \in Blocks(h) : p <= b - 1 /\ b - 1 < p + Size(h, p)
    BY <1>5, Covered
<1>7. p + Size(h, p) = b
    BY <1>2, <1>5, <1>6, Bounds, Apart
<1>8. CASE Used(h, p)
    <2>1. p \in Rest(h)
        BY <1>8, UsedKeepsEnd
    <2>2. a < p
        BY <1>1, <1>2, <1>5, <1>6, <1>7, <1>8, Bounds, Apart
    <2>3. End(h, a) <= p
        BY <1>2, <2>1, <2>2, EndIs
    <2> QED
        BY <1>2, <1>4, <1>6, <2>3, Bounds
<1>9. CASE ~Used(h, p)
    BY <1>1, <1>2, <1>7, <1>9, VisitsAll DEF Absorbed, Rest
<1> QED
    BY <1>8, <1>9

------------------------------------------------------------------------------
(* find_fit, the split, and a new block at the break *)

LEMMA SplitKeeps ==
    ASSUME NEW h, Sound(h), NEW n \in Nat, n % 2 = 0, n >= 2,
           NEW a \in Blocks(h), ~Used(h, a), Size(h, a) >= n,
           NEW s, s = Split(h, a, n)
    PROVE  /\ Sound(s) /\ SameUsed(h, s)
           /\ a \in Blocks(s) /\ ~Used(s, a) /\ Size(s, a) >= n
<1>1. CASE Size(h, a) - n < MinBlock
    BY <1>1 DEF Split, SameUsed
<1>2. CASE ~(Size(h, a) - n < MinBlock)
    <2> DEFINE nxt  == a + n
               left == Size(h, a) - n
               g    == SetHeader(h, a, n, FALSE)
               cut  == SetHeader(g, nxt, left, FALSE)
    <2>1. /\ left \in Nat /\ left >= 2 /\ left % 2 = 0
          /\ nxt \in Nat /\ nxt % 2 = 1 /\ nxt > a /\ nxt + left = a + Size(h, a)
        BY <1>2, Bounds, MinBlockIs
    <2>2. nxt \notin Blocks(h)
        BY <2>1, Bounds, NoHeaderInside
    <2>3. /\ IsHeap(g)
          /\ g.brk = h.brk /\ g.first = h.first /\ g.last = h.last
          /\ Blocks(g) = Blocks(h)
          /\ Size(g, a) = n /\ Used(g, a) = FALSE
          /\ \A b \in Blocks(h) : b # a => Size(g, b) = Size(h, b) /\ Used(g, b) = Used(h, b)
        <3>1. Writes(h, a, n, FALSE, g)
            BY SetHeaderWrites DEF Sound
        <3> QED
            BY <3>1 DEF Writes
    <2> HIDE DEF g
    <2>4. /\ IsHeap(cut)
          /\ cut.brk = h.brk /\ cut.first = h.first /\ cut.last = h.last
          /\ Blocks(cut) = Blocks(h) \cup {nxt}
          /\ Size(cut, nxt) = left /\ Used(cut, nxt) = FALSE
          /\ \A b \in Blocks(h) : Size(cut, b) = Size(g, b) /\ Used(cut, b) = Used(g, b)
        <3>1. Writes(g, nxt, left, FALSE, cut)
            BY <2>3, SetHeaderWrites
        <3> QED
            BY <2>2, <2>3, <3>1 DEF Writes
    <2> HIDE DEF cut
    <2>5. s = [cut EXCEPT !.last = IF nxt > @ THEN nxt ELSE @]
        BY <1>2 DEF Split, cut, g
    <2>6. s = [brk |-> cut.brk, header |-> cut.header, first |-> cut.first,
               last |-> IF nxt > cut.last THEN nxt ELSE cut.last]
        BY <2>4, <2>5 DEF IsHeap
    <2>7. /\ s.brk = cut.brk /\ s.header = cut.header /\ s.first = cut.first
          /\ s.last = IF nxt > cut.last THEN nxt ELSE cut.last
        BY <2>6
    <2>8. IsHeap(s)
        BY <2>6, <2>7 DEF IsHeap
    <2>9. /\ Blocks(s) = Blocks(cut)
          /\ \A b : Size(s, b) = Size(cut, b)
          /\ \A b : Used(s, b) = Used(cut, b)
        BY <2>7 DEF Blocks, Size, Used
    <2>10. /\ s.brk = h.brk /\ s.first = h.first
           /\ s.last = IF nxt > h.last THEN nxt ELSE h.last
           /\ Blocks(s) = Blocks(h) \cup {nxt}
           /\ Size(s, nxt) = left /\ Used(s, nxt) = FALSE
           /\ Size(s, a) = n /\ Used(s, a) = FALSE
           /\ \A b \in Blocks(h) : b # a => Size(s, b) = Size(h, b) /\ Used(s, b) = Used(h, b)
        BY <2>3, <2>4, <2>7, <2>9
    <2> HIDE DEF nxt, left
    <2>11. a + n = nxt
        BY DEF nxt
    <2>12. Tiling(s)
        <3>1. /\ s.brk % 2 = 1
              /\ s.first = IF Blocks(s) = {} THEN Null ELSE 1
              /\ s.brk # 1 => 1 \in Blocks(s)
            BY <2>10 DEF Sound, Tiling
        <3>2. a + Size(s, a) = nxt /\ nxt + Size(s, nxt) = a + Size(h, a)
            BY <2>1, <2>10, <2>11
        <3>3. ASSUME NEW b \in Blocks(h), b # a
              PROVE  nxt <= b \/ b + Size(h, b) <= a
            BY <2>1, <3>3, Apart, Bounds
        <3>4. ASSUME NEW b \in Blocks(h), b > a
              PROVE  b >= nxt + left
            BY <2>1, <3>4, Apart, Bounds
        <3>5. ASSUME NEW b \in Blocks(h), b # a
              PROVE  /\ b % 2 = 1
                     /\ Size(s, b) > 0 /\ Size(s, b) % 2 = 0
                     /\ b + Size(s, b) = s.brk \/ b + Size(s, b) \in Blocks(s)
                     /\ b + Size(s, b) <= s.brk
                     /\ \A e \in Blocks(s) : e > b => e >= b + Size(s, b)
            <4>1. Size(s, b) = Size(h, b)
                BY <2>10, <3>5
            <4>2. nxt > b => nxt >= b + Size(h, b)
                BY <2>1, <3>3, <3>5, Bounds
            <4> QED
                BY <2>10, <4>1, <4>2, Bounds DEF Sound, Tiling
        <3>6. /\ a % 2 = 1
              /\ Size(s, a) > 0 /\ Size(s, a) % 2 = 0
              /\ a + Size(s, a) \in Blocks(s)
              /\ a + Size(s, a) <= s.brk
              /\ \A e \in Blocks(s) : e > a => e >= a + Size(s, a)
            BY <2>1, <2>10, <3>2, <3>4, Bounds
        <3>7. /\ nxt % 2 = 1
              /\ Size(s, nxt) > 0 /\ Size(s, nxt) % 2 = 0
              /\ nxt + Size(s, nxt) = s.brk \/ nxt + Size(s, nxt) \in Blocks(s)
              /\ nxt + Size(s, nxt) <= s.brk
              /\ \A e \in Blocks(s) : e > nxt => e >= nxt + Size(s, nxt)
            <4>1. a + Size(h, a) = h.brk \/ a + Size(h, a) \in Blocks(h)
                BY DEF Sound, Tiling
            <4> QED
                BY <2>1, <2>10, <3>2, <3>4, <4>1, Bounds
        <3> QED
            BY <2>10, <3>1, <3>5, <3>6, <3>7 DEF Tiling
    <2>13. nxt < h.brk
        BY <2>1, Bounds
    <2>14. Sound(s)
        <3>1. /\ s.brk \in Nat /\ s.brk + 1 <= MaxHeap
              /\ s.last \in Nat /\ s.last < s.brk
            BY <2>1, <2>10, <2>13 DEF Sound
        <3>2. Blocks(s) \subseteq Nat \ {0}
            BY <2>1, <2>10, Bounds DEF Sound
        <3>3. \A b \in Blocks(s) : Size(s, b) \in Nat /\ Used(s, b) \in BOOLEAN
            BY <2>1, <2>10 DEF Sound
        <3>4. \A b \in Blocks(s) : b <= s.last
            BY <2>1, <2>10 DEF Sound
        <3> QED
            BY <2>8, <2>12, <3>1, <3>2, <3>3, <3>4 DEF Sound
    <2>15. SameUsed(h, s)
        BY <2>2, <2>10 DEF SameUsed, UsedBlocks
    <2>16. a \in Blocks(s) /\ ~Used(s, a) /\ Size(s, a) >= n
        BY <2>10
    <2> QED
        BY <2>14, <2>15, <2>16
<1> QED
    BY <1>1, <1>2

LEMMA ThreeFields ==
    ASSUME NEW h, IsHeap(h), NEW x, NEW y, NEW z
    PROVE  [h EXCEPT !.brk = x, !.first = y, !.last = z] =
           [brk |-> x, header |-> h.header, first |-> y, last |-> z]
<1> DEFINE r == [h EXCEPT !.brk = x]
           t == [r EXCEPT !.first = y]
           u == [t EXCEPT !.last = z]
<1>1. [h EXCEPT !.brk = x, !.first = y, !.last = z] = u
    OBVIOUS
<1>2. r = [brk |-> x, header |-> h.header, first |-> h.first, last |-> h.last]
    BY DEF IsHeap
<1> HIDE DEF r
<1>3. t = [brk |-> x, header |-> h.header, first |-> y, last |-> h.last]
    BY <1>2
<1> HIDE DEF t
<1>4. u = [brk |-> x, header |-> h.header, first |-> y, last |-> z]
    BY <1>3
<1> QED
    BY <1>1, <1>4

LEMMA ExtendKeeps ==
    ASSUME NEW h, Sound(h), NEW n \in Nat, n % 2 = 0, n >= 2, ~SbrkFails(h, n),
           NEW s, s = Extend(h, n)
    PROVE  /\ Sound(s)
           /\ h.brk \notin Blocks(h)
           /\ UsedBlocks(s) = UsedBlocks(h) \cup {h.brk}
           /\ \A a \in Blocks(h) : Size(s, a) = Size(h, a)
           /\ Size(s, h.brk) = n
<1> DEFINE b == h.brk
           g == [h EXCEPT !.brk = b + n,
                          !.first = IF @ = Null THEN b ELSE @,
                          !.last = b]
<1>1. g = [brk |-> b + n, header |-> h.header,
           first |-> IF h.first = Null THEN b ELSE h.first, last |-> b]
    <2> DEFINE e == b + n
               f == IF h.first = Null THEN b ELSE h.first
    <2>1. g = [h EXCEPT !.brk = e, !.first = f, !.last = b]
        OBVIOUS
    <2> HIDE DEF e, f, g
    <2>2. g = [brk |-> e, header |-> h.header, first |-> f, last |-> b]
        BY <2>1, ThreeFields DEF Sound
    <2> QED
        BY <2>2 DEF e, f
<1>2. /\ g.brk = b + n /\ g.header = h.header /\ g.last = b
      /\ g.first = IF h.first = Null THEN b ELSE h.first
    BY <1>1
<1>3. IsHeap(g)
    BY <1>1, <1>2 DEF IsHeap
<1>4. /\ Blocks(g) = Blocks(h)
      /\ \A a : Size(g, a) = Size(h, a)
      /\ \A a : Used(g, a) = Used(h, a)
    BY <1>2 DEF Blocks, Size, Used
<1>5. s = SetHeader(g, b, n, TRUE)
    BY DEF Extend
<1> HIDE DEF g
<1>6. \A a \in Blocks(h) : a < b
    BY DEF Sound
<1>7. b \notin Blocks(h)
    BY <1>6 DEF Sound
<1>8. /\ IsHeap(s)
      /\ s.brk = b + n /\ s.first = g.first /\ s.last = b
      /\ Blocks(s) = Blocks(h) \cup {b}
      /\ Size(s, b) = n /\ Used(s, b) = TRUE
      /\ \A a \in Blocks(h) : Size(s, a) = Size(h, a) /\ Used(s, a) = Used(h, a)
    <2>1. Writes(g, b, n, TRUE, s)
        BY <1>3, <1>5, SetHeaderWrites
    <2> QED
        BY <1>2, <1>4, <1>7, <2>1 DEF Writes
<1>9. /\ b \in Nat /\ b % 2 = 1 /\ b >= 1
      /\ b + n \in Nat /\ b + n + 1 <= MaxHeap
    <2>1. b \in Nat /\ b % 2 = 1 /\ b >= 1
        BY DEF Sound, Tiling
    <2>2. b + n <= MaxHeap /\ MaxHeap \in Nat /\ MaxHeap % 2 = 0
        BY <2>1, HeapAssumption DEF SbrkFails
    <2>3. (b + n) % 2 = 1
        BY <2>1
    <2> QED
        BY <2>1, <2>2, <2>3
<1>10. Tiling(s)
    <2>1. s.first = 1
        <3>1. Blocks(h) = {} => b = 1
            BY DEF Sound, Tiling
        <3> QED
            BY <1>2, <1>8, <3>1 DEF Sound, Tiling, Null
    <2>2. 1 \in Blocks(s)
        BY <1>8 DEF Sound, Tiling
    <2>3. ASSUME NEW a \in Blocks(h)
          PROVE  /\ a % 2 = 1
                 /\ Size(s, a) > 0 /\ Size(s, a) % 2 = 0
                 /\ a + Size(s, a) \in Blocks(s)
                 /\ a + Size(s, a) <= s.brk
                 /\ \A e \in Blocks(s) : e > a => e >= a + Size(s, a)
        BY <1>8, <1>9, Bounds DEF Sound, Tiling
    <2>4. /\ b + Size(s, b) = s.brk
          /\ \A e \in Blocks(s) : ~(e > b)
        BY <1>6, <1>8, <1>9, Bounds
    <2>5. s.brk % 2 = 1 /\ Blocks(s) # {}
        BY <1>8, <1>9
    <2>6. \A a \in Blocks(s) :
             /\ a % 2 = 1
             /\ Size(s, a) > 0 /\ Size(s, a) % 2 = 0
             /\ a + Size(s, a) = s.brk \/ a + Size(s, a) \in Blocks(s)
             /\ a + Size(s, a) <= s.brk
             /\ \A e \in Blocks(s) : e > a => e >= a + Size(s, a)
        BY <1>8, <1>9, <2>3, <2>4
    <2> QED
        BY <2>1, <2>2, <2>5, <2>6 DEF Tiling
<1>11. Sound(s)
    <2>1. Blocks(s) \subseteq Nat \ {0}
        BY <1>8, <1>9 DEF Sound
    <2>2. \A a \in Blocks(s) : Size(s, a) \in Nat /\ Used(s, a) \in BOOLEAN
        BY <1>8 DEF Sound
    <2>3. \A a \in Blocks(s) : a <= s.last
        BY <1>6, <1>8, <1>9, <2>1
    <2> QED
        BY <1>8, <1>9, <1>10, <2>1, <2>2, <2>3 DEF Sound
<1> QED
    BY <1>7, <1>8, <1>11 DEF UsedBlocks

------------------------------------------------------------------------------
(* mm_malloc and mm_free, as the client sees them *)

LEMMA MallocIs ==
    ASSUME NEW h, Sound(h), NEW n \in Nat
    PROVE  LET m == Malloc(h, n)
               p == m.ptr - 1
           IN  /\ Sound(m.heap)
               /\ m.ptr = Null => SameUsed(h, m.heap)
               /\ m.ptr # Null => /\ m.ptr \in Nat
                                  /\ p \notin UsedBlocks(h)
                                  /\ UsedBlocks(m.heap) = UsedBlocks(h) \cup {p}
                                  /\ \A a \in UsedBlocks(h) : Size(m.heap, a) = Size(h, a)
                                  /\ Size(m.heap, p) >= BlockSize(n)
<1> DEFINE size == BlockSize(n)
           c    == Coalesce(h)
           a    == Least(Fits(c, size))
           s    == Split(c, a, size)
           m    == Malloc(h, n)
           p    == m.ptr - 1
<1>0. m = IF Fits(c, size) # {} THEN [heap |-> SetHeader(s, a, Size(s, a), TRUE), ptr |-> a + 1]
          ELSE IF SbrkFails(c, size) THEN [heap |-> c, ptr |-> Null]
          ELSE [heap |-> Extend(c, size), ptr |-> c.brk + 1]
    BY DEF Malloc
<1>1. size \in Nat /\ size % 2 = 0 /\ size >= 2
    BY BlockSizes
<1>2. Sound(c) /\ SameUsed(h, c)
    BY CoalesceSound
<1> HIDE DEF m, size, c
<1>3. CASE Fits(c, size) # {}
    <2>1. Fits(c, size) \in SUBSET Nat
        BY <1>2, VisitsAll DEF Fits, Sound
    <2>2. a \in Fits(c, size)
        BY <1>3, <2>1, LeastIs
    <2> HIDE DEF a
    <2>3. a \in Blocks(c) /\ ~Used(c, a) /\ Size(c, a) >= size /\ a \in Nat
        BY <1>2, <2>1, <2>2, VisitsAll DEF Fits
    <2>4. /\ Sound(s) /\ SameUsed(c, s)
          /\ a \in Blocks(s) /\ ~Used(s, a) /\ Size(s, a) >= size
        BY <1>1, <1>2, <2>3, SplitKeeps
    <2> HIDE DEF s
    <2>5. m.heap = SetHeader(s, a, Size(s, a), TRUE) /\ m.ptr = a + 1
        BY <1>0, <1>3
    <2>6. /\ Sound(m.heap) /\ Blocks(m.heap) = Blocks(s)
          /\ \A b \in Blocks(s) : Size(m.heap, b) = Size(s, b)
          /\ UsedBlocks(m.heap) = UsedBlocks(s) \cup {a}
        <3>1. Marks(s, a, TRUE, m.heap)
            BY <2>4, <2>5, MarkMarks
        <3> QED
            BY <3>1 DEF Marks
    <2>7. p = a /\ m.ptr # Null /\ m.ptr \in Nat
        BY <2>3, <2>5 DEF Null
    <2>8. a \notin UsedBlocks(h) /\ UsedBlocks(s) = UsedBlocks(h)
        BY <1>2, <2>4 DEF SameUsed, UsedBlocks
    <2>9. \A b \in UsedBlocks(h) : b \in Blocks(s) /\ Size(s, b) = Size(h, b)
        BY <1>2, <2>4, <2>8 DEF SameUsed, UsedBlocks
    <2> QED
        BY <2>4, <2>6, <2>7, <2>8, <2>9 DEF m, size
<1>4. CASE Fits(c, size) = {} /\ SbrkFails(c, size)
    <2>1. m.heap = c /\ m.ptr = Null
        BY <1>0, <1>4
    <2> QED
        BY <1>2, <2>1 DEF m
<1>5. CASE Fits(c, size) = {} /\ ~SbrkFails(c, size)
    <2>1. m.heap = Extend(c, size) /\ m.ptr = c.brk + 1
        BY <1>0, <1>5
    <2>2. /\ Sound(m.heap)
          /\ c.brk \notin Blocks(c)
          /\ UsedBlocks(m.heap) = UsedBlocks(c) \cup {c.brk}
          /\ \A b \in Blocks(c) : Size(m.heap, b) = Size(c, b)
          /\ Size(m.heap, c.brk) = size
        BY <1>1, <1>2, <1>5, <2>1, ExtendKeeps
    <2>3. p = c.brk /\ m.ptr # Null /\ m.ptr \in Nat
        BY <1>2, <2>1 DEF Null, Sound
    <2>4. c.brk \notin UsedBlocks(h) /\ UsedBlocks(c) = UsedBlocks(h)
        BY <1>2, <2>2 DEF SameUsed, UsedBlocks
    <2>5. \A b \in UsedBlocks(h) : b \in Blocks(c) /\ Size(c, b) = Size(h, b)
        BY <1>2, <2>4 DEF SameUsed, UsedBlocks
    <2> QED
        BY <1>1, <2>2, <2>3, <2>4, <2>5 DEF m, size
<1> QED
    BY <1>3, <1>4, <1>5

LEMMA ReleaseIs ==
    ASSUME NEW h, Sound(h), NEW p, p - 1 \in Blocks(h)
    PROVE  /\ Sound(Release(h, p)) /\ Blocks(Release(h, p)) = Blocks(h)
           /\ UsedBlocks(Release(h, p)) = UsedBlocks(h) \ {p - 1}
           /\ \A a \in Blocks(h) : Size(Release(h, p), a) = Size(h, a)
<1>1. Release(h, p) = SetHeader(h, p - 1, Size(h, p - 1), FALSE)
    BY DEF Release
<1>2. Marks(h, p - 1, FALSE, Release(h, p))
    BY <1>1, MarkMarks
<1> QED
    BY <1>2 DEF Marks

------------------------------------------------------------------------------
(* The allocator and its client *)

ClientTypeOK ==
    /\ live \in [Ids -> [at : Nat, len : Nat, kept : Nat] \cup {NoBlock}]
    /\ \A d \in Held : live[d].len \in Requests /\ live[d].kept <= live[d].len
    /\ cell \in [0 .. MaxHeap - 1 -> Ids \cup {Junk}]
    /\ crashed \in BOOLEAN

(* The inductive invariant: the heap is sound, and its used blocks are the  *)
(* ones that the client holds.  Neither part is inductive by itself: mm_free *)
(* takes the client's word that there is a block before its pointer.        *)
AllocInv ==
    /\ ClientTypeOK
    /\ Sound(heap)
    /\ UsedIffHeld

LEMMA Holds ==
    ASSUME AllocInv, NEW d \in Held
    PROVE  /\ d \in Ids /\ live[d] \in [at : Nat, len : Nat, kept : Nat]
           /\ live[d].len \in 0 .. MaxRequest /\ live[d].kept <= live[d].len
           /\ live[d].at \in Nat /\ live[d].len \in Nat /\ live[d].kept \in Nat
           /\ live[d].at - 1 \in UsedBlocks(heap)
           /\ live[d].at - 1 \in Blocks(heap)
           /\ Size(heap, live[d].at - 1) \in Nat
           /\ Size(heap, live[d].at - 1) >= 1 + live[d].len
           /\ live[d].at >= 2 /\ live[d].at % 2 = 0
<1>1. d \in Ids /\ live[d] \in [at : Nat, len : Nat, kept : Nat]
    BY DEF AllocInv, ClientTypeOK, Held
<1>2. /\ live[d].at - 1 \in Blocks(heap) /\ Used(heap, live[d].at - 1)
      /\ Size(heap, live[d].at - 1) >= 1 + live[d].len
    BY DEF AllocInv, UsedIffHeld
<1>3. live[d].len \in 0 .. MaxRequest /\ live[d].kept <= live[d].len
    BY DEF AllocInv, ClientTypeOK, Requests
<1>4. /\ live[d].at - 1 >= 1 /\ (live[d].at - 1) % 2 = 1
      /\ Size(heap, live[d].at - 1) \in Nat
    BY <1>2, Bounds DEF AllocInv
<1>5. live[d].at >= 2 /\ live[d].at % 2 = 0
    BY <1>1, <1>4
<1> QED
    BY <1>1, <1>2, <1>3, <1>4, <1>5 DEF UsedBlocks

(* The payloads of two blocks of a heap, and its headers, are apart.        *)
LEMMA PayloadsApart ==
    ASSUME NEW g, Sound(g), NEW a \in Blocks(g), NEW b \in Blocks(g), a # b,
           NEW w \in Int, a < w, w < a + Size(g, a)
    PROVE  /\ w \in 0 .. MaxHeap - 1
           /\ w \notin Blocks(g)
           /\ ~(b <= w /\ w < b + Size(g, b))
<1>1. /\ a \in Nat /\ Size(g, a) \in Nat /\ a + Size(g, a) <= g.brk
      /\ g.brk \in Nat /\ g.brk < MaxHeap /\ MaxHeap \in Nat
    BY Bounds, HeapAssumption
<1>2. w \in Nat /\ w \in 0 .. MaxHeap - 1
    BY <1>1
<1>3. w \notin Blocks(g)
    BY <1>2, NoHeaderInside
<1>4. ~(b <= w /\ w < b + Size(g, b))
    BY <1>1, Apart, Bounds
<1> QED
    BY <1>2, <1>3, <1>4

LEMMA PayloadInside ==
    ASSUME NEW g, Sound(g), NEW a \in Blocks(g),
           NEW w \in Int, a < w, w < a + Size(g, a)
    PROVE  w \in 0 .. MaxHeap - 1 /\ w \notin Blocks(g)
<1>1. /\ a \in Nat /\ Size(g, a) \in Nat /\ a + Size(g, a) <= g.brk
      /\ g.brk \in Nat /\ g.brk < MaxHeap /\ MaxHeap \in Nat
    BY Bounds, HeapAssumption
<1>2. w \in Nat /\ w \in 0 .. MaxHeap - 1
    BY <1>1
<1> QED
    BY <1>2, NoHeaderInside

LEMMA InitAlloc ==
    ASSUME Init
    PROVE  AllocInv
<1>1. Held = {}
    BY DEF Init, Held
<1>2. ClientTypeOK
    BY <1>1 DEF ClientTypeOK, Init
<1>3. Sound(heap) /\ Blocks(heap) = {}
    BY InitSound DEF Init
<1>4. UsedIffHeld
    BY <1>1, <1>3 DEF UsedIffHeld
<1> QED
    BY <1>2, <1>3, <1>4 DEF AllocInv

------------------------------------------------------------------------------
(* One operation at a time: the invariant, and the step of the contract *)

\* What every operation leaves to the blocks it is not about.
OthersStand(d) ==
    \A e \in Held \ {d} : /\ live'[e] = live[e]
                          /\ live[e].at - 1 \in UsedBlocks(heap')
                          /\ Size(heap', live[e].at - 1) = Size(heap, live[e].at - 1)

(* An operation that writes only headers, and in blocks p and q of the new  *)
(* heap, keeps the content of the payloads that stand elsewhere.            *)
LEMMA OthersKeep ==
    ASSUME AllocInv, Sound(heap'), NEW d, OthersStand(d),
           NEW p, \A e \in Held \ {d} : p # live[e].at - 1, p \in Blocks(heap'),
           NEW q, \A e \in Held \ {d} : q # live[e].at - 1, q \in Blocks(heap'),
           \A w \in 0 .. MaxHeap - 1 :
              /\ w \notin Blocks(heap')
              /\ ~(p <= w /\ w < p + Size(heap', p))
              /\ ~(q <= w /\ w < q + Size(heap', q))
              => cell'[w] = cell[w]
    PROVE  Contract!KeepsOthers(d)
<1>1. SUFFICES ASSUME NEW e \in Held \ {d}, NEW w \in live[e].at .. live[e].at + live[e].kept - 1
               PROVE  cell'[w] = cell[w]
    BY DEF Contract!KeepsOthers, Contract!Keeps, Contract!Written, Contract!Held, Held
<1> DEFINE a == live[e].at - 1
<1>2. /\ live[e].at \in Nat /\ live[e].kept \in Nat /\ live[e].kept <= live[e].len
      /\ live[e].len \in Nat
      /\ Size(heap, a) >= 1 + live[e].len /\ Size(heap, a) \in Nat
    BY Holds
<1>3. a \in Blocks(heap') /\ Size(heap', a) = Size(heap, a) /\ a # p /\ a # q
    BY DEF OthersStand, UsedBlocks
<1>4. w \in Int /\ a < w /\ w < a + Size(heap', a)
    BY <1>2, <1>3
<1> HIDE DEF a
<1>5. /\ w \in 0 .. MaxHeap - 1
      /\ w \notin Blocks(heap')
      /\ ~(p <= w /\ w < p + Size(heap', p))
    BY <1>3, <1>4, PayloadsApart
<1>6. ~(q <= w /\ w < q + Size(heap', q))
    BY <1>3, <1>4, PayloadsApart
<1> QED
    BY <1>5, <1>6

\* The place that an operation gives to d's payload.
LEMMA PlaceIsGood ==
    ASSUME AllocInv, Sound(heap'), NEW d, OthersStand(d),
           NEW b \in [at : Nat, len : Nat, kept : Nat],
           \A e \in Held \ {d} : b.at # live[e].at,
           b.at - 1 \in Blocks(heap'), Size(heap', b.at - 1) >= 1 + b.len
    PROVE  Contract!GoodPlace(d, b)
<1> DEFINE p == b.at - 1
<1>1. /\ p \in Nat /\ p % 2 = 1 /\ Size(heap', p) \in Nat
      /\ p + Size(heap', p) <= heap'.brk /\ heap'.brk \in Nat /\ heap'.brk < MaxHeap
      /\ MaxHeap \in Nat
    BY Bounds, HeapAssumption
<1>2. b.at % 2 = 0 /\ b.at + b.len <= MaxHeap
    BY <1>1
<1>3. ASSUME NEW e \in Held \ {d}
      PROVE  (b.at .. b.at + b.len - 1) \cap (live[e].at .. live[e].at + live[e].len - 1) = {}
    <2> DEFINE a == live[e].at - 1
    <2>1. /\ live[e].at \in Nat /\ live[e].len \in Nat
          /\ Size(heap, a) >= 1 + live[e].len /\ Size(heap, a) \in Nat
        BY Holds
    <2>2. a \in Blocks(heap') /\ Size(heap', a) = Size(heap, a)
        BY DEF OthersStand, UsedBlocks
    <2>3. a # p
        BY <2>1
    <2>4. p + Size(heap', p) <= a \/ a + Size(heap', a) <= p
        BY <2>2, <2>3, Apart
    <2> QED
        BY <1>1, <2>1, <2>2, <2>4
<1> QED
    BY <1>2, <1>3 DEF Contract!GoodPlace, Contract!Region, Contract!Held, Held

\* mm_malloc or mm_realloc that found no room.
LEMMA RefusalStep ==
    ASSUME AllocInv, Sound(heap'), SameUsed(heap, heap'), cell' = Wipe(cell, heap'),
           UNCHANGED <<live, crashed>>
    PROVE  AllocInv' /\ Contract!Next
<1>1. Held' = Held
    BY DEF Held
<1>2. cell' \in [0 .. MaxHeap - 1 -> Ids \cup {Junk}]
    BY DEF Wipe, AllocInv, ClientTypeOK
<1>3. ClientTypeOK'
    BY <1>1, <1>2 DEF AllocInv, ClientTypeOK
<1>4. UsedIffHeld'
    <2>1. \A e \in Held : /\ live[e].at - 1 \in UsedBlocks(heap')
                          /\ Size(heap', live[e].at - 1) >= 1 + live[e].len
        BY Holds DEF SameUsed
    <2>2. \A a \in UsedBlocks(heap') : \E e \in Held : live[e].at = a + 1
        BY DEF AllocInv, UsedIffHeld, UsedBlocks, SameUsed
    <2> QED
        BY <1>1, <2>1, <2>2 DEF AllocInv, UsedIffHeld, UsedBlocks
<1>5. ASSUME NEW e \in Held, NEW w \in live[e].at .. live[e].at + live[e].kept - 1
      PROVE  cell'[w] = cell[w]
    <2> DEFINE a == live[e].at - 1
    <2>1. /\ live[e].at \in Nat /\ live[e].kept \in Nat /\ live[e].kept <= live[e].len
          /\ live[e].len \in Nat /\ a \in UsedBlocks(heap)
          /\ Size(heap, a) >= 1 + live[e].len /\ Size(heap, a) \in Nat
        BY Holds
    <2>2. a \in Blocks(heap') /\ Size(heap', a) = Size(heap, a)
        BY <2>1 DEF SameUsed, UsedBlocks
    <2>3. w \in Int /\ a < w /\ w < a + Size(heap', a)
        BY <2>1, <2>2
    <2> HIDE DEF a
    <2>4. w \in 0 .. MaxHeap - 1 /\ w \notin Blocks(heap')
        BY <2>2, <2>3, PayloadInside
    <2> QED
        BY <2>4 DEF Wipe, AllocInv, ClientTypeOK
<1>6. Contract!Refuse
    BY <1>5 DEF Contract!Refuse, Contract!Keeps, Contract!Written, Contract!Held, Held
<1> QED
    BY <1>3, <1>4, <1>6 DEF AllocInv, Contract!Next

(* The used blocks and the client's blocks change together: d has block p   *)
(* instead of what it had.                                                  *)
LEMMA HeldGains ==
    ASSUME AllocInv, NEW d \in Ids, NEW b \in [at : Nat, len : Nat, kept : Nat],
           live' = [live EXCEPT ![d] = b], OthersStand(d),
           UsedBlocks(heap') = {live[e].at - 1 : e \in Held \ {d}} \cup {b.at - 1},
           \A e \in Held \ {d} : live[e].at # b.at,
           Size(heap', b.at - 1) >= 1 + b.len
    PROVE  UsedIffHeld'
<1>1. b # NoBlock
    BY HeapAssumption
<1>2. live'[d] = b /\ \A e \in Ids \ {d} : live'[e] = live[e]
    BY DEF AllocInv, ClientTypeOK
<1>3. Held' = (Held \ {d}) \cup {d}
    BY <1>1, <1>2 DEF Held
<1>4. \A e \in Held \ {d} : /\ live'[e] = live[e]
                            /\ live'[e].at - 1 \in UsedBlocks(heap')
                            /\ Size(heap', live'[e].at - 1) >= 1 + live'[e].len
    BY Holds DEF OthersStand
<1>5. \A a \in UsedBlocks(heap') : \E e \in Held' : live'[e].at = a + 1
    <2>1. ASSUME NEW e \in Held \ {d} PROVE live'[e].at = (live[e].at - 1) + 1
        BY <1>4, Holds
    <2>2. live'[d].at = (b.at - 1) + 1
        BY <1>2
    <2> QED
        BY <1>3, <2>1, <2>2
<1>6. \A e, f \in Held' : live'[e].at = live'[f].at => e = f
    BY <1>2, <1>3, <1>4 DEF AllocInv, UsedIffHeld
<1>7. b.at - 1 \in UsedBlocks(heap')
    OBVIOUS
<1> QED
    BY <1>2, <1>3, <1>4, <1>5, <1>6, <1>7 DEF UsedIffHeld, UsedBlocks

\* The blocks in use are those of the client.
LEMMA UsedBlocksAre ==
    ASSUME AllocInv
    PROVE  UsedBlocks(heap) = {live[e].at - 1 : e \in Held}
<1>1. ASSUME NEW a \in UsedBlocks(heap)
      PROVE  \E e \in Held : a = live[e].at - 1
    <2>1. a \in Nat
        BY Bounds DEF AllocInv, UsedBlocks
    <2>2. PICK e \in Held : live[e].at = a + 1
        BY DEF AllocInv, UsedIffHeld, UsedBlocks
    <2> QED
        BY <2>1, <2>2
<1> QED
    BY <1>1, Holds

LEMMA MallocStep ==
    ASSUME AllocInv, NEW d \in Ids, NEW n \in Requests, DoMalloc(d, n)
    PROVE  AllocInv' /\ Contract!Next
<1> DEFINE m == Malloc(heap, n)
           p == m.ptr - 1
           b == Block(m.ptr, n, n)
<1>1. n \in Nat
    BY HeapAssumption DEF Requests
<1>2. /\ Sound(m.heap)
      /\ m.ptr = Null => SameUsed(heap, m.heap)
      /\ m.ptr # Null => /\ m.ptr \in Nat
                         /\ p \notin UsedBlocks(heap)
                         /\ UsedBlocks(m.heap) = UsedBlocks(heap) \cup {p}
                         /\ \A a \in UsedBlocks(heap) : Size(m.heap, a) = Size(heap, a)
                         /\ Size(m.heap, p) >= BlockSize(n)
    BY <1>1, MallocIs DEF AllocInv
<1>3. /\ live[d] = NoBlock /\ heap' = m.heap /\ crashed' = crashed
      /\ m.ptr = Null => cell' = Wipe(cell, m.heap) /\ live' = live
      /\ m.ptr # Null => /\ cell' = Fill(Wipe(cell, m.heap), Payload(m.ptr, n), d)
                         /\ live' = [live EXCEPT ![d] = b]
    BY DEF DoMalloc
<1> HIDE DEF m
<1>4. CASE m.ptr = Null
    BY <1>2, <1>3, <1>4, RefusalStep
<1>5. CASE m.ptr # Null
    <2>1. /\ b = [at |-> m.ptr, len |-> n, kept |-> n]
          /\ b \in [at : Nat, len : Nat, kept : Nat]
          /\ b.at = m.ptr /\ b.len = n /\ b.kept = n
        BY <1>1, <1>2, <1>5 DEF Block
    <2> HIDE DEF b
    <2>2. Held \ {d} = Held /\ d \notin Held
        BY <1>3 DEF Held
    <2>3. OthersStand(d)
        BY <1>2, <1>3, <1>5, <2>2, Holds DEF OthersStand, AllocInv, ClientTypeOK
    <2>4. \A e \in Held \ {d} : live[e].at # b.at /\ p # live[e].at - 1
        BY <1>2, <1>5, <2>1, Holds
    <2>5. UsedBlocks(heap') = {live[e].at - 1 : e \in Held \ {d}} \cup {b.at - 1}
        BY <1>2, <1>3, <1>5, <2>1, <2>2, UsedBlocksAre
    <2>6. /\ p \in Blocks(heap') /\ Size(heap', p) \in Nat
          /\ Size(heap', p) >= 1 + n /\ b.at - 1 = p
        BY <1>1, <1>2, <1>3, <1>5, <2>1, BlockSizes, Bounds, SMTT(20) DEF UsedBlocks
    <2>7. UsedIffHeld'
        BY <1>3, <1>5, <2>1, <2>3, <2>4, <2>5, <2>6, HeldGains
    <2>8. b # NoBlock /\ live'[d] = b /\ \A e \in Ids \ {d} : live'[e] = live[e]
        BY <1>3, <1>5, <2>1, HeapAssumption DEF AllocInv, ClientTypeOK
    <2>9. \A w \in 0 .. MaxHeap - 1 :
             cell'[w] = IF w \in Payload(m.ptr, n) THEN d
                        ELSE IF w \in Blocks(heap') THEN Junk ELSE cell[w]
        BY <1>3, <1>5 DEF Fill, Wipe, AllocInv, ClientTypeOK
    <2>10. ClientTypeOK'
        <3>1. Held' = Held \cup {d}
            BY <2>8 DEF Held
        <3>2. cell' \in [0 .. MaxHeap - 1 -> Ids \cup {Junk}]
            BY <1>3, <1>5 DEF Fill, Wipe, AllocInv, ClientTypeOK
        <3>3. \A e \in Held' : live'[e].len \in Requests /\ live'[e].kept <= live'[e].len
            BY <1>1, <2>1, <2>8, <3>1 DEF AllocInv, ClientTypeOK, Held
        <3>4. live' \in [Ids -> [at : Nat, len : Nat, kept : Nat] \cup {NoBlock}]
            BY <1>3, <1>5, <2>1 DEF AllocInv, ClientTypeOK
        <3> QED
            BY <1>3, <3>2, <3>3, <3>4 DEF AllocInv, ClientTypeOK
    <2>11. Contract!GoodPlace(d, b)
        BY <1>2, <1>3, <2>1, <2>3, <2>4, <2>6, PlaceIsGood
    <2>12. \A w \in Payload(m.ptr, n) : p <= w /\ w < p + Size(heap', p) /\ w \in 0 .. MaxHeap - 1
        <3>1. /\ p \in Nat /\ p + Size(heap', p) <= heap'.brk
              /\ heap'.brk \in Nat /\ heap'.brk < MaxHeap /\ MaxHeap \in Nat
            BY <1>2, <1>3, <2>6, Bounds, HeapAssumption
        <3> QED
            BY <1>1, <2>1, <2>6, <3>1 DEF Payload
    <2>13. Contract!KeepsOthers(d)
        <3>1. \A w \in 0 .. MaxHeap - 1 :
                 w \notin Blocks(heap') /\ ~(p <= w /\ w < p + Size(heap', p)) => cell'[w] = cell[w]
            BY <2>9, <2>12
        <3> QED
            BY <1>2, <1>3, <2>3, <2>4, <2>6, <3>1, OthersKeep
    <2>14. \A w \in Contract!Written(b) : cell'[w] = d
        BY <2>1, <2>9, <2>12 DEF Contract!Written, Payload
    <2>15. Contract!Malloc(d)
        BY <1>3, <1>5, <2>2, <2>8, <2>11, <2>13, <2>14
           DEF Contract!Malloc, Contract!Held, Held
    <2> QED
        BY <1>2, <1>3, <2>7, <2>10, <2>15 DEF AllocInv, Contract!Next
<1> QED
    BY <1>4, <1>5

LEMMA CallocStep ==
    ASSUME AllocInv, NEW d \in Ids, NEW n \in Requests, DoCalloc(d, n)
    PROVE  AllocInv' /\ [Contract!Next]_(Contract!vars)
<1>1. CASE n = 0
    BY <1>1 DEF DoCalloc, vars, AllocInv, ClientTypeOK, UsedIffHeld, Held, Contract!vars
<1>2. CASE n # 0 /\ Malloc(heap, n).ptr # Null
    BY <1>2, MallocStep DEF DoCalloc
<1>3. CASE n # 0 /\ Malloc(heap, n).ptr = Null
    BY <1>3 DEF DoCalloc, AllocInv, ClientTypeOK, UsedIffHeld, Held, Contract!vars
<1> QED
    BY <1>1, <1>2, <1>3

LEMMA FreeStep ==
    ASSUME AllocInv, NEW d \in Ids, DoFree(d)
    PROVE  AllocInv' /\ Contract!Next
<1> DEFINE p == live[d].at - 1
           g == Release(heap, live[d].at)
<1>1. d \in Held
    BY DEF DoFree, Held
<1>2. /\ live[d].at \in Nat /\ live[d].len \in Nat /\ p \in UsedBlocks(heap) /\ p \in Blocks(heap)
      /\ Size(heap, p) \in Nat /\ Size(heap, p) >= 1 + live[d].len
    BY <1>1, Holds
<1>3. /\ Sound(g) /\ Blocks(g) = Blocks(heap)
      /\ UsedBlocks(g) = UsedBlocks(heap) \ {p}
      /\ \A a \in Blocks(heap) : Size(g, a) = Size(heap, a)
    BY <1>2, ReleaseIs DEF AllocInv
<1>4. /\ heap' = g /\ crashed' = crashed
      /\ cell' = Fill(Wipe(cell, heap'), Payload(live[d].at, live[d].len), Junk)
      /\ live' = [live EXCEPT ![d] = NoBlock]
    BY DEF DoFree
<1> HIDE DEF g
<1>5. live'[d] = NoBlock /\ \A e \in Ids \ {d} : live'[e] = live[e]
    BY <1>4 DEF AllocInv, ClientTypeOK
<1>6. Held' = Held \ {d}
    BY <1>5 DEF Held
<1>7. \A e \in Held \ {d} : live[e].at # live[d].at /\ p # live[e].at - 1
    <2>1. \A e \in Held \ {d} : live[e].at # live[d].at
        BY <1>1 DEF AllocInv, UsedIffHeld
    <2> QED
        BY <1>2, <2>1, Holds
<1>8. OthersStand(d)
    <2> SUFFICES ASSUME NEW e \in Held \ {d}
                 PROVE  /\ live'[e] = live[e]
                        /\ live[e].at - 1 \in UsedBlocks(heap')
                        /\ Size(heap', live[e].at - 1) = Size(heap, live[e].at - 1)
        BY DEF OthersStand
    <2>1. live[e].at - 1 \in UsedBlocks(heap) /\ live[e].at - 1 \in Blocks(heap) /\ e \in Ids
        BY Holds
    <2> QED
        BY <1>3, <1>4, <1>5, <1>7, <2>1
<1>9. UsedIffHeld'
    <2>1. \A e \in Held' : /\ live'[e] = live[e]
                           /\ live'[e].at - 1 \in UsedBlocks(heap')
                           /\ Size(heap', live'[e].at - 1) >= 1 + live'[e].len
        BY <1>6, <1>8, Holds DEF OthersStand
    <2>2. ASSUME NEW a \in UsedBlocks(heap')
          PROVE  \E e \in Held' : live'[e].at = a + 1
        <3>1. a \in UsedBlocks(heap) /\ a # p /\ a \in Nat
            BY <1>3, <1>4, Bounds DEF AllocInv, UsedBlocks
        <3>2. PICK e \in Held : live[e].at = a + 1
            BY <3>1 DEF AllocInv, UsedIffHeld, UsedBlocks
        <3>3. e # d
            BY <3>1, <3>2
        <3> QED
            BY <1>6, <2>1, <3>2, <3>3
    <2>3. \A e, f \in Held' : live'[e].at = live'[f].at => e = f
        BY <1>6, <2>1 DEF AllocInv, UsedIffHeld
    <2> QED
        BY <2>1, <2>2, <2>3 DEF UsedIffHeld, UsedBlocks
<1>10. ClientTypeOK'
    <2>1. cell' \in [0 .. MaxHeap - 1 -> Ids \cup {Junk}]
        BY <1>4 DEF Fill, Wipe, AllocInv, ClientTypeOK
    <2> QED
        BY <1>4, <1>5, <1>6, <2>1 DEF AllocInv, ClientTypeOK, Held
<1>11. \A w \in 0 .. MaxHeap - 1 :
          w \notin Blocks(heap') /\ ~(p <= w /\ w < p + Size(heap', p)) => cell'[w] = cell[w]
    <2>1. Size(heap', p) = Size(heap, p)
        BY <1>2, <1>3, <1>4
    <2>2. \A w \in Payload(live[d].at, live[d].len) : p <= w /\ w < p + Size(heap', p)
        BY <1>2, <2>1 DEF Payload
    <2>3. \A w \in 0 .. MaxHeap - 1 :
             cell'[w] = IF w \in Payload(live[d].at, live[d].len) THEN Junk
                        ELSE IF w \in Blocks(heap') THEN Junk ELSE cell[w]
        BY <1>4 DEF Fill, Wipe, AllocInv, ClientTypeOK
    <2> QED
        BY <2>2, <2>3
<1>12. Contract!KeepsOthers(d)
    <2>1. Sound(heap') /\ p \in Blocks(heap')
        BY <1>2, <1>3, <1>4
    <2>2. \A e \in Held \ {d} : p # live[e].at - 1
        BY <1>7
    <2> HIDE DEF p
    <2> QED
        BY <1>8, <1>11, <2>1, <2>2, OthersKeep
<1>13. Contract!Free(d)
    BY <1>1, <1>4, <1>12 DEF Contract!Free, Contract!Held, Held
<1> QED
    BY <1>3, <1>4, <1>9, <1>10, <1>13 DEF AllocInv, Contract!Next

LEMMA ReallocInPlaceStep ==
    ASSUME AllocInv, NEW d \in Ids, NEW n \in Requests, DoReallocInPlace(d, n)
    PROVE  AllocInv' /\ Contract!Next
<1> DEFINE p    == live[d].at - 1
           kept == IF n < live[d].kept THEN n ELSE live[d].kept
           b    == Block(live[d].at, n, kept)
<1>1. d \in Held /\ n \in Nat /\ n > 0
    BY HeapAssumption DEF DoReallocInPlace, Held, Requests
<1>2. /\ live[d].at \in Nat /\ live[d].len \in Nat /\ live[d].kept \in Nat
      /\ live[d].kept <= live[d].len
      /\ p \in UsedBlocks(heap) /\ p \in Blocks(heap)
      /\ Size(heap, p) \in Nat /\ Size(heap, p) >= 1 + live[d].len
    BY <1>1, Holds
<1>3. /\ heap' = heap /\ crashed' = crashed
      /\ Size(heap, p) >= BlockSize(n)
      /\ live' = [live EXCEPT ![d] = b]
      /\ cell' = Fill(cell, (live[d].at + kept) .. (live[d].at + live[d].len - 1), Junk)
    BY DEF DoReallocInPlace
<1>4. kept \in Nat /\ kept <= n /\ kept <= live[d].kept
    BY <1>1, <1>2
<1>5. kept = IF n < live[d].kept THEN n ELSE live[d].kept
    OBVIOUS
<1> HIDE DEF kept
<1>6. /\ b \in [at : Nat, len : Nat, kept : Nat]
      /\ b.at = live[d].at /\ b.len = n /\ b.kept = kept
    BY <1>1, <1>2, <1>4 DEF Block
<1> HIDE DEF b
<1>7. Size(heap, p) >= 1 + n
    BY <1>1, <1>2, <1>3, BlockSizes
<1>8. \A e \in Held \ {d} : live[e].at # live[d].at /\ p # live[e].at - 1
    <2>1. \A e \in Held \ {d} : live[e].at # live[d].at
        BY <1>1 DEF AllocInv, UsedIffHeld
    <2> QED
        BY <1>2, <2>1, Holds
<1>9. b # NoBlock /\ live'[d] = b /\ \A e \in Ids \ {d} : live'[e] = live[e]
    BY <1>3, <1>6, HeapAssumption DEF AllocInv, ClientTypeOK
<1>10. OthersStand(d)
    BY <1>3, <1>9, Holds DEF OthersStand
<1>11. UsedIffHeld'
    <2>1. UsedBlocks(heap') = {live[e].at - 1 : e \in Held \ {d}} \cup {b.at - 1}
        BY <1>1, <1>3, <1>6, UsedBlocksAre
    <2>2. Size(heap', b.at - 1) >= 1 + b.len
        BY <1>3, <1>6, <1>7
    <2> QED
        BY <1>3, <1>6, <1>8, <1>10, <2>1, <2>2, HeldGains
<1>12. ClientTypeOK'
    <2>1. Held' = Held
        BY <1>1, <1>9 DEF Held
    <2>2. cell' \in [0 .. MaxHeap - 1 -> Ids \cup {Junk}]
        BY <1>3 DEF Fill, AllocInv, ClientTypeOK
    <2>3. \A e \in Held' : live'[e].len \in Requests /\ live'[e].kept <= live'[e].len
        BY <1>4, <1>6, <1>9, <2>1 DEF AllocInv, ClientTypeOK, Held
    <2>4. live' \in [Ids -> [at : Nat, len : Nat, kept : Nat] \cup {NoBlock}]
        BY <1>3, <1>6 DEF AllocInv, ClientTypeOK
    <2> QED
        BY <1>3, <2>2, <2>3, <2>4 DEF AllocInv, ClientTypeOK
<1>13. Contract!GoodPlace(d, b)
    BY <1>2, <1>3, <1>6, <1>7, <1>8, <1>10, PlaceIsGood DEF AllocInv
<1>14. \A w \in 0 .. MaxHeap - 1 :
          cell'[w] = IF w \in (live[d].at + kept) .. (live[d].at + live[d].len - 1)
                     THEN Junk ELSE cell[w]
    BY <1>3 DEF Fill, AllocInv, ClientTypeOK
<1>15. Contract!KeepsOthers(d)
    <2>1. \A w \in 0 .. MaxHeap - 1 :
             w \notin Blocks(heap') /\ ~(p <= w /\ w < p + Size(heap', p)) => cell'[w] = cell[w]
        BY <1>2, <1>3, <1>4, <1>14, SMTT(20)
    <2>2. Sound(heap') /\ p \in Blocks(heap')
        BY <1>2, <1>3 DEF AllocInv
    <2> QED
        BY <1>8, <1>10, <2>1, <2>2, OthersKeep
<1>16. \A k \in 0 .. b.kept - 1 : cell'[b.at + k] = cell[live[d].at + k]
    <2> SUFFICES ASSUME NEW k \in 0 .. kept - 1
                 PROVE  cell'[live[d].at + k] = cell[live[d].at + k]
        BY <1>6
    <2>1. /\ k \in Nat /\ k < kept /\ live[d].at + k \in Int
          /\ p < live[d].at + k /\ live[d].at + k < p + Size(heap, p)
        BY <1>2, <1>4
    <2>2. live[d].at + k \in 0 .. MaxHeap - 1
        BY <1>2, <2>1, PayloadInside DEF AllocInv
    <2> QED
        BY <1>2, <1>4, <1>14, <2>1, <2>2
<1>17. Contract!Realloc(d)
    BY <1>1, <1>3, <1>5, <1>6, <1>9, <1>13, <1>15, <1>16
       DEF Contract!Realloc, Contract!Held, Held
<1> QED
    BY <1>3, <1>11, <1>12, <1>17 DEF AllocInv, Contract!Next

LEMMA ResetStep ==
    ASSUME AllocInv, Reset
    PROVE  AllocInv' /\ Contract!Next
<1>1. Held' = {}
    BY DEF Reset, Held
<1>2. Sound(heap') /\ Blocks(heap') = {}
    BY InitSound DEF Reset
<1>3. UsedIffHeld'
    BY <1>1, <1>2 DEF UsedIffHeld
<1>4. ClientTypeOK'
    BY <1>1 DEF ClientTypeOK, AllocInv, Reset
<1> QED
    BY <1>2, <1>3, <1>4 DEF AllocInv, Reset, Contract!Next, Contract!Reset

(* mm_realloc by a new block.  It copies all of the old payload, which is   *)
(* more than the client wrote and less than the new block has room for: the *)
(* old block was smaller than the request, and both sizes are even.         *)
LEMMA ReallocMovesStep ==
    ASSUME AllocInv, NEW d \in Ids, NEW n \in Requests, DoReallocMoves(d, n)
    PROVE  AllocInv' /\ Contract!Next
<1> DEFINE old    == live[d]
           q      == old.at - 1
           copied == Copied(heap, old.at)
           m      == Malloc(heap, n)
           p      == m.ptr - 1
           wiped  == Wipe(cell, m.heap)
           copy   == [w \in DOMAIN cell |->
                        IF w \in Payload(m.ptr, copied) THEN wiped[old.at + (w - m.ptr)]
                        ELSE IF w \in Payload(old.at, old.len) THEN Junk
                        ELSE wiped[w]]
           b      == Block(m.ptr, n, old.kept)
<1>1. d \in Held /\ n \in Nat /\ n > 0
    BY HeapAssumption DEF DoReallocMoves, Held, Requests
<1>2. /\ Sound(m.heap)
      /\ m.ptr = Null => SameUsed(heap, m.heap)
      /\ m.ptr # Null => /\ m.ptr \in Nat
                         /\ p \notin UsedBlocks(heap)
                         /\ UsedBlocks(m.heap) = UsedBlocks(heap) \cup {p}
                         /\ \A a \in UsedBlocks(heap) : Size(m.heap, a) = Size(heap, a)
                         /\ Size(m.heap, p) >= BlockSize(n)
    BY <1>1, MallocIs DEF AllocInv
<1>3. /\ Size(heap, q) < BlockSize(n) /\ crashed' = crashed
      /\ m.ptr = Null => heap' = m.heap /\ cell' = wiped /\ live' = live
      /\ m.ptr # Null => /\ heap' = Release(m.heap, old.at)
                         /\ cell' = Wipe(copy, heap')
                         /\ live' = [live EXCEPT ![d] = b]
    BY DEF DoReallocMoves
<1>4. CASE m.ptr = Null
    BY <1>2, <1>3, <1>4, RefusalStep
<1>5. CASE m.ptr # Null
    <2>1. /\ old.at \in Nat /\ old.len \in Nat /\ old.kept \in Nat /\ old.kept <= old.len
          /\ q \in Nat /\ q \in UsedBlocks(heap) /\ q \in Blocks(heap)
          /\ Size(heap, q) \in Nat /\ Size(heap, q) >= 1 + old.len /\ Size(heap, q) % 2 = 0
        BY <1>1, Holds, Bounds DEF AllocInv
    <2>2. copied = Size(heap, q) - 1
        BY DEF Copied
    <2>3. /\ copied \in Nat /\ old.len <= copied /\ old.kept < n
          /\ copied < BlockSize(n) - 1 /\ BlockSize(n) \in Nat /\ 1 + n <= BlockSize(n)
        <3>1. /\ BlockSize(n) \in Nat /\ BlockSize(n) % 2 = 0
              /\ 1 + n <= BlockSize(n) /\ BlockSize(n) <= n + 2
            BY <1>1, BlockSizes
        <3>2. Size(heap, q) + 2 <= BlockSize(n)
            BY <1>3, <2>1, <3>1, EvenLess
        <3> HIDE DEF q, copied
        <3> QED
            BY <1>1, <2>1, <2>2, <3>1, <3>2
    <2>4. \A w \in 0 .. MaxHeap - 1 : wiped[w] = IF w \in Blocks(m.heap) THEN Junk ELSE cell[w]
        BY DEF Wipe, AllocInv, ClientTypeOK
    <2>5. /\ DOMAIN copy = 0 .. MaxHeap - 1
          /\ \A w \in 0 .. MaxHeap - 1 :
                copy[w] = IF w \in Payload(m.ptr, copied) THEN wiped[old.at + (w - m.ptr)]
                          ELSE IF w \in Payload(old.at, old.len) THEN Junk
                          ELSE wiped[w]
        BY DEF AllocInv, ClientTypeOK
    <2> HIDE DEF copy, wiped, copied, m
    <2>6. /\ b \in [at : Nat, len : Nat, kept : Nat]
          /\ b.at = m.ptr /\ b.len = n /\ b.kept = old.kept
        BY <1>1, <1>2, <1>5, <2>1 DEF Block
    <2> HIDE DEF b
    <2>7. q \in Blocks(m.heap) /\ Size(m.heap, q) = Size(heap, q) /\ p # q
        BY <1>2, <1>5, <2>1 DEF UsedBlocks
    <2>8. /\ Sound(heap') /\ Blocks(heap') = Blocks(m.heap)
          /\ UsedBlocks(heap') = UsedBlocks(m.heap) \ {q}
          /\ \A a \in Blocks(m.heap) : Size(heap', a) = Size(m.heap, a)
        BY <1>2, <1>3, <1>5, <2>7, ReleaseIs
    <2>9. p \in Blocks(heap') /\ Size(heap', p) = Size(m.heap, p)
        BY <1>2, <1>5, <2>8 DEF UsedBlocks
    <2>10. /\ p \in Nat /\ Size(heap', p) \in Nat /\ Size(heap', p) >= BlockSize(n)
           /\ p + Size(heap', p) <= heap'.brk
           /\ heap'.brk \in Nat /\ heap'.brk < MaxHeap /\ MaxHeap \in Nat
           /\ m.ptr \in Nat /\ m.ptr = p + 1
        BY <1>2, <1>5, <2>8, <2>9, Bounds, HeapAssumption
    <2>11. q \in Blocks(heap') /\ Size(heap', q) = Size(heap, q) /\ q + Size(heap', q) <= heap'.brk
        BY <2>7, <2>8, Bounds
    <2>12. b # NoBlock /\ live'[d] = b /\ \A e \in Ids \ {d} : live'[e] = live[e]
        BY <1>3, <1>5, <2>6, HeapAssumption DEF AllocInv, ClientTypeOK
    <2>13. \A e \in Held \ {d} : live[e].at # m.ptr /\ p # live[e].at - 1 /\ q # live[e].at - 1
        <3>1. \A e \in Held \ {d} : live[e].at # live[d].at
            BY <1>1 DEF AllocInv, UsedIffHeld
        <3>2. \A e \in Held : live[e].at \in Nat /\ live[e].at - 1 \in UsedBlocks(heap)
            BY Holds
        <3>3. \A e \in Held \ {d} : p # live[e].at - 1
            BY <1>2, <1>5, <3>2
        <3>4. \A e \in Held \ {d} : live[e].at # m.ptr
            BY <3>3
        <3>5. \A e \in Held \ {d} : q # live[e].at - 1
            BY <2>1, <3>1, <3>2
        <3> QED
            BY <3>3, <3>4, <3>5
    <2>14. OthersStand(d)
        <3> SUFFICES ASSUME NEW e \in Held \ {d}
                     PROVE  /\ live'[e] = live[e]
                            /\ live[e].at - 1 \in UsedBlocks(heap')
                            /\ Size(heap', live[e].at - 1) = Size(heap, live[e].at - 1)
            BY DEF OthersStand
        <3>1. live[e].at - 1 \in UsedBlocks(heap) /\ e \in Ids
            BY Holds
        <3>2. live[e].at - 1 \in UsedBlocks(m.heap) /\ live[e].at - 1 # q
            BY <1>2, <1>5, <2>13, <3>1
        <3> QED
            BY <1>2, <1>5, <2>8, <2>12, <3>1, <3>2 DEF UsedBlocks
    <2>15. UsedIffHeld'
        <3>1. UsedBlocks(heap') = {live[e].at - 1 : e \in Held \ {d}} \cup {b.at - 1}
            <4>1. UsedBlocks(heap') = ({live[e].at - 1 : e \in Held} \cup {p}) \ {q}
                BY <1>2, <1>5, <2>8, UsedBlocksAre
            <4>2. {live[e].at - 1 : e \in Held} \ {q} = {live[e].at - 1 : e \in Held \ {d}}
                BY <2>13
            <4> QED
                BY <2>6, <2>7, <4>1, <4>2
        <3>2. Size(heap', b.at - 1) >= 1 + b.len
            BY <1>1, <2>3, <2>6, <2>10
        <3>3. \A e \in Held \ {d} : live[e].at # b.at
            BY <2>6, <2>13
        <3> QED
            BY <1>3, <1>5, <2>6, <2>14, <3>1, <3>2, <3>3, HeldGains
    \* The words copied, and the words of the old payload, are inside their blocks.
    <2>16. ASSUME NEW w \in Payload(m.ptr, copied)
           PROVE  /\ p < w /\ w < p + Size(heap', p) /\ w \in 0 .. MaxHeap - 1
                  /\ q < old.at + (w - m.ptr) /\ old.at + (w - m.ptr) < q + Size(heap', q)
                  /\ old.at + (w - m.ptr) \in 0 .. MaxHeap - 1
        BY <2>1, <2>2, <2>3, <2>10, <2>11, <2>16 DEF Payload
    <2>17. ASSUME NEW w \in Payload(old.at, old.len)
           PROVE  q < w /\ w < q + Size(heap', q)
        BY <2>1, <2>11, <2>17 DEF Payload
    <2>18. \A w \in 0 .. MaxHeap - 1 :
              cell'[w] = IF w \in Blocks(heap') THEN Junk ELSE copy[w]
        BY <1>3, <1>5, <2>5 DEF Wipe
    <2>19. ClientTypeOK'
        <3>1. Held' = Held
            BY <1>1, <2>12 DEF Held
        <3>2. cell' \in [0 .. MaxHeap - 1 -> Ids \cup {Junk}]
            <4>1. \A w \in 0 .. MaxHeap - 1 : wiped[w] \in Ids \cup {Junk}
                BY <2>4 DEF AllocInv, ClientTypeOK
            <4>2. \A w \in 0 .. MaxHeap - 1 : copy[w] \in Ids \cup {Junk}
                BY <2>5, <2>16, <4>1
            <4>3. cell' = [w \in 0 .. MaxHeap - 1 |-> IF w \in Blocks(heap') THEN Junk ELSE copy[w]]
                BY <1>3, <1>5, <2>5 DEF Wipe
            <4> QED
                BY <4>2, <4>3
        <3>3. \A e \in Held' : live'[e].len \in Requests /\ live'[e].kept <= live'[e].len
            BY <1>1, <2>3, <2>6, <2>12, <3>1 DEF AllocInv, ClientTypeOK, Held
        <3>4. live' \in [Ids -> [at : Nat, len : Nat, kept : Nat] \cup {NoBlock}]
            BY <1>3, <1>5, <2>6 DEF AllocInv, ClientTypeOK
        <3> QED
            BY <1>3, <3>2, <3>3, <3>4 DEF AllocInv, ClientTypeOK
    <2>20. Contract!GoodPlace(d, b)
        <3>1. b.at - 1 \in Blocks(heap') /\ Size(heap', b.at - 1) >= 1 + b.len
            BY <1>1, <2>3, <2>6, <2>9, <2>10
        <3>2. \A e \in Held \ {d} : b.at # live[e].at
            BY <2>6, <2>13
        <3> QED
            BY <2>6, <2>8, <2>14, <3>1, <3>2, PlaceIsGood
    <2>21. Contract!KeepsOthers(d)
        <3>1. \A w \in 0 .. MaxHeap - 1 :
                 /\ w \notin Blocks(heap')
                 /\ ~(p <= w /\ w < p + Size(heap', p))
                 /\ ~(q <= w /\ w < q + Size(heap', q))
                 => cell'[w] = cell[w]
            <4> SUFFICES ASSUME NEW w \in 0 .. MaxHeap - 1,
                                w \notin Blocks(heap'),
                                ~(p <= w /\ w < p + Size(heap', p)),
                                ~(q <= w /\ w < q + Size(heap', q))
                         PROVE  cell'[w] = cell[w]
                OBVIOUS
            <4>1. w \notin Payload(m.ptr, copied) /\ w \notin Payload(old.at, old.len)
                BY <2>1, <2>10, <2>16, <2>17
            <4> QED
                BY <2>4, <2>5, <2>8, <2>18, <4>1
        <3> QED
            BY <2>8, <2>9, <2>11, <2>13, <2>14, <3>1, OthersKeep
    <2>22. \A k \in 0 .. b.kept - 1 : cell'[b.at + k] = cell[old.at + k]
        <3> SUFFICES ASSUME NEW k \in 0 .. old.kept - 1
                     PROVE  cell'[m.ptr + k] = cell[old.at + k]
            BY <2>6
        <3> DEFINE w == m.ptr + k
        <3>1. k \in Nat /\ k < old.kept /\ w \in Int /\ w \in Payload(m.ptr, copied)
            BY <2>1, <2>3, <2>10 DEF Payload
        <3>2. old.at + (w - m.ptr) = old.at + k
            BY <2>1, <2>10
        <3> HIDE DEF w
        <3>3. w \in 0 .. MaxHeap - 1 /\ w \notin Blocks(heap')
            BY <2>8, <2>9, <2>16, <3>1, PayloadInside
        <3>4. old.at + k \in 0 .. MaxHeap - 1 /\ old.at + k \notin Blocks(heap')
            <4>1. q < old.at + k /\ old.at + k < q + Size(heap', q) /\ old.at + k \in Int
                BY <2>1, <2>16, <3>1, <3>2
            <4> QED
                BY <2>8, <2>11, <4>1, PayloadInside
        <3>5. cell'[w] = wiped[old.at + k]
            BY <2>5, <2>18, <3>1, <3>2, <3>3
        <3>6. wiped[old.at + k] = cell[old.at + k]
            BY <2>4, <2>8, <3>4
        <3> QED
            BY <3>5, <3>6 DEF w
    <2>23. Contract!Realloc(d)
        <3>1. b.kept = IF b.len < old.kept THEN b.len ELSE old.kept
            BY <1>1, <2>1, <2>3, <2>6
        <3> QED
            BY <1>1, <1>3, <1>5, <2>12, <2>20, <2>21, <2>22, <3>1
               DEF Contract!Realloc, Contract!Held, Held
    <2> QED
        BY <1>3, <2>8, <2>15, <2>19, <2>23 DEF AllocInv, Contract!Next
<1> QED
    BY <1>4, <1>5

LEMMA NextStep ==
    ASSUME AllocInv, [Next]_vars
    PROVE  AllocInv' /\ [Contract!Next]_(Contract!vars)
<1>1. ASSUME NEW d \in Ids, NEW n \in Requests, DoMalloc(d, n)
      PROVE  AllocInv' /\ [Contract!Next]_(Contract!vars)
    BY <1>1, MallocStep
<1>2. ASSUME NEW d \in Ids, NEW n \in Requests, DoCalloc(d, n)
      PROVE  AllocInv' /\ [Contract!Next]_(Contract!vars)
    BY <1>2, CallocStep
<1>3. ASSUME NEW d \in Ids, NEW n \in Requests, DoReallocInPlace(d, n)
      PROVE  AllocInv' /\ [Contract!Next]_(Contract!vars)
    BY <1>3, ReallocInPlaceStep
<1>4. ASSUME NEW d \in Ids, NEW n \in Requests, DoReallocMoves(d, n)
      PROVE  AllocInv' /\ [Contract!Next]_(Contract!vars)
    BY <1>4, ReallocMovesStep
<1>5. ASSUME NEW d \in Ids, DoFree(d)
      PROVE  AllocInv' /\ [Contract!Next]_(Contract!vars)
    BY <1>5, FreeStep
<1>6. CASE Reset
    BY <1>6, ResetStep
<1>7. CASE UNCHANGED vars
    BY <1>7 DEF vars, AllocInv, ClientTypeOK, UsedIffHeld, Held, Contract!vars
<1> QED
    BY <1>1, <1>2, <1>3, <1>4, <1>5, <1>6, <1>7 DEF Next

(* The heap stays sound, and its used blocks stay the client's, whatever    *)
(* the client does with mm_malloc, mm_calloc, mm_realloc and mm_free.       *)
THEOREM AllocInvariant == Spec => []AllocInv
<1>1. Init => AllocInv
    BY InitAlloc
<1>2. AllocInv /\ [Next]_vars => AllocInv'
    BY NextStep
<1> QED
    BY <1>1, <1>2, PTL DEF Spec

(* The variables have their types: mm_heap_first, mm_heap_last and the      *)
(* break stay inside the heap.                                              *)
THEOREM AllocTypes == Spec => []TypeOK
<1>1. AllocInv => TypeOK
    <2> SUFFICES ASSUME AllocInv PROVE TypeOK
        OBVIOUS
    <2>1. Sound(heap) /\ MaxHeap \in Nat
        BY HeapAssumption DEF AllocInv
    <2>2. heap.brk \in 1 .. MaxHeap /\ heap.last \in 0 .. MaxHeap
        BY <2>1 DEF Sound
    <2>3. heap.first \in 0 .. MaxHeap
        BY <2>1, <2>2 DEF Sound, Tiling, Null
    <2>4. Blocks(heap) \subseteq 1 .. MaxHeap - 1
        BY <2>1, Bounds
    <2>5. \A a \in Blocks(heap) : Size(heap, a) \in Nat /\ Used(heap, a) \in BOOLEAN
        BY <2>1 DEF Sound
    <2>6. ASSUME NEW d \in Held
          PROVE  /\ live[d].at \in 0 .. MaxHeap
                 /\ live[d].len \in Requests
                 /\ live[d].kept \in 0 .. live[d].len
        <3>1. /\ live[d].at \in Nat /\ live[d].kept \in Nat /\ live[d].len \in Nat
              /\ live[d].kept <= live[d].len /\ live[d].at - 1 \in Blocks(heap)
              /\ live[d].len \in 0 .. MaxRequest
            BY Holds
        <3>2. live[d].at - 1 < MaxHeap
            BY <2>1, <2>4, <3>1
        <3> QED
            BY <2>1, <3>1, <3>2 DEF Requests
    <2>7. cell \in [0 .. MaxHeap - 1 -> Ids \cup {Junk}] /\ crashed \in BOOLEAN
        BY DEF AllocInv, ClientTypeOK
    <2> QED
        BY <2>2, <2>3, <2>4, <2>5, <2>6, <2>7 DEF TypeOK
<1> QED
    BY <1>1, AllocInvariant, PTL

(* However the blocks were split and merged, they tile the heap from the    *)
(* first header to the break: find_fit, coalesce and mm_malloc, which step  *)
(* from one header to the next by get_size, read headers only.              *)
THEOREM HeapIsTiled == Spec => []BlocksTileHeap
<1>1. AllocInv => BlocksTileHeap
    BY DEF AllocInv, Sound, BlocksTileHeap
<1> QED
    BY <1>1, AllocInvariant, PTL

(* The loops bounded by mm_heap_last visit every block, although coalesce   *)
(* leaves mm_heap_last inside a block it has merged, and the header that    *)
(* coalesce reads at the break is inside the mapping.                       *)
THEOREM LoopsVisitAll == Spec => []TraversalsAreExact
<1>1. AllocInv => TraversalsAreExact
    BY VisitsAll DEF AllocInv, Sound, TraversalsAreExact
<1> QED
    BY <1>1, AllocInvariant, PTL

(* The allocated bit of a header says that the client holds the payload:    *)
(* no block leaks and none is handed out twice.                             *)
THEOREM NothingLeaksOrIsSharedOut == Spec => []UsedIffHeld
<1>1. AllocInv => UsedIffHeld
    BY DEF AllocInv
<1> QED
    BY <1>1, AllocInvariant, PTL

------------------------------------------------------------------------------
(* mm_malloc fails only when there is no room *)

LEMMA FreeWordIn ==
    ASSUME NEW h, Sound(h), NEW w
    PROVE  w \in FreeWords(h) <=> /\ w \in Nat
                                  /\ \E a \in Blocks(h) : /\ ~Used(h, a)
                                                          /\ a <= w /\ w < a + Size(h, a)
<1>1. ASSUME NEW a \in Blocks(h)
      PROVE  w \in a .. a + Size(h, a) - 1 <=> w \in Nat /\ a <= w /\ w < a + Size(h, a)
    BY Bounds
<1> QED
    BY <1>1 DEF FreeWords

\* A word is free after coalesce if it was free before.
LEMMA CoalesceKeepsFree ==
    ASSUME NEW h, Sound(h), NEW w \in FreeWords(h)
    PROVE  w \in FreeWords(Coalesce(h))
<1> DEFINE c == Coalesce(h)
<1>1. Sound(c) /\ SameUsed(h, c) /\ c.brk = h.brk
    BY CoalesceSound, CoalesceIs
<1> HIDE DEF c
<1>2. PICK a \in Blocks(h) : ~Used(h, a) /\ a <= w /\ w < a + Size(h, a)
    BY FreeWordIn
<1>3. w \in Nat /\ 1 <= w /\ w < h.brk
    BY <1>2, FreeWordIn, Bounds
<1>4. PICK b \in Blocks(c) : b <= w /\ w < b + Size(c, b)
    BY <1>1, <1>3, Covered
<1>5. ~Used(c, b)
    <2>1. SUFFICES ASSUME Used(c, b) PROVE FALSE
        OBVIOUS
    <2>2. b \in Blocks(h) /\ Used(h, b) /\ Size(c, b) = Size(h, b)
        BY <1>1, <2>1 DEF SameUsed, UsedBlocks
    <2>3. a # b
        BY <1>2, <2>2
    <2>4. a + Size(h, a) <= b \/ b + Size(h, b) <= a
        BY <2>2, <2>3, Apart
    <2> QED
        BY <1>2, <1>3, <1>4, <2>2, <2>4, Bounds
<1>6. w \in FreeWords(c)
    BY <1>1, <1>3, <1>4, <1>5, FreeWordIn
<1> QED
    BY <1>6 DEF c

\* After coalesce a stretch of free words lies within one block.
LEMMA StretchInBlock ==
    ASSUME NEW h, Sound(h), NEW size \in Nat, size > 0, Room(h, size)
    PROVE  Fits(Coalesce(h), size) # {}
<1> DEFINE c == Coalesce(h)
<1>1. Sound(c)
    BY CoalesceSound
<1>2. PICK x \in 1 .. MaxHeap : x .. x + size - 1 \subseteq FreeWords(h)
    BY DEF Room
<1>3. x \in Nat /\ \A w \in x .. x + size - 1 : w \in FreeWords(c)
    BY <1>2, CoalesceKeepsFree
<1>4. x \in FreeWords(c)
    BY <1>3
<1>5. \A a, b \in Blocks(c) : ~Used(c, a) /\ ~Used(c, b) => a + Size(c, a) # b
    BY CoalesceMerges
<1> HIDE DEF c
<1>6. PICK a \in Blocks(c) : ~Used(c, a) /\ a <= x /\ x < a + Size(c, a)
    BY <1>1, <1>4, FreeWordIn
<1>7. a \in Nat /\ Size(c, a) \in Nat
    BY <1>1, Bounds
<1>8. Size(c, a) >= size
    <2>1. SUFFICES ASSUME Size(c, a) < size PROVE FALSE
        BY <1>7
    <2> DEFINE e == a + Size(c, a)
    <2>2. e \in Nat /\ e \in x .. x + size - 1
        BY <1>3, <1>6, <1>7, <2>1
    <2>3. e \in FreeWords(c)
        BY <1>3, <2>2
    <2>4. PICK b \in Blocks(c) : ~Used(c, b) /\ b <= e /\ e < b + Size(c, b)
        BY <1>1, <2>3, FreeWordIn
    <2>5. a # b
        BY <1>7, <2>2, <2>4
    <2>6. a + Size(c, a) <= b \/ b + Size(c, b) <= a
        BY <1>1, <2>5, Apart
    <2>7. b = e
        BY <1>1, <1>7, <2>4, <2>6, Bounds
    <2> QED
        BY <1>5, <1>6, <2>4, <2>7
<1>9. a \in Fits(c, size)
    BY <1>1, <1>6, <1>8, VisitsAll DEF Fits
<1> QED
    BY <1>9 DEF c

(* mm_malloc answers NULL only if no stretch of free words, in however many *)
(* free blocks, is as long as the block: fragments that touch are merged    *)
(* before the search, and no free block is overlooked by it.                *)
THEOREM NullMeansNoRoom == Spec => []FailsOnlyWithoutRoom
<1>1. AllocInv => FailsOnlyWithoutRoom
    <2> SUFFICES ASSUME AllocInv, NEW n \in Requests,
                        Malloc(heap, n).ptr = Null, Room(heap, BlockSize(n))
                 PROVE  FALSE
        BY DEF FailsOnlyWithoutRoom
    <2> DEFINE size == BlockSize(n)
               c    == Coalesce(heap)
               a    == Least(Fits(c, size))
    <2>1. n \in Nat /\ size \in Nat /\ size > 0
        BY BlockSizes, HeapAssumption DEF Requests
    <2>2. Fits(c, size) # {}
        BY <2>1, StretchInBlock DEF AllocInv
    <2>3. Malloc(heap, n).ptr = a + 1
        BY <2>2 DEF Malloc
    <2>4. Sound(c)
        BY CoalesceSound DEF AllocInv
    <2> HIDE DEF c, size
    <2>5. a \in Nat
        <3>1. Fits(c, size) \in SUBSET Nat
            BY <2>4, VisitsAll DEF Fits, Sound
        <3> QED
            BY <2>2, <3>1, LeastIs
    <2> HIDE DEF a
    <2> QED
        BY <2>3, <2>5 DEF Null
<1> QED
    BY <1>1, AllocInvariant, PTL

(* The allocator implements the contract of mm_malloc, mm_calloc,           *)
(* mm_realloc and mm_free, step by step: aligned payloads inside the heap   *)
(* and clear of each other, whose content no operation on another block, no *)
(* header and no move by mm_realloc destroys.                               *)
THEOREM AllocatorIsImplemented == Spec => ImplementsAllocator
<1>1. Init => Contract!Init
    BY DEF Init, Contract!Init
<1>2. AllocInv /\ [Next]_vars => [Contract!Next]_(Contract!vars)
    BY NextStep
<1> QED
    BY <1>1, <1>2, AllocInvariant, PTL DEF Spec, ImplementsAllocator, Contract!Spec
==============================================================================
