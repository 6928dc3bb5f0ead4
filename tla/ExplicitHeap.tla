----------------------------- MODULE ExplicitHeap -----------------------------
(****************************************************************************)
(* project03-wduan/src/mm-explicit.c over src/memlib.c: each block has a    *)
(* header and a footer, free blocks are doubly linked through their own     *)
(* payloads, last freed first, and a block is merged with its free          *)
(* neighbours as it is freed.                                               *)
(*                                                                          *)
(* The heap is modelled word by word, because the allocator keeps its data  *)
(* where the client's was: a word holds a tag (the header or footer of a    *)
(* block), a link of the free list, or what the client wrote.  As in        *)
(* ImplicitHeap the allocator's state is one record, and its operations are *)
(* functions from heap to heap.  Units are words; see Allocator.            *)
(****************************************************************************)
EXTENDS Integers, FiniteSets

CONSTANTS Ids, MaxHeap, Junk, NoBlock,   \* see Allocator
          MinRequest,                    \* the smallest request of the client
          MaxRequest                     \* bound: words in one request

\* NULL; never a block, for the heap begins with a word of padding.
Null == 0

ASSUME HeapAssumption ==
    /\ MaxHeap \in Nat \ {0} /\ MaxHeap % 2 = 0    \* MAX_HEAP is 100 MB
    /\ MinRequest \in Nat /\ MaxRequest \in Nat
    /\ Junk \notin Ids
    /\ NoBlock \notin [at : Nat, len : Nat, kept : Nat]

VARIABLES heap,    \* mem, brk, first (mm_heap_first), last (mm_heap_last),
                   \* free (free_list_first)
          live,    \* as in Allocator
          crashed  \* the program has died

vars == <<heap, live, crashed>>

\* What a word may hold.
Tag(n, u)  == <<"tag", n, u>>       \* a size, and the allocated bit
Link(a)    == <<"link", a>>         \* left or right of a free_node_t
Content(d) == <<"content", d>>      \* written by the client, or junk

------------------------------------------------------------------------------
(* The allocator, as functions of the heap *)

Least(S) == CHOOSE a \in S : \A b \in S : a <= b

RoundUp(n)   == n + (n % 2)       \* to a multiple of ALIGNMENT
BlockSize(n) == RoundUp(2 + n)    \* of a block with a payload of n words
MinBlock     == RoundUp(2 + 2)    \* header, footer and ALIGNMENT

Size(h, a) == h.mem[a][2]
Used(h, a) == h.mem[a][3]

\* The operators named ...Mutant are plausible mistakes in what follows them.

SetHeaderMutant(h, a, n, u) == [h EXCEPT !.mem[a] = Tag(n, u)]    \* no footer

SetHeader(h, a, n, u) ==
    [h EXCEPT !.mem[a] = Tag(n, u), !.mem[a + n - 1] = Tag(n, u)]

Left(h, a)  == h.mem[a + 1][2]
Right(h, a) == h.mem[a + 2][2]
SetLeft(h, a, b)  == [h EXCEPT !.mem[a + 1] = Link(b)]
SetRight(h, a, b) == [h EXCEPT !.mem[a + 2] = Link(b)]

\* the old first node does not point back at the new one
AddFreeNodeMutant(h, a) ==
    SetLeft(SetRight([h EXCEPT !.free = a], a, h.free), a, Null)

AddFreeNode(h, a) ==
    IF h.free = Null
    THEN SetRight(SetLeft([h EXCEPT !.free = a], a, Null), a, Null)
    ELSE SetLeft([SetLeft(SetRight(h, a, h.free), h.free, a) EXCEPT !.free = a], a, Null)

RemoveFreeNode(h, a) ==
    IF a = h.free
    THEN LET r == Right(h, a)
             g == [h EXCEPT !.free = r]
         IN  IF r # Null THEN SetLeft(g, r, Null) ELSE g
    ELSE LET l == Left(h, a)
             r == Right(h, a)
             g == IF l # Null THEN SetRight(h, l, r) ELSE h
         IN  IF r # Null THEN SetLeft(g, r, l) ELSE g

\* Words that no operation reads before it writes them are forgotten, so that
\* no two heaps differ only by what they once held.
Write(h, S, d)  == [h EXCEPT !.mem = [w \in DOMAIN h.mem |->
                                         IF w \in S THEN Content(d) ELSE h.mem[w]]]
Forget(h, S)    == Write(h, S, Junk)
Payload(h, p)   == p .. p + Size(h, p - 1) - 3

\* The free list as find_fit walks it: the k-th node, then NULL for ever.
\* A block has two words at least, so no list is longer than MaxLength.
MaxLength == MaxHeap \div 2 + 1

FreeNode(h) ==
    LET f[k \in 1 .. MaxLength] ==
            IF k = 1 THEN h.free
            ELSE LET p == f[k - 1] IN IF p = Null THEN Null ELSE Right(h, p)
    IN  f

\* The places in the list, in its order, of the nodes that are large enough.
Fitting(h, n) ==
    LET f == FreeNode(h)
    IN  {k \in 1 .. MaxLength : f[k] # Null /\ Size(h, f[k]) >= n}

\* find_fit, when the node at a fits: what it does to the list.
TakeAndSplit(h, a, n) ==
    LET nxt == a + n
        cut == SetHeader(SetHeader(h, a, n, FALSE), nxt, Size(h, a) - n, FALSE)
        g   == [cut EXCEPT !.last = IF nxt > @ THEN nxt ELSE @]
    IN  AddFreeNode(RemoveFreeNode(g, a), nxt)

TakeWhole(h, a) ==
    IF a = h.free THEN [h EXCEPT !.free = Right(h, a)]
    ELSE LET g == SetRight(h, Left(h, a), Right(h, a))
         IN  IF Right(h, a) # Null THEN SetLeft(g, Right(h, a), Left(h, a)) ELSE g

Take(h, a, n) ==
    IF Size(h, a) - n >= MinBlock THEN TakeAndSplit(h, a, n) ELSE TakeWhole(h, a)

\* coalesce(block), in its two halves: the left neighbour by its footer, then
\* the right one by its header; the block joins the list unless its left
\* neighbour was in it.
HasFreeLeft(h, a)  == a # h.first /\ ~Used(h, a - h.mem[a - 1][2])
HasFreeRightMutant(h, a) ==    \* misses the last block
    a + Size(h, a) < h.last /\ ~Used(h, a + Size(h, a))
HasFreeRight(h, a) == a < h.last /\ ~Used(h, a + Size(h, a))

MergeLeft(h, a) ==
    LET l == a - h.mem[a - 1][2]
        g == SetHeader(h, l, Size(h, l) + Size(h, a), FALSE)
    IN  Forget([g EXCEPT !.last = IF a = @ THEN l ELSE @], {a - 1, a})

MergeRight(h, a) ==
    LET r == a + Size(h, a)
        g == RemoveFreeNode(h, r)
        m == SetHeader(g, a, Size(g, a) + Size(g, r), FALSE)
    IN  Forget([m EXCEPT !.last = IF r = @ THEN a ELSE @], r - 1 .. r + 2)

CoalesceMutant(h, a) == AddFreeNode(h, a)    \* free neighbours stay apart

Coalesce(h, a) ==
    LET flag == HasFreeLeft(h, a)
        b    == IF flag THEN a - h.mem[a - 1][2] ELSE a
        g    == IF flag THEN MergeLeft(h, a) ELSE h
        m    == IF HasFreeRight(g, b) THEN MergeRight(g, b) ELSE g
    IN  IF flag THEN m ELSE AddFreeNode(m, b)

\* mem_sbrk refuses to pass the end of the heap.
SbrkFails(h, n) == h.brk + n > MaxHeap

Extend(h, n) ==
    LET b == h.brk
    IN  SetHeader([h EXCEPT !.brk = b + n,
                            !.first = IF @ = Null THEN b ELSE @,
                            !.last = b], b, n, TRUE)

\* mm_malloc: the heap it leaves, and the payload it returns.
Malloc(h, n) ==
    LET size == BlockSize(n)
        fit  == Fitting(h, size)
        a    == FreeNode(h)[Least(fit)]
        t    == Take(h, a, size)
    IN  IF fit # {} THEN [heap |-> SetHeader(t, a, Size(t, a), TRUE), ptr |-> a + 1]
        ELSE IF SbrkFails(h, size) THEN [heap |-> h, ptr |-> Null]
        ELSE [heap |-> Extend(h, size), ptr |-> h.brk + 1]

ReleaseMutant(h, p) == Coalesce(h, p - 1)    \* the block stays marked

\* mm_free of a payload pointer other than NULL.
Release(h, p) ==
    Coalesce(SetHeader(Forget(h, Payload(h, p)), p - 1, Size(h, p - 1), FALSE), p - 1)

\* mem_reset_brk(true) and mm_init.
InitHeap ==
    [mem |-> [w \in 0 .. MaxHeap - 1 |-> Content(Junk)],
     brk |-> 1, first |-> Null, last |-> Null, free |-> Null]

------------------------------------------------------------------------------
(* The client's operations *)

Requests == MinRequest .. MaxRequest
Block(p, n, k) == [at |-> p, len |-> n, kept |-> k]

Init ==
    /\ heap = InitHeap
    /\ live = [d \in Ids |-> NoBlock]
    /\ crashed = FALSE

\* mm_malloc(n), also reached by mm_realloc(NULL, n); the client fills the payload.
DoMalloc(d, n) ==
    LET m == Malloc(heap, n)
    IN  /\ ~crashed
        /\ live[d] = NoBlock
        /\ IF m.ptr = Null THEN UNCHANGED <<heap, live>>
           ELSE /\ heap' = Write(Forget(m.heap, Payload(m.heap, m.ptr)),
                                m.ptr .. m.ptr + n - 1, d)
                /\ live' = [live EXCEPT ![d] = Block(m.ptr, n, n)]
        /\ UNCHANGED crashed

\* mm_calloc of n words in all: memset through the pointer, NULL or not.
DoCalloc(d, n) ==
    IF n = 0 THEN UNCHANGED vars
    ELSE IF Malloc(heap, n).ptr # Null THEN DoMalloc(d, n)
    ELSE /\ ~crashed
         /\ live[d] = NoBlock
         /\ crashed' = TRUE
         /\ UNCHANGED <<heap, live>>

\* mm_free(p), also reached by mm_realloc(p, 0).
DoFree(d) ==
    /\ ~crashed
    /\ live[d] # NoBlock
    /\ heap' = Release(heap, live[d].at)
    /\ live' = [live EXCEPT ![d] = NoBlock]
    /\ UNCHANGED crashed

\* mm_realloc in place: the block is large enough already.
DoReallocInPlace(d, n) ==
    /\ ~crashed
    /\ live[d] # NoBlock
    /\ n > 0
    /\ Size(heap, live[d].at - 1) >= BlockSize(n)
    /\ LET old == live[d]
           kept == IF n < old.kept THEN n ELSE old.kept
       IN  /\ live' = [live EXCEPT ![d] = Block(old.at, n, kept)]
           /\ heap' = Forget(heap, (old.at + kept) .. (old.at + old.len - 1))
    /\ UNCHANGED crashed

CopiedMutant(h, p) == Size(h, p - 1) - 3    \* one word short

\* The words that memcpy copies: all of the old block but header and footer.
Copied(h, p) == Size(h, p - 1) - 2

Memcpy(h, to, from, n) ==
    [h EXCEPT !.mem = [w \in DOMAIN h.mem |->
        IF w \in to .. to + n - 1 THEN h.mem[from + (w - to)] ELSE h.mem[w]]]

\* mm_realloc by malloc, memcpy of the whole old payload, and free.
DoReallocMoves(d, n) ==
    /\ ~crashed
    /\ live[d] # NoBlock
    /\ n > 0
    /\ Size(heap, live[d].at - 1) < BlockSize(n)
    /\ LET old  == live[d]
           m    == Malloc(heap, n)
           new  == Forget(m.heap, Payload(m.heap, m.ptr))
           copy == Memcpy(new, m.ptr, old.at, Copied(heap, old.at))
       IN  IF m.ptr = Null THEN UNCHANGED <<heap, live>>
           ELSE /\ heap' = Release(copy, old.at)
                /\ live' = [live EXCEPT ![d] = Block(m.ptr, n, old.kept)]
    /\ UNCHANGED crashed

\* The driver starts the next trace: mem_reset_brk and mm_init.
Reset ==
    /\ ~crashed
    /\ heap' = InitHeap
    /\ live' = [d \in Ids |-> NoBlock]
    /\ UNCHANGED crashed

Next ==
    \/ \E d \in Ids :
          \/ \E n \in Requests :
                DoMalloc(d, n) \/ DoCalloc(d, n) \/ DoReallocInPlace(d, n) \/ DoReallocMoves(d, n)
          \/ DoFree(d)
    \/ Reset

Spec == Init /\ [][Next]_vars

------------------------------------------------------------------------------
(* Properties *)

Held == {d \in Ids : live[d] # NoBlock}

\* The blocks that mm_checkheap comes to: from mm_heap_first, each beginning
\* where the one before it ends, up to mm_heap_last.
BlockAt(h) ==
    LET b[k \in 1 .. MaxLength] ==
            IF k = 1 THEN h.first
            ELSE LET p == b[k - 1]
                 IN  IF p = Null \/ p >= h.last THEN Null ELSE p + Size(h, p)
    IN  b

Blocks(h)     == LET b == BlockAt(h) IN {b[k] : k \in 1 .. MaxLength} \ {Null}
FreeBlocks(h) == {a \in Blocks(h) : ~Used(h, a)}

(* mm_checkheap:296, "make sure headers and footers are identical": after   *)
(* every operation, each block that the traversal meets ends with a copy of *)
(* its header.  coalesce depends on it to find the block on its left.       *)
HeadersMatchFooters ==
    \A a \in Blocks(heap) :
        /\ heap.mem[a][1] = "tag"
        /\ heap.mem[a + Size(heap, a) - 1] = heap.mem[a]

(* The blocks end exactly at the break, mm_heap_last is the last of them,   *)
(* and no two free blocks are neighbours: each mm_free merges with both     *)
(* sides, whatever the order in which blocks are freed, split and reused.   *)
CoalescedTiling ==
    IF heap.brk = 1 THEN heap.first = Null /\ heap.last = Null
    ELSE /\ heap.first = 1
         /\ heap.last \in Blocks(heap)
         /\ heap.last + Size(heap, heap.last) = heap.brk
         /\ \A a \in FreeBlocks(heap) : a + Size(heap, a) \notin FreeBlocks(heap)

(* The free list holds every free block once and nothing else (mm_checkheap *)
(* compares their numbers only), and every node but the first points back   *)
(* at its predecessor.  The first node's left link may be stale, for        *)
(* find_fit does not clear it (mm-explicit.c:129-132).                      *)
FreeListExact ==
    LET f == FreeNode(heap)
        n == Cardinality(FreeBlocks(heap))
    IN  /\ {f[k] : k \in 1 .. MaxLength} \ {Null} = FreeBlocks(heap)
        /\ \A k \in 1 .. MaxLength : (f[k] = Null) <=> (k > n)
        /\ \A k \in 2 .. n : Left(heap, f[k]) = f[k - 1]

(* A block is marked allocated exactly when the client holds its payload,   *)
(* and is large enough for what was asked.                                  *)
UsedIffHeld ==
    /\ \A d \in Held : /\ live[d].at - 1 \in Blocks(heap) \ FreeBlocks(heap)
                       /\ Size(heap, live[d].at - 1) >= 2 + live[d].len
    /\ \A a \in Blocks(heap) \ FreeBlocks(heap) : \E d \in Held : live[d].at = a + 1

(* mm_malloc fails only when no stretch of free words has room for the      *)
(* block: immediate merging leaves nothing to gain by another one.          *)
FreeWords(h) == UNION {a .. a + Size(h, a) - 1 : a \in FreeBlocks(h)}

FailsOnlyWithoutRoom ==
    LET words == FreeWords(heap)
    IN  \A n \in Requests : Malloc(heap, n).ptr = Null =>
            ~\E a \in words : a .. a + BlockSize(n) - 1 \subseteq words

\* What the client may rely on, each word holding its content or junk.
Contract == INSTANCE Allocator
    WITH cell <- [w \in DOMAIN heap.mem |->
                    IF heap.mem[w][1] = "content" THEN heap.mem[w][2] ELSE Junk]

(* Aligned, disjoint payloads inside the heap whose content survives every  *)
(* operation on the others, and mm_realloc, although the allocator writes   *)
(* footers and links among them.                                            *)
ImplementsAllocator == Contract!Spec
===============================================================================
