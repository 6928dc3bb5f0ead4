----------------------------- MODULE ImplicitHeap -----------------------------
(****************************************************************************)
(* project03-wduan/src/mm-implicit.c over src/memlib.c: a heap that only    *)
(* grows, tiled by blocks of one header word and a payload; the blocks form *)
(* an implicit list, free neighbours are merged when the next mm_malloc     *)
(* begins, and the first block that fits is taken and split.                *)
(*                                                                          *)
(* The allocator's static variables and the break are one record, `heap`,   *)
(* so that an operation is a function from heap to heap and mm_realloc can  *)
(* call the others.  header is the headers in use: a function from block    *)
(* addresses to size and allocation bit.  Units are words; see Allocator.   *)
(* The client is the driver's: it asks, writes all it asked for, reallocs   *)
(* and frees what it holds.                                                 *)
(****************************************************************************)
EXTENDS Integers, FiniteSets

CONSTANTS Ids, MaxHeap, Junk, NoBlock,   \* see Allocator
          MaxRequest                     \* bound: words in one request

\* NULL; never a block, for the heap begins with a word of padding.
Null == 0

ASSUME HeapAssumption ==
    /\ MaxHeap \in Nat \ {0} /\ MaxHeap % 2 = 0    \* MAX_HEAP is 100 MB
    /\ MaxRequest \in Nat
    /\ Junk \notin Ids
    /\ NoBlock \notin [at : Nat, len : Nat, kept : Nat]

VARIABLES heap,    \* brk, header, first (mm_heap_first), last (mm_heap_last)
          cell,    \* as in Allocator
          live,    \* as in Allocator
          crashed  \* the program has died

vars == <<heap, cell, live, crashed>>

------------------------------------------------------------------------------
(* The allocator, as functions of the heap *)

Least(S) == CHOOSE a \in S : \A b \in S : a <= b

\* The operators named ...Mutant are plausible mistakes in what follows them.

RoundUp(n) == n + (n % 2)        \* to a multiple of ALIGNMENT
BlockSizeMutant(n) == 1 + n      \* not rounded
BlockSize(n) == RoundUp(1 + n)   \* of a block with a payload of n words
MinBlock == RoundUp(1)

Blocks(h)  == DOMAIN h.header
Size(h, a) == h.header[a].size
Used(h, a) == h.header[a].used

SetHeader(h, a, n, u) ==
    [h EXCEPT !.header = [b \in DOMAIN h.header \cup {a} |->
                             IF b = a THEN [size |-> n, used |-> u] ELSE h.header[b]]]

\* The blocks that a loop from mm_heap_first up to mm_heap_last comes to.
Visited(h) == {a \in Blocks(h) : h.last # Null /\ a <= h.last}

\* coalesce: a free block absorbs every free block that follows it.
Absorbed(h) ==
    {a \in Visited(h) : /\ ~Used(h, a)
                        /\ \E b \in Visited(h) : ~Used(h, b) /\ b + Size(h, b) = a}

CoalesceMutant(h) == h    \* free neighbours stay apart

Coalesce(h) ==
    LET rest == Blocks(h) \ Absorbed(h)
        End(a) == Least({b \in rest \cup {h.brk} : b > a})
    IN  [h EXCEPT !.header = [a \in rest |->
            IF Used(h, a) \/ a \notin Visited(h) THEN h.header[a]
            ELSE [size |-> End(a) - a, used |-> FALSE]]]

\* find_fit: the first free block that is large enough, and the split of it.
Fits(h, n) == {a \in Visited(h) : ~Used(h, a) /\ Size(h, a) >= n}

\* mm_heap_last stays where it was
SplitMutant(h, a, n) ==
    IF Size(h, a) - n < MinBlock THEN h
    ELSE SetHeader(SetHeader(h, a, n, FALSE), a + n, Size(h, a) - n, FALSE)

Split(h, a, n) ==
    LET nxt == a + n
        cut == SetHeader(SetHeader(h, a, n, FALSE), nxt, Size(h, a) - n, FALSE)
    IN  IF Size(h, a) - n < MinBlock THEN h
        ELSE [cut EXCEPT !.last = IF nxt > @ THEN nxt ELSE @]

SbrkFailsMutant(h, n) == h.brk + n > MaxHeap + 1

\* mem_sbrk refuses to pass the end of the heap.
SbrkFails(h, n) == h.brk + n > MaxHeap

Extend(h, n) ==
    LET b == h.brk
    IN  SetHeader([h EXCEPT !.brk = b + n,
                            !.first = IF @ = Null THEN b ELSE @,
                            !.last = b], b, n, TRUE)

\* mm_malloc: the heap it leaves, and the payload it returns.
Malloc(h, n) ==
    LET size == BlockSize(n)
        c    == Coalesce(h)
        a    == Least(Fits(c, size))
        s    == Split(c, a, size)
    IN  IF Fits(c, size) # {} THEN [heap |-> SetHeader(s, a, Size(s, a), TRUE), ptr |-> a + 1]
        ELSE IF SbrkFails(c, size) THEN [heap |-> c, ptr |-> Null]
        ELSE [heap |-> Extend(c, size), ptr |-> c.brk + 1]

ReleaseMutant(h, p) == h    \* the block stays marked

\* mm_free of a payload pointer other than NULL.
Release(h, p) == SetHeader(h, p - 1, Size(h, p - 1), FALSE)

InitHeap ==
    [brk |-> 1, header |-> [a \in {} |-> 0], first |-> Null, last |-> Null]

------------------------------------------------------------------------------
(* The client's operations.  An allocator that writes a header word wipes   *)
(* out the client's content of that word, if it had one.                    *)

Requests == 0 .. MaxRequest
Payload(p, n) == p .. p + n - 1
Block(p, n, k) == [at |-> p, len |-> n, kept |-> k]
Wipe(c, h) == [w \in DOMAIN c |-> IF w \in Blocks(h) THEN Junk ELSE c[w]]
Fill(c, S, v) == [w \in DOMAIN c |-> IF w \in S THEN v ELSE c[w]]

Init ==
    /\ heap = InitHeap
    /\ cell = [w \in 0 .. MaxHeap - 1 |-> Junk]
    /\ live = [d \in Ids |-> NoBlock]
    /\ crashed = FALSE

\* mm_malloc(n), also reached by mm_realloc(NULL, n); the client fills the payload.
DoMalloc(d, n) ==
    LET m == Malloc(heap, n)
    IN  /\ ~crashed
        /\ live[d] = NoBlock
        /\ heap' = m.heap
        /\ IF m.ptr = Null
           THEN cell' = Wipe(cell, m.heap) /\ UNCHANGED live
           ELSE /\ cell' = Fill(Wipe(cell, m.heap), Payload(m.ptr, n), d)
                /\ live' = [live EXCEPT ![d] = Block(m.ptr, n, n)]
        /\ UNCHANGED crashed

\* mm_calloc of n words in all: memset through the pointer, NULL or not.
DoCalloc(d, n) ==
    IF n = 0 THEN UNCHANGED vars
    ELSE IF Malloc(heap, n).ptr # Null THEN DoMalloc(d, n)
    ELSE /\ ~crashed
         /\ live[d] = NoBlock
         /\ crashed' = TRUE
         /\ UNCHANGED <<heap, cell, live>>

\* mm_free(p), also reached by mm_realloc(p, 0).
DoFree(d) ==
    /\ ~crashed
    /\ live[d] # NoBlock
    /\ heap' = Release(heap, live[d].at)
    /\ cell' = Fill(Wipe(cell, heap'), Payload(live[d].at, live[d].len), Junk)
    /\ live' = [live EXCEPT ![d] = NoBlock]
    /\ UNCHANGED crashed

\* mm_realloc in place: the block is large enough already.
DoReallocInPlace(d, n) ==
    /\ ~crashed
    /\ live[d] # NoBlock
    /\ n > 0
    /\ Size(heap, live[d].at - 1) >= BlockSize(n)
    /\ LET old == live[d]
           kept == IF n < old.kept THEN n ELSE old.kept
       IN  /\ live' = [live EXCEPT ![d] = Block(old.at, n, kept)]
           /\ cell' = Fill(cell, (old.at + kept) .. (old.at + old.len - 1), Junk)
    /\ UNCHANGED <<heap, crashed>>

CopiedMutant(h, p) == Size(h, p - 1) - 2    \* one word short

\* The words that memcpy copies: all of the old block but its header.
Copied(h, p) == Size(h, p - 1) - 1

\* mm_realloc by malloc, memcpy of the whole old payload, and free.
DoReallocMoves(d, n) ==
    /\ ~crashed
    /\ live[d] # NoBlock
    /\ n > 0
    /\ Size(heap, live[d].at - 1) < BlockSize(n)
    /\ LET old    == live[d]
           copied == Copied(heap, old.at)
           m      == Malloc(heap, n)
           wiped  == Wipe(cell, m.heap)
           copy   == [w \in DOMAIN cell |->
                        IF w \in Payload(m.ptr, copied) THEN wiped[old.at + (w - m.ptr)]
                        ELSE IF w \in Payload(old.at, old.len) THEN Junk
                        ELSE wiped[w]]
       IN  IF m.ptr = Null
           THEN heap' = m.heap /\ cell' = wiped /\ UNCHANGED live
           ELSE /\ heap' = Release(m.heap, old.at)
                /\ cell' = Wipe(copy, heap')
                /\ live' = [live EXCEPT ![d] = Block(m.ptr, n, old.kept)]
    /\ UNCHANGED crashed

\* The driver starts the next trace: mem_reset_brk and mm_init.
Reset ==
    /\ ~crashed
    /\ heap' = InitHeap
    /\ cell' = [w \in DOMAIN cell |-> Junk]
    /\ live' = [d \in Ids |-> NoBlock]
    /\ UNCHANGED crashed

Next ==
    \/ \E d \in Ids :
          \/ \E n \in Requests :
                DoMalloc(d, n) \/ DoCalloc(d, n) \/ DoReallocInPlace(d, n) \/ DoReallocMoves(d, n)
          \/ DoFree(d)
    \/ Reset

Spec == Init /\ [][Next]_vars

------------------------------------------------------------------------------
(* Properties *)

Held == {d \in Ids : live[d] # NoBlock}

TypeOK ==
    /\ heap.brk \in 1 .. MaxHeap
    /\ heap.first \in 0 .. MaxHeap
    /\ heap.last \in 0 .. MaxHeap
    /\ Blocks(heap) \subseteq 1 .. MaxHeap - 1
    /\ \A a \in Blocks(heap) : Size(heap, a) \in Nat /\ Used(heap, a) \in BOOLEAN
    /\ cell \in [0 .. MaxHeap - 1 -> Ids \cup {Junk}]
    /\ \A d \in Held : /\ live[d].at \in 0 .. MaxHeap
                       /\ live[d].len \in Requests
                       /\ live[d].kept \in 0 .. live[d].len
    /\ crashed \in BOOLEAN

(* The blocks tile the heap: from the first header, each block begins where *)
(* the one before it ends, and the last one ends at the break.  Every       *)
(* traversal (curr += get_size(curr)) therefore meets headers only, after   *)
(* any sequence of splits and merges, and every payload is 16-byte aligned. *)
Tiling(h) ==
    /\ h.brk % 2 = 1
    /\ h.first = IF Blocks(h) = {} THEN Null ELSE 1
    /\ h.brk # 1 => 1 \in Blocks(h)
    /\ \A a \in Blocks(h) :
          /\ a % 2 = 1
          /\ Size(h, a) > 0 /\ Size(h, a) % 2 = 0
          /\ a + Size(h, a) = h.brk \/ a + Size(h, a) \in Blocks(h)
          /\ a + Size(h, a) <= h.brk
          /\ \A b \in Blocks(h) : b > a => b >= a + Size(h, a)

BlocksTileHeap == Tiling(heap)

(* The loops that run from mm_heap_first while curr <= mm_heap_last visit   *)
(* every block and nothing else, although mm_heap_last may point inside the *)
(* last block, since coalesce does not move it (mm-implicit.c:86-97).  And  *)
(* the header at the break, which coalesce reads before it compares the     *)
(* address with mm_heap_last (mm-implicit.c:92), is inside the mapping even *)
(* when the heap is full.                                                   *)
TraversalsAreExact ==
    /\ Visited(heap) = Blocks(heap)
    /\ heap.last < heap.brk
    /\ heap.brk + 1 <= MaxHeap

(* A block is marked allocated exactly when the client holds its payload,   *)
(* and is large enough for what was asked: no block leaks, none is handed   *)
(* out twice.                                                               *)
UsedIffHeld ==
    /\ \A d \in Held : /\ live[d].at - 1 \in Blocks(heap)
                       /\ Used(heap, live[d].at - 1)
                       /\ Size(heap, live[d].at - 1) >= 1 + live[d].len
    /\ \A a \in Blocks(heap) : Used(heap, a) => \E d \in Held : live[d].at = a + 1
    /\ \A d, e \in Held : live[d].at = live[e].at => d = e

(* mm_malloc (or mm_realloc) fails only when no stretch of free words,      *)
(* however many free blocks it is cut into, has room for the block.         *)
FreeWords(h) == UNION {a .. a + Size(h, a) - 1 : a \in {b \in Blocks(h) : ~Used(h, b)}}

Room(h, size) == \E a \in 1 .. MaxHeap : a .. a + size - 1 \subseteq FreeWords(h)

FailsOnlyWithoutRoom ==
    \A n \in Requests : Malloc(heap, n).ptr = Null => ~Room(heap, BlockSize(n))

\* What the client may rely on.
Contract == INSTANCE Allocator

(* Aligned, disjoint payloads inside the heap whose content survives every  *)
(* operation on the others, and mm_realloc.                                 *)
ImplementsAllocator == Contract!Spec
===============================================================================
