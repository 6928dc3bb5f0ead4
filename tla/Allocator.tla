------------------------------- MODULE Allocator -------------------------------
(****************************************************************************)
(* What a client of mm_malloc, mm_calloc, mm_realloc and mm_free may rely   *)
(* on, whatever the allocator does with the rest of the heap.  This is what *)
(* driver/mdriver.c checks of every trace (eval_mm_valid, add_range): each  *)
(* payload is aligned and inside the heap, no two payloads overlap, and the *)
(* client's bytes stay as they were until it frees them, across mm_realloc  *)
(* included.                                                                *)
(*                                                                          *)
(* The unit of size and address is a word of 8 bytes, ALIGNMENT being two.  *)
(* A request of b bytes is one of ceil(b / 8) words: the allocators add a   *)
(* multiple of 8 to b and round up to 16.                                   *)
(****************************************************************************)
EXTENDS Naturals

CONSTANTS Ids,      \* names the client gives to its blocks
          MaxHeap,  \* MAX_HEAP, in words
          Junk,     \* content that is not the client's
          NoBlock   \* the client holds no block of that name

VARIABLES live,     \* the client's blocks: payload address, words asked for,
                    \* and how many of them, from the first, it has written
          cell      \* what each word holds: a client's content (its id) or Junk

vars == <<live, cell>>

Region(b)  == b.at .. b.at + b.len - 1
Written(b) == b.at .. b.at + b.kept - 1
Held       == {d \in Ids : live[d] # NoBlock}

\* A payload for d: aligned, inside the heap, clear of the other payloads.
GoodPlace(d, b) ==
    /\ b.at % 2 = 0
    /\ b.at + b.len <= MaxHeap
    /\ \A e \in Held \ {d} : /\ Region(b) \cap Region(live[e]) = {}
                             /\ b.at # live[e].at

Keeps(d) == \A w \in Written(live[d]) : cell'[w] = cell[w]

KeepsOthers(d) == \A e \in Held \ {d} : Keeps(e)

\* The client holds nothing; cell is arbitrary.
Init == live = [d \in Ids |-> NoBlock]

Malloc(d) ==
    /\ d \notin Held
    /\ live'[d] # NoBlock
    /\ live' = [live EXCEPT ![d] = live'[d]]
    /\ GoodPlace(d, live'[d])
    /\ \A w \in Written(live'[d]) : cell'[w] = d
    /\ KeepsOthers(d)

\* The old content moves with the block, as much of it as fits.
Realloc(d) ==
    /\ d \in Held
    /\ live'[d] # NoBlock
    /\ live' = [live EXCEPT ![d] = live'[d]]
    /\ live'[d].kept = IF live'[d].len < live[d].kept THEN live'[d].len ELSE live[d].kept
    /\ GoodPlace(d, live'[d])
    /\ \A k \in 0 .. live'[d].kept - 1 : cell'[live'[d].at + k] = cell[live[d].at + k]
    /\ KeepsOthers(d)

Free(d) ==
    /\ d \in Held
    /\ live' = [live EXCEPT ![d] = NoBlock]
    /\ KeepsOthers(d)

\* The allocator found no room: every block stays valid, with its content.
Refuse ==
    /\ UNCHANGED live
    /\ \A d \in Held : Keeps(d)

\* A new heap (mem_reset_brk, mm_init).
Reset == live' = [d \in Ids |-> NoBlock]

Next == (\E d \in Ids : Malloc(d) \/ Realloc(d) \/ Free(d)) \/ Refuse \/ Reset

Spec == Init /\ [][Next]_vars
================================================================================
