\* The same client, allowed to ask for zero bytes: mm_free of such a block
\* writes the links of the free list over its footer and the next header.
CONSTANTS
    Ids = {d1, d2}
    MaxHeap = 14
    MinRequest = 0
    MaxRequest = 2
    Junk = junk
    NoBlock = none
SPECIFICATION Spec
INVARIANT HeadersMatchFooters
SYMMETRY Symmetry
CHECK_DEADLOCK FALSE
