\* Three blocks of up to five words in a heap of fourteen words: six of the
\* smallest blocks, so that there are splits with and without a remainder,
\* merges of several neighbours, and requests that find the heap full.
CONSTANTS
    Ids = {d1, d2, d3}
    MaxHeap = 14
    MaxRequest = 5
    Junk = junk
    NoBlock = none
SPECIFICATION Spec
INVARIANTS
    TypeOK
    BlocksTileHeap
    TraversalsAreExact
    UsedIffHeld
    FailsOnlyWithoutRoom
PROPERTY ImplementsAllocator
SYMMETRY Symmetry
\* Every operation is refused once the program has crashed.
CHECK_DEADLOCK FALSE
