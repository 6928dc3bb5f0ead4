\* Three blocks held at a time, requests of one to four words (blocks of four
\* and six), and room for five blocks: free lists of up to three nodes.
CONSTANTS
    Ids = {d1, d2, d3}
    MaxHeap = 22
    MinRequest = 1
    MaxRequest = 4
    Junk = junk
    NoBlock = none
SPECIFICATION Spec
INVARIANTS
    HeadersMatchFooters
    CoalescedTiling
    FreeListExact
    UsedIffHeld
    FailsOnlyWithoutRoom
PROPERTY ImplementsAllocator
SYMMETRY Symmetry
\* Every operation is refused once the program has crashed.
CHECK_DEADLOCK FALSE
