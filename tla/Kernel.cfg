\* Three processes of five slots, tables of three levels and six entries, nine
\* virtual pages; three pages are left for seven of heap.
CONSTANTS
    TopLevel = 2
    Fanout = 6
    Pages <- SmallPages
    Allocatable <- SmallAllocatable
    NoPage = 999
    NPROC = 5
    Reserved <- SmallReserved
    KernelImage = {2}
    Console = 3
    ProcStart = 4
    MemVirtual = 9
    Image <- SmallImage
    WalkBound = 22
SPECIFICATION FairSpec
INVARIANTS
    KernelTypeOK
    AssertionsHold
    Isolation
    PagesAccounted
    IteratorsExact
PROPERTIES
    ImplementsPrivateMemory
    RoundRobin
\* The kernel halts after a panic and spins when no process is runnable.
CHECK_DEADLOCK FALSE
