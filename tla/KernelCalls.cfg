CONSTANTS
    TopLevel = 1
    Fanout = 6
    Pages <- CallPages
    Allocatable <- CallAllocatable
    NoPage = 999
    NPROC = 3
    Reserved <- SmallReserved
    KernelImage = {2}
    Console = 3
    ProcStart = 4
    MemVirtual = 8
    Image <- CallImage
    WalkBound = 8
SPECIFICATION CallSpec
INVARIANTS
    AssertionsHold
    Isolation
PROPERTIES
    OnlyOwnMemory
\* The kernel halts after a panic and spins when no process is runnable.
CHECK_DEADLOCK FALSE
