\* Two workers, a root and its two leaves.
CONSTANTS
    MaxDepth = 1
    BranchFactor = 2
    SizeMax = 7
    NumWorkers = 2
    Jobs <- JobSet
    Threads <- ThreadSet
    Values <- ValueSet
    Null = null
    NoThread = nobody
    Addrs = {a1, a2, a3, a4, a5}
    MaxSpurious = 0
SPECIFICATION TestSpec
INVARIANT AllLeavesPrinted
SYMMETRY Symmetry
CHECK_DEADLOCK FALSE
