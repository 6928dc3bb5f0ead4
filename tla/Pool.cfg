\* Two workers, two pieces of work, one spurious wakeup; no symmetry, for liveness.
\* At most two pieces of work and two markers are queued at a time: four nodes.
CONSTANTS
    NumWorkers = 2
    Jobs = {j1, j2}
    Threads <- ThreadSet
    Values <- ValueSet
    Null = null
    NoThread = nobody
    Addrs = {a1, a2, a3, a4}
    MaxSpurious = 1
SPECIFICATION FairSpec
INVARIANTS
    NobodyInsideFreed
    NothingBehindMarkers
    OneMarkerPerWorker
    OneOwnerPerWork
    FinishWaits
PROPERTIES
    ImplementsPool
    FinishTerminates
\* The program ends when the pool is closed.
CHECK_DEADLOCK FALSE
