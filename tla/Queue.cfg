\* Three threads, two calls each, three nodes, one spurious wakeup; every
\* interleaving.  Two threads may sleep while the third enqueues twice; two
\* values are enough to tell an order from another.  No symmetry, for liveness.
CONSTANTS
    Threads = {t1, t2, t3}
    Null = null
    Values = {null, v1}
    Addrs = {a1, a2, a3}
    NoThread = nobody
    MaxSpurious = 1
    MaxCalls = 2
SPECIFICATION ClientsFairSpec
INVARIANTS
    QueueInv
    SafeDereference
    NoNodeLeak
    NoLostWakeup
PROPERTIES
    ImplementsFifo
    ImplementsFairFifo
    Quiescence
\* Every thread may end up blocked on an empty queue, or have made its calls.
CHECK_DEADLOCK FALSE
