SPECIFICATION Spec
CONSTANTS
    Thread = {t1, t2, t3}
    SpuriousWakeups = TRUE
    k1 = k1
    k2 = k2
    v1 = v1
    v2 = v2
    Key = {k1, k2}
    Val = {v1, v2}
    NULL = NULL
    Freed = Freed
    Requests <- AllRequests
    InitialTables <- OneKey
    AllocMayFail = TRUE
    MaxOps = 3
SYMMETRY ThreadSymmetry
INVARIANTS
    TypeOK
    LockInv
    ReadersSeeOneTable
    CounterBounds
    DriftExplained
PROPERTIES
    ImplementsAtomicTable
\* A thread may wait for ever behind a lock that is not released.
CHECK_DEADLOCK FALSE
