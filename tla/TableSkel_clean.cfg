SPECIFICATION Spec
CONSTANTS
    Thread = {t1, t2, t3}
    SpuriousWakeups = FALSE
    k1 = k1
    k2 = k2
    v1 = v1
    v2 = v2
    Key = {k1, k2}
    Val = {v1, v2}
    NULL = NULL
    Freed = Freed
    Requests <- CleanRequests
    InitialTables <- TwoKeys
    AllocMayFail = FALSE
    MaxOps = 3
INVARIANTS
    ForwardedInOrder
PROPERTIES
    InvokeReturns
    ImplementsAtomicTable
\* No request is left to receive when MaxOps have been.
CHECK_DEADLOCK FALSE
