SPECIFICATION Spec
CONSTANTS
    Thread = {t1, t2}
    SpuriousWakeups = FALSE
    k1 = k1
    k2 = k2
    v1 = v1
    v2 = v2
    Key = {k1, k2}
    Val = {v1, v2}
    NULL = NULL
    Freed = Freed
    Requests <- CleanRequests
    InitialTables <- NoTable
    AllocMayFail = FALSE
    MaxOps = 3
PROPERTIES
    InvokeReturns
CHECK_DEADLOCK FALSE
