SPECIFICATION LockSpec
CONSTANTS
    Thread = {t1, t2, t3, t4, t5}
    SpuriousWakeups = TRUE
INVARIANTS
    LockTypeOK
    MutualExclusion
    CountersExact
    NoLostWakeup
PROPERTIES
    WriterProgress
    ReaderProgress
