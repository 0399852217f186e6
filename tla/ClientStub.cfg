SPECIFICATION Spec
CONSTANTS
    Server = {s1, s2, s3}
    MaxLosses = 1
    Long = {2}
    NULL = NULL
    UNSET = UNSET
    FREED = FREED
INVARIANTS
    TypeOK
    NoChangeMissed
    
    
PROPERTIES
    PendingConnectionKept
    Settles
\* The program ends.
CHECK_DEADLOCK FALSE
