SPECIFICATION Spec
CONSTANTS
    Server = {s1, s2, s3}
    Key = {}
    MaxWrites = 0
    MaxCrashes = 1
    CallsMayFail = TRUE
    NULL = NULL
    UNSET = UNSET
SYMMETRY Symmetry
INVARIANTS
    TypeOK
    LinksGoForward
    NoChangeMissed
    
PROPERTY ImplementsMembership
\* A chain in which nothing happens any more is at rest.
CHECK_DEADLOCK FALSE
