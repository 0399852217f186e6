SPECIFICATION Spec
CONSTANTS
    Server = {s1, s2}
    Key = {k1, k2}
    MaxWrites = 3
    MaxCrashes = 1
    CallsMayFail = FALSE
    NULL = NULL
    UNSET = UNSET
PROPERTY StartEnds
\* A chain in which nothing happens any more is at rest.
CHECK_DEADLOCK FALSE
