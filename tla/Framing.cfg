SPECIFICATION Spec
CONSTANTS
    Base = 4
    Packed <- SmallPacked
    MaxSent = 3
    LengthFirst = TRUE
INVARIANTS
    TypeOK
    ReceivedAsSent
PROPERTY EveryMessageReceived
\* The sender has no more to send.
CHECK_DEADLOCK FALSE
