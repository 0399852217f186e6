SPECIFICATION Spec
CONSTANTS
    Base = 256
    Packed <- PutAndDel
    MaxSent = 3
    LengthFirst = FALSE
PROPERTY EveryMessageReceived
CHECK_DEADLOCK FALSE
