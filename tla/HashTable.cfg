SPECIFICATION Spec
CONSTANTS
    NLists = 3
    MaxLost = 1
    List <- ThreeLists
    Node = {n1, n2, n3}
    Key <- Keys
    Val = {v1, v2}
    Nil = Nil
SYMMETRY Symmetry
INVARIANTS
    ListTypeOK
    WellLinked
    Sorted
    MemoryAccounted
PROPERTIES
    ImplementsMap
\* The server ends, and table_destroy() is the last call.
CHECK_DEADLOCK FALSE
