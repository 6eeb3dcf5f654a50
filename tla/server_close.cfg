\* Connections on the base loop, or on one io loop beside it.
CONSTANTS
    c1 = c1
    c2 = c2
    Conns <- TwoConns
    MaxThreads = 1
    MaxWrites = 1
CHECK_DEADLOCK FALSE
SPECIFICATION Spec
INVARIANT ClosedOnlyWhenOpen
