SPECIFICATION FairSpec
CONSTANTS
    Threads = {t1, t2}
    t1 = t1
    t2 = t2
    MaxCalls = 4
    NULL = NULL
CHECK_DEADLOCK FALSE
INVARIANTS
    LogIsKept
PROPERTIES
    CallsReturn
