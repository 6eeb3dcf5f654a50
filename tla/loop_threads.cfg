\* Three threads, started and joined one after the other.
CONSTANTS
    NumThreads = 3
    QuitEarly = FALSE
\* The pool stops for good when it is destroyed; OwnerReturns says that it is.
CHECK_DEADLOCK FALSE
SPECIFICATION FairSpec
INVARIANTS
    LoopsLive
    HolderHolds
    WaitEnds
PROPERTIES
    OwnerReturns
