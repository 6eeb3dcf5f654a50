\* Two foreign threads and three functors. sizeof(int) is 4 on every build target of
\* the repository; with 8 the eventfd takes what wakeup() writes.
CONSTANTS
    t1 = t1
    t2 = t2
    f1 = f1
    f2 = f2
    f3 = f3
    Threads <- TwoThreads
    Functors <- ThreeFunctors
    IntSizes = {4, 8}
SPECIFICATION FairSpec
INVARIANTS
    OnceInOrder
    WakeupCalled
    WakesIfAccepted
PROPERTIES
    QuitStops
    IsExecutor
