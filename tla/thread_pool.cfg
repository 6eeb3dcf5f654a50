\* Two workers and three jobs: the list reaches its empty, single and long case.
CONSTANTS
    w1 = w1
    w2 = w2
    j1 = j1
    j2 = j2
    j3 = j3
    NULL = NULL
    Workers <- TwoWorkers
    Jobs <- ThreeJobs
\* The pool stops for good when destroy has returned; PoolProgresses says that it does.
CHECK_DEADLOCK FALSE
SPECIFICATION FairSpec
INVARIANTS
    TokensMatch
    WellLinked
    TakenInOrder
    FreedOnce
PROPERTIES
    PoolProgresses
