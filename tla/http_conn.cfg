SPECIFICATION FairSpec
CONSTANTS
    Workers = {w1, w2}
    w1 = w1
    w2 = w2
    Requests <- MCRequests
    MaxRequests = 2
    ReadSize = 9
CHECK_DEADLOCK FALSE
INVARIANTS
    TypeOK
    OneAtATime
    AnswersInOrder
    NotForgotten
PROPERTIES
    EveryRequestAnswered
