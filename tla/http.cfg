\* Two requests of every kind, cut into messages between any two lines.
CONSTANT MaxRequests = 2
\* The client may stop sending, and the thread may be lost.
CHECK_DEADLOCK FALSE
SPECIFICATION FairHttpSpec
INVARIANTS
    HttpTypeOK
    AnsweredInFull
PROPERTIES
    EveryMessageAnswered
