CONSTANTS
    Replies <- BinaryReplies
    MaxRequests = 3
    SndCap = 2
    ReadCap = 2
SPECIFICATION FairSpec
INVARIANTS
    TypeOK
    BufferedIsWaitedFor
    NoLostEdge
PROPERTIES
    FinIsLast
    RequestsRead
CHECK_DEADLOCK FALSE
