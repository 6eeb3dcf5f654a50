\* Two connections on the base loop, or on one io loop beside it; the proofs have any
\* number. A reply may need two writes after the first, so that handleWrite meets a
\* full socket and may stay there.
CONSTANTS
    c1 = c1
    c2 = c2
    Conns <- TwoConns
    MaxThreads = 1
    MaxWrites = 2
\* Clients may do nothing for ever, and a failed assertion ends the process.
CHECK_DEADLOCK FALSE
SPECIFICATION FairSpec
INVARIANTS
    TypeOK
    TornDownCleanly
    AssertsHold
PROPERTIES
    IsLifecycle
