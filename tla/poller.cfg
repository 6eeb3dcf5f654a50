CONSTANTS
    c1 = c1
    c2 = c2
    c3 = c3
    Channels <- ThreeChannels
    EventVecSize = 3
SYMMETRY Symmetric
\* A failed assertion ends the process.
CHECK_DEADLOCK FALSE
SPECIFICATION PollerSpec
INVARIANTS
    RecordsAgree
    OwnAssertsHold
