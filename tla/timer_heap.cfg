\* The heap is made of nothing or of up to four timers, and grows once or twice.
CONSTANTS
    t1 = t1
    t2 = t2
    t3 = t3
    t4 = t4
    t5 = t5
    NULL = NULL
    Timers <- FiveTimers
    expire <- Expiries
    InitialCap = 1
    MaxInitial = 4
    MaxTime = 1
\* Nobody has to call anything, and misused memory ends the model.
CHECK_DEADLOCK FALSE
SPECIFICATION Spec
INVARIANTS
    TypeOK
    HeapIntact
    RunsWhatItDeletes
    SafeAlone
PROPERTIES
    IsTimerQueue
