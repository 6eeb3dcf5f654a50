------------------------------ MODULE TimerQueue ------------------------------
(***************************************************************************)
(* What a timer heap promises: it is a set of timers from which the one    *)
(* that is due first is removed, and no timer is removed twice.            *)
(* TimerHeap.tla is shown to implement this module.                        *)
(***************************************************************************)
EXTENDS Naturals

CONSTANTS
    Timers,
    expire            \* when each timer is due

VARIABLES
    queue,            \* the timers that wait
    removed           \* those that waited

vars == <<queue, removed>>

Init ==
    /\ queue \in SUBSET Timers
    /\ removed = {}

Add(timer) ==
    /\ timer \in Timers \ (queue \cup removed)
    /\ queue' = queue \cup {timer}
    /\ UNCHANGED removed

RemoveFirst(timer) ==
    /\ timer \in queue
    /\ \A other \in queue : expire[timer] <= expire[other]
    /\ queue' = queue \ {timer}
    /\ removed' = removed \cup {timer}

Next == \E timer \in Timers : Add(timer) \/ RemoveFirst(timer)

Spec == Init /\ [][Next]_vars
==============================================================================
