---------------------------- MODULE MCTimerHeap ----------------------------
(* A small instance of TimerHeap for TLC. *)
EXTENDS TimerHeap, TLC

CONSTANTS t1, t2, t3, t4, t5

FiveTimers == {t1, t2, t3, t4, t5}

(* Timers that are due at once or later, some together, and one that never is. *)
Expiries == t1 :> 0 @@ t2 :> 1 @@ t3 :> 1 @@ t4 :> 2 @@ t5 :> 0
==============================================================================
