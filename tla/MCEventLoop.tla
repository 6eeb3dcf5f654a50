----------------------------- MODULE MCEventLoop -----------------------------
(* Small instances of EventLoop for TLC. *)
EXTENDS EventLoop

CONSTANTS t1, t2, f1, f2, f3

TwoThreads == {t1, t2}
OneThread == {t1}
ThreeFunctors == {f1, f2, f3}
TwoFunctors == {f1, f2}
==============================================================================
