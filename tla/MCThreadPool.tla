---------------------------- MODULE MCThreadPool ----------------------------
(* A small instance of ThreadPool for TLC. *)
EXTENDS ThreadPool

CONSTANTS w1, w2, j1, j2, j3

TwoWorkers == {w1, w2}
ThreeJobs == {j1, j2, j3}
==============================================================================
