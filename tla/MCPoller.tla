------------------------------ MODULE MCPoller ------------------------------
(* Small instances of Poller for TLC. *)
EXTENDS Poller, TLC

CONSTANTS c1, c2, c3

ThreeChannels == {c1, c2, c3}

(* Sound: no property names a Channel. *)
Symmetric == Permutations(ThreeChannels)
==============================================================================
