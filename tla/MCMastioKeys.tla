---------------------------- MODULE MCMastioKeys ----------------------------
(* Instances of MastioKeys for TLC. *)
EXTENDS MastioKeys

CONSTANTS w1, w2, k1, k2, k3

OneWorker == {w1}
TwoWorkers == {w1, w2}
Kids == {k1, k2, k3}
=============================================================================
