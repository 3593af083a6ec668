--------------------------- MODULE MCLocalQueue ---------------------------
(* Instance of LocalQueue for TLC. *)
EXTENDS LocalQueue

CONSTANTS w1, w2, c1, c2, k1

Workers == {w1, w2}
Calls == {c1, c2}
Keys == {k1}
=============================================================================
