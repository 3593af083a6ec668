-------------------------- MODULE MCLocalSessions --------------------------
(* Instance of LocalSessions for TLC. *)
EXTENDS LocalSessions

CONSTANTS w1, w2, s1

Workers == {w1, w2}
Sessions == {s1}
=============================================================================
