---------------------------- MODULE MCAuditChain ----------------------------
(***************************************************************************)
(* Model values for the runs of AuditChain.                                *)
(***************************************************************************)
EXTENDS AuditChain, TLC

CONSTANTS w1, w2, r1, r2, r3, r4

Workers == {w1, w2}
Rows3 == {r1, r2, r3}
Rows4 == {r1, r2, r3, r4}

\* Workers and rows are interchangeable; used by runs without liveness.
Interchangeable == Permutations(Worker) \cup Permutations(Row)
=============================================================================
