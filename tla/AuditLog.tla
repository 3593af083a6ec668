------------------------------ MODULE AuditLog ------------------------------
(***************************************************************************)
(* What the audit chain promises its readers, without locks, hashes or     *)
(* retries: the log is a sequence of rows that only grows at its end, a    *)
(* batch at a time, and no row is ever written twice.                      *)
(***************************************************************************)
EXTENDS Naturals, Sequences

CONSTANT Row

VARIABLE log

\* No row occurs at two places of the log.
Once(s) == \A i, j \in DOMAIN s : s[i] = s[j] => i = j

Init == log = <<>>

\* A batch of new rows lands behind the rows that are already there.
AppendBatch ==
    /\ log' \in Seq(Row)
    /\ Len(log') > Len(log)
    /\ SubSeq(log', 1, Len(log)) = log
    /\ Once(log')

Spec == Init /\ [][AppendBatch]_log
=============================================================================
