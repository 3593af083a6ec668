---------------------------- MODULE MCEnrollment ----------------------------
(* Instance of Enrollment for TLC.  Only invariants are checked, so requests,
   sessions and agents may be exchanged for one another. *)
EXTENDS Enrollment, TLC

CONSTANTS s1, s2, a1, a2, n1, t1, t2

Sessions == {s1, s2}
Agents == {a1, a2}
Nonces == {n1}
Requests == {t1, t2}

Symmetry == Permutations(Requests) \cup Permutations(Sessions) \cup Permutations(Agents)
=============================================================================
