-------------------------- MODULE MCAuditPublisher --------------------------
(***************************************************************************)
(* Model values for the runs of AuditPublisher.                            *)
(***************************************************************************)
EXTENDS AuditPublisher, TLC

CONSTANTS w1, w2, e1, e2, e3, e4, own, system

Workers == {w1, w2}
Events == {e1, e2, e3, e4}
Events3 == {e1, e2, e3}
OneOrg == {own}
TwoOrgs == {own, system}
=============================================================================
