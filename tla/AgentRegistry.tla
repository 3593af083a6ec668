--------------------------- MODULE AgentRegistry ---------------------------
(***************************************************************************)
(* One row of internal_agents, the operations that change it, and the two  *)
(* loops that work on it: the publisher that tells the Court about it      *)
(* (federation/publisher.py) and the anomaly quarantine                    *)
(* (observability/quarantine.py).                                          *)
(*                                                                         *)
(* The number of the row and its revision stand for the columns that       *)
(* change together with federation_revision.  Two columns are kept apart,  *)
(* because there are writers that leave the revision alone: is_active, by  *)
(* quarantine and reactivation, and cert_pem, by the migration that        *)
(* re-signs the leaves; cert counts its re-signings of this row.           *)
(*                                                                         *)
(* The Court is external: it stores the last body it accepted.  A body     *)
(* carries no revision, so a request that timed out and is served late     *)
(* overwrites a newer one.  One worker runs the publisher.                 *)
(***************************************************************************)
EXTENDS Naturals, Sequences, FiniteSetsExt

CONSTANTS
    MaxChanges,    \* bound: admin operations on the row
    MaxEvents,     \* bound: decisions of the anomaly detector
    MaxFaults      \* bound: publish requests that time out, and restarts

ASSUME RegistryBounds == {MaxChanges, MaxEvents, MaxFaults} \subseteq Nat

VARIABLES
    row,       \* the row, or NoRow
    born,      \* number of rows this agent id has had
    court,     \* the body the Court holds, or NoBody
    pub,       \* the publisher's tick: where it is, and the row it read
    late,      \* bodies of requests that timed out and may still be served
    mode,      \* anomaly_quarantine_mode
    events,    \* agent_quarantine_events of the agent, oldest first
    hook,      \* TRUE: the apply hook has written its event and not yet the row
    react,     \* the event a reactivation has read, 0 for none
    expiry,    \* the events the expiry pass has selected and not yet handled
    changes, faults,
    excused    \* history: why the Court may differ from a row marked as pushed

rowVars == <<row, born, changes>>
pubVars == <<court, pub, late>>
quarVars == <<events, hook, react, expiry>>
vars == <<rowVars, pubVars, quarVars, mode, faults, excused>>

NoRow == [born |-> 0]
NoBody == [born |-> 0]

Exists == row # NoRow

Modes == {"off", "shadow", "enforce"}

\* Columns the Court is told of have changed, and the revision has not.
Unannounced == {"silent", "resigned"}

Excuses == {"refused", "late", "reborn"} \cup Unannounced

\* Count one fault.
Fault == faults < MaxFaults /\ faults' = faults + 1

Init ==
    /\ row = NoRow
    /\ born = 0
    /\ court = NoBody
    /\ pub = [at |-> "idle"]
    /\ late = {}
    /\ mode \in Modes
    /\ events = <<>>
    /\ hook = FALSE
    /\ react = 0
    /\ expiry = {}
    /\ changes = 0
    /\ faults = 0
    /\ excused = {}

-----------------------------------------------------------------------------
(* Operations of the admin API, the dashboard, enrollment and MDM. *)

\* Count one admin operation.
Change ==
    /\ changes < MaxChanges
    /\ changes' = changes + 1
    /\ UNCHANGED <<pubVars, quarVars, mode, faults>>

\* INSERT INTO internal_agents.  The admin API and the enroll endpoints take
\* federated from the request; the Connector and db.create_agent insert FALSE,
\* the latter with the column default 0 as revision.
Create ==
    /\ Change
    /\ ~Exists
    /\ born' = born + 1
    /\ \E new \in {<<TRUE, 1>>, <<FALSE, 1>>, <<FALSE, 0>>} :
         row' = [born |-> born', active |-> TRUE, revoked |-> FALSE, federated |-> new[1],
                 federatedAt |-> FALSE, revision |-> new[2], pushed |-> 0, cert |-> 0]
    /\ excused' = (excused \ Unannounced) \cup (IF pub.at = "idle" THEN {} ELSE {"reborn"})

\* An UPDATE that sets columns and adds 1 to federation_revision.
Bump(new) ==
    /\ Change
    /\ Exists
    /\ row' = [new EXCEPT !.revision = @ + 1]
    /\ excused' = excused \ Unannounced
    /\ UNCHANGED born

\* patch_federated, agent_set_reach.
SetFederated(f) == Bump([row EXCEPT !.federated = f])

\* patch_capabilities, agent_set_capabilities.
SetCapabilities == Bump(row)

\* Variant: the flag is flipped and the revision stays.
Deactivate_NoBump ==
    /\ Change
    /\ Exists
    /\ row.active
    /\ row' = [row EXCEPT !.active = FALSE]
    /\ UNCHANGED <<born, excused>>

\* deactivate_agent_endpoint, db.deactivate_agent.
Deactivate ==
    /\ Exists
    /\ row.active
    /\ Bump([row EXCEPT !.active = FALSE])

\* revoke_agent_cert.  revoked_at is never cleared.
Revoke ==
    /\ Exists
    /\ ~row.revoked
    /\ Bump([row EXCEPT !.active = FALSE, !.revoked = TRUE])

\* approve, on an agent id that has a row: a new certificate, active again.
Reenroll ==
    /\ Exists
    /\ Bump([row EXCEPT !.active = TRUE])

\* agent_delete: the row goes, and nobody tells the Court.
Delete ==
    /\ Change
    /\ Exists
    /\ row' = NoRow
    /\ UNCHANGED <<born, excused>>

\* The migration org_ca_pathlen_1 and its rollback: the leaf is signed again by
\* another Org CA, and the revision stays (_update_internal_agent_cert).
ResignCert ==
    /\ Change
    /\ Exists
    /\ row' = [row EXCEPT !.cert = @ + 1]
    /\ excused' = excused \cup {"resigned"}
    /\ UNCHANGED born

-----------------------------------------------------------------------------
(* The publisher: _tick. *)

Pending == Exists /\ (row.federated \/ row.federatedAt) /\ row.revision > row.pushed

\* _build_body: an agent that is no longer federated is revoked only if it is
\* not active.
Body == [born |-> row.born, revision |-> row.revision, cert |-> row.cert,
         revoked |-> ~row.active]

\* _fetch_pending.
Fetch ==
    /\ pub.at = "idle"
    /\ Pending
    /\ pub' = [at |-> "post", body |-> Body]
    /\ UNCHANGED <<rowVars, court, late, quarVars, mode, faults, excused>>

\* The Court accepts the body and answers 2xx.
PostAccepted ==
    /\ pub.at = "post"
    /\ court' = pub.body
    /\ pub' = [at |-> "mark", body |-> pub.body, ok |-> TRUE]
    /\ excused' = excused \ {"late"}
    /\ UNCHANGED <<rowVars, late, quarVars, mode, faults>>

\* 4xx: the Court refuses, and the row is marked as pushed all the same.
PostRefused ==
    /\ pub.at = "post"
    /\ pub' = [at |-> "mark", body |-> pub.body, ok |-> FALSE]
    /\ UNCHANGED <<rowVars, court, late, quarVars, mode, faults, excused>>

\* 5xx, or no connection: the next tick tries again.
PostFails ==
    /\ pub.at = "post"
    /\ pub' = [at |-> "idle"]
    /\ UNCHANGED <<rowVars, court, late, quarVars, mode, faults, excused>>

\* The request times out: nobody knows whether the Court will serve it.
PostTimesOut ==
    /\ pub.at = "post"
    /\ Fault
    /\ late' = late \cup {pub.body}
    /\ pub' = [at |-> "idle"]
    /\ UNCHANGED <<rowVars, court, quarVars, mode, excused>>

\* The Court serves a request the publisher has given up.
LateServed ==
    \E body \in late :
        /\ court' = body
        /\ late' = late \ {body}
        /\ excused' = excused \cup {"late"}
        /\ UNCHANGED <<rowVars, pub, quarVars, mode, faults>>

\* Variant: the row is marked with the revision it has now.
Mark_Current ==
    /\ pub.at = "mark"
    /\ IF Exists
       THEN /\ row' = [row EXCEPT !.pushed = row.revision, !.federatedAt = TRUE]
            /\ excused' = (excused \ {"refused"}) \cup (IF pub.ok THEN {} ELSE {"refused"})
       ELSE UNCHANGED <<row, excused>>
    /\ pub' = [at |-> "idle"]
    /\ UNCHANGED <<born, changes, court, late, quarVars, mode, faults>>

\* Variant: the row is marked with the revision after the one that was read.
Mark_Next ==
    /\ pub.at = "mark"
    /\ IF Exists
       THEN /\ row' = [row EXCEPT !.pushed = pub.body.revision + 1, !.federatedAt = TRUE]
            /\ excused' = (excused \ {"refused"}) \cup (IF pub.ok THEN {} ELSE {"refused"})
       ELSE UNCHANGED <<row, excused>>
    /\ pub' = [at |-> "idle"]
    /\ UNCHANGED <<born, changes, court, late, quarVars, mode, faults>>

\* _mark_pushed: with the revision that was read, on whatever row has the id.
Mark ==
    /\ pub.at = "mark"
    /\ IF Exists
       THEN /\ row' = [row EXCEPT !.pushed = pub.body.revision, !.federatedAt = TRUE]
            /\ excused' = (excused \ {"refused"}) \cup (IF pub.ok THEN {} ELSE {"refused"})
       ELSE UNCHANGED <<row, excused>>
    /\ pub' = [at |-> "idle"]
    /\ UNCHANGED <<born, changes, court, late, quarVars, mode, faults>>

-----------------------------------------------------------------------------
(* Quarantine. *)

\* is_active changes and the revision does not.
Flip(active) ==
    /\ row' = [row EXCEPT !.active = active]
    /\ excused' = excused \cup (IF row.active = active THEN {} ELSE {"silent"})

\* _hook, first transaction: the event.  A shadow event never expires.  In mode
\* off the lifespan starts neither the hook nor the expiry pass.
HookInserts ==
    /\ mode # "off"
    /\ ~hook
    /\ Len(events) < MaxEvents
    /\ events' = Append(events, [mode |-> mode, open |-> TRUE, expired |-> FALSE])
    /\ hook' = (mode = "enforce")
    /\ UNCHANGED <<rowVars, pubVars, react, expiry, mode, faults, excused>>

\* _deactivate_agent, in a transaction of its own.
HookDeactivates ==
    /\ hook
    /\ hook' = FALSE
    /\ IF Exists THEN Flip(FALSE) ELSE UNCHANGED <<row, excused>>
    /\ UNCHANGED <<born, changes, pubVars, events, react, expiry, mode, faults>>

\* _deactivate_agent raises: the event stays, the agent stays active.
HookFails ==
    /\ hook
    /\ hook' = FALSE
    /\ UNCHANGED <<rowVars, pubVars, events, react, expiry, mode, faults, excused>>

OpenEvents == {i \in DOMAIN events : events[i].open}

Resolved(i) == [events EXCEPT ![i].open = FALSE]

\* reactivate_agent, first transaction: the latest open event, if it is enforce.
ReactivateReads ==
    /\ react = 0
    /\ OpenEvents # {}
    /\ events[Max(OpenEvents)].mode = "enforce"
    /\ react' = Max(OpenEvents)
    /\ UNCHANGED <<rowVars, pubVars, events, hook, expiry, mode, faults, excused>>

\* reactivate_agent, second transaction: nothing at all if the row is gone.
ReactivateWrites ==
    /\ react # 0
    /\ react' = 0
    /\ IF Exists
       THEN Flip(TRUE) /\ events' = Resolved(react)
       ELSE UNCHANGED <<row, excused, events>>
    /\ UNCHANGED <<born, changes, pubVars, hook, expiry, mode, faults>>

\* quarantine_ttl_hours pass; events expire in the order they were written.
TtlPasses ==
    \E i \in DOMAIN events :
        /\ events[i].mode = "enforce"
        /\ ~events[i].expired
        /\ \A j \in 1..(i - 1) : events[j].mode = "enforce" => events[j].expired
        /\ events' = [events EXCEPT ![i].expired = TRUE]
        /\ UNCHANGED <<rowVars, pubVars, hook, react, expiry, mode, faults, excused>>

\* run_expiry_once: the SELECT.
ExpirySelects ==
    /\ mode # "off"
    /\ expiry = {}
    /\ expiry' = {i \in OpenEvents : events[i].mode = "enforce" /\ events[i].expired}
    /\ expiry' # {}
    /\ UNCHANGED <<rowVars, pubVars, events, hook, react, mode, faults, excused>>

\* Variant: the event is only resolved when there was a row to delete.
ExpiryDeletes_RowOnly(i) ==
    /\ i \in expiry
    /\ row' = NoRow
    /\ events' = IF Exists THEN Resolved(i) ELSE events
    /\ expiry' = expiry \ {i}
    /\ UNCHANGED <<born, changes, pubVars, hook, react, mode, faults, excused>>

\* run_expiry_once, one transaction for each event: delete the row the agent id
\* has now, and resolve the event.
ExpiryDeletes(i) ==
    /\ i \in expiry
    /\ row' = NoRow
    /\ events' = Resolved(i)
    /\ expiry' = expiry \ {i}
    /\ UNCHANGED <<born, changes, pubVars, hook, react, mode, faults, excused>>

\* The worker dies and comes back, perhaps with another quarantine mode.  A
\* request it had sent may still be served.
Restart ==
    /\ Fault
    /\ pub' = [at |-> "idle"]
    /\ late' \in {late} \cup (IF pub.at = "post" THEN {late \cup {pub.body}} ELSE {})
    /\ hook' = FALSE
    /\ react' = 0
    /\ expiry' = {}
    /\ mode' \in Modes
    /\ UNCHANGED <<rowVars, court, events, excused>>

Next ==
    \/ Create
    \/ \E f \in BOOLEAN : SetFederated(f)
    \/ SetCapabilities
    \/ Deactivate
    \/ Revoke
    \/ Reenroll
    \/ Delete
    \/ ResignCert
    \/ Fetch
    \/ PostAccepted
    \/ PostRefused
    \/ PostFails
    \/ PostTimesOut
    \/ LateServed
    \/ Mark
    \/ HookInserts
    \/ HookDeactivates
    \/ HookFails
    \/ ReactivateReads
    \/ ReactivateWrites
    \/ TtlPasses
    \/ ExpirySelects
    \/ \E i \in expiry : ExpiryDeletes(i)
    \/ Restart

Spec == Init /\ [][Next]_vars

\* The publisher ticks every POLL_INTERVAL_S, the expiry pass every hour unless
\* the mode is off, time passes, and the Court does not fail for ever.
FairSpec ==
    /\ Spec
    /\ WF_vars(Fetch)
    /\ SF_vars(PostAccepted)
    /\ WF_vars(Mark)
    /\ WF_vars(TtlPasses)
    /\ WF_vars(ExpirySelects)
    /\ WF_vars(\E i \in expiry : ExpiryDeletes(i))

-----------------------------------------------------------------------------
Rows == [born : 1..born, active : BOOLEAN, revoked : BOOLEAN, federated : BOOLEAN,
         federatedAt : BOOLEAN, revision : Nat, pushed : Nat, cert : Nat]

Bodies == [born : 1..born, revision : Nat, cert : Nat, revoked : BOOLEAN]

QuarantineEvents == [mode : {"shadow", "enforce"}, open : BOOLEAN, expired : BOOLEAN]

\* Shape of the row, of the Court's copy and of both loops; and
\* last_pushed_revision never runs ahead of federation_revision, unless the row
\* was re-created under a push of the old one (_mark_pushed).
TypeOK ==
    /\ row \in {NoRow} \cup Rows
    /\ Exists => row.pushed <= row.revision \/ "reborn" \in excused
    /\ born \in 0..MaxChanges
    /\ court \in {NoBody} \cup Bodies
    /\ \/ pub = [at |-> "idle"]
       \/ pub \in [at : {"post"}, body : Bodies]
       \/ pub \in [at : {"mark"}, body : Bodies, ok : BOOLEAN]
    /\ late \subseteq Bodies
    /\ mode \in Modes
    /\ events \in Seq(QuarantineEvents)
    /\ Len(events) <= MaxEvents
    /\ hook \in BOOLEAN
    /\ react \in 0..Len(events)
    /\ expiry \subseteq DOMAIN events
    /\ changes \in 0..MaxChanges
    /\ faults \in 0..MaxFaults
    /\ excused \subseteq Excuses

\* A row marked as pushed up to its revision is what the Court holds, whatever
\* was patched, deactivated or restarted while a push was under way; except for
\* a refused push (publisher.py:169), an is_active or a cert_pem that changed
\* without the revision (quarantine.py:112, 413; the migration
\* org_ca_pathlen_1), a request served after its timeout, and a row that was
\* re-created under a push of the old one (publisher.py:196).  What the Court
\* holds of a row that is no longer federated is `revoked' only if the row is
\* inactive (_build_body); publisher.py:11-13 speaks of pushing a revocation.
CourtCurrent ==
    Exists /\ row.federatedAt /\ row.pushed = row.revision /\ excused = {}
        => court = Body

\* A federated agent that is deactivated or revoked is revoked at the Court in
\* the end, also across a re-signed certificate, if no other of those
\* exceptions occurs and it is not activated again or deleted
\* (db.deactivate_agent, revoke_agent_cert, _tick).
RevocationReachesCourt ==
    (Exists /\ row.federatedAt /\ ~row.active /\ excused \subseteq {"resigned"})
        ~> \/ ~Exists \/ row.active \/ ~(excused \subseteq {"resigned"})
           \/ court # NoBody /\ court.revoked

\* Every enforce event is resolved in the end, by an operator or by the expiry
\* pass, also when the row is gone or the pass is cut short (run_expiry_once),
\* unless the Mastio is restarted with the mode off: then nothing but an operator
\* resolves it (main.py:1251).
EnforceEventsResolve ==
    \A i \in 1..MaxEvents :
        (i \in OpenEvents /\ events[i].mode = "enforce")
            ~> (i \notin OpenEvents \/ mode = "off")

=============================================================================
