----------------------------- MODULE Enrollment -----------------------------
(***************************************************************************)
(* Device-code enrollment of a Connector (enrollment/service.py and        *)
(* enrollment/router.py) with its single-use attestation nonce             *)
(* (attestation/nonce_store.py), and the grace period of a replaced key    *)
(* (auth/cert_grace.py, auth/client_cert.py, admin/agents.py,              *)
(* lifespan/agent_cert_grace_cleanup.py).                                  *)
(*                                                                         *)
(* Requests run concurrently in several workers on one Postgres database.  *)
(* A status is read by a plain SELECT, and written later, in the same      *)
(* READ COMMITTED transaction, by an UPDATE that only names the session.   *)
(* Row locks make that UPDATE wait for another writer of the row; they do  *)
(* not make it look at the status again.                                   *)
(*                                                                         *)
(* A session stands for the key pair enrolled by it; keys that an admin    *)
(* registers without a session (admin/enroll.py, admin/agents.py) are left *)
(* out, and so are signatures, forms, capabilities and the baseline        *)
(* binding at the Court.  DPoP keys have no state here: what their         *)
(* rotation does to the deadline they share with the certificate has.      *)
(***************************************************************************)
EXTENDS Naturals, FiniteSets

CONSTANTS
    Session,    \* enrollment sessions
    Agent,      \* agent ids an admin may assign
    Nonce,
    Request,    \* requests in progress at a time
    None

ASSUME EnrollmentConstants == None \notin Session \cup Agent \cup Nonce \cup Request

VARIABLES
    enr,         \* pending_enrollments
    agent,       \* internal_agents: the key of cert_pem and of previous_cert_pem,
                 \* and previous_grace_period_expires_at
    nonce,       \* the stores that hold each nonce: Redis, a worker's memory, both
    req,         \* the requests in progress
    contested,   \* history: sessions decided while another request was deciding
    raced,       \* history: nonces read by a request while another was using them
    doubled,     \* history: nonces that issue_nonce put into both stores
    dropped,     \* history: sessions approved for an agent whose row was deleted
    due,         \* history: agents and their keys replaced a grace period ago
    reopened     \* history: agents and their replaced keys whose deadline was moved

graceVars == <<due, reopened>>
nonceVars == <<nonce, raced, doubled>>
vars == <<enr, agent, req, contested, dropped, nonceVars, graceVars>>

Statuses == {"none", "pending", "approved", "rejected", "expired"}

NoReq == [pc |-> "idle", session |-> None, agent |-> None, nonce |-> None, prev |-> None]

NoAgent == [key |-> None, prev |-> None, deadline |-> "none"]

Init ==
    /\ enr = [s \in Session |-> [status |-> "none", agent |-> None,
                                 nonce |-> None, late |-> FALSE]]
    /\ agent = [a \in Agent |-> NoAgent]
    /\ nonce = [n \in Nonce |-> {"unissued"}]
    /\ req = [t \in Request |-> NoReq]
    /\ contested = {}
    /\ raced = {}
    /\ doubled = {}
    /\ dropped = {}
    /\ due = {}
    /\ reopened = {}

Idle(t) == req[t].pc = "idle"

Done(t) == req' = [req EXCEPT ![t] = NoReq]

-----------------------------------------------------------------------------
(* The attestation nonce. *)

\* issue_nonce: Redis, or the memory of this worker when the SET raises, which
\* it may after it has been applied: then both.
IssueNonce(n) ==
    /\ nonce[n] = {"unissued"}
    /\ \E at \in {{"redis"}, {"memory"}, {"redis", "memory"}} :
         /\ nonce' = [nonce EXCEPT ![n] = at]
         /\ doubled' = IF at = {"redis", "memory"} THEN doubled \cup {n} ELSE doubled
    /\ UNCHANGED <<enr, agent, req, contested, dropped, raced, graceVars>>

\* The TTL in one of the stores, or the worker that holds it dies.
NonceExpires(n) ==
    /\ \E at \in nonce[n] \ {"unissued"} : nonce' = [nonce EXCEPT ![n] = @ \ {at}]
    /\ UNCHANGED <<enr, agent, req, contested, dropped, raced, doubled, graceVars>>

\* Requests between the GET and the end of their transaction.
Using(n) == {t \in Request : req[t].pc \in {"delete", "insert"} /\ req[t].nonce = n}

\* consume_nonce: the GET of a nonce that is in Redis.
NonceRead(t, n) ==
    /\ Idle(t)
    /\ "redis" \in nonce[n]
    /\ req' = [req EXCEPT ![t] = [NoReq EXCEPT !.pc = "delete", !.nonce = n]]
    /\ raced' = IF Using(n) # {} THEN raced \cup {n} ELSE raced
    /\ UNCHANGED <<enr, agent, nonce, contested, dropped, doubled, graceVars>>

\* Variant: the nonce is left to its TTL.
NonceDeleted_Kept(t) ==
    /\ req[t].pc = "delete"
    /\ req' = [req EXCEPT ![t].pc = "insert"]
    /\ UNCHANGED <<enr, agent, contested, dropped, nonceVars, graceVars>>

\* consume_nonce: the DELETE.  Its result is not looked at, so every request
\* that had read the nonce goes on.
NonceDeleted(t) ==
    /\ req[t].pc = "delete"
    /\ nonce' = [nonce EXCEPT ![req[t].nonce] = @ \ {"redis"}]
    /\ req' = [req EXCEPT ![t].pc = "insert"]
    /\ UNCHANGED <<enr, agent, contested, dropped, raced, doubled, graceVars>>

\* consume_nonce: the DELETE raises, applied or not, and the memory of this
\* worker is asked; a nonce that is not there is refused.
DeleteRaises(t) ==
    /\ req[t].pc = "delete"
    /\ \E left \in {nonce[req[t].nonce], nonce[req[t].nonce] \ {"redis"}} :
         \/ /\ "memory" \in left
            /\ nonce' = [nonce EXCEPT ![req[t].nonce] = left \ {"memory"}]
            /\ req' = [req EXCEPT ![t].pc = "insert"]
         \/ /\ nonce' = [nonce EXCEPT ![req[t].nonce] = left]
            /\ Done(t)
    /\ UNCHANGED <<enr, agent, contested, dropped, raced, doubled, graceVars>>

\* consume_nonce: the GET finds nothing, or raises, and the memory of this
\* worker has the nonce.
NoncePopped(t, n) ==
    /\ Idle(t)
    /\ "memory" \in nonce[n]
    /\ nonce' = [nonce EXCEPT ![n] = @ \ {"memory"}]
    /\ req' = [req EXCEPT ![t] = [NoReq EXCEPT !.pc = "insert", !.nonce = n]]
    /\ UNCHANGED <<enr, agent, contested, dropped, raced, doubled, graceVars>>

-----------------------------------------------------------------------------
(* start_enrollment *)

\* The pending row; without a TPM quote there is no nonce.
StartInserts(t, s) ==
    /\ Idle(t) \/ req[t].pc = "insert"
    /\ enr[s].status = "none"
    /\ enr' = [enr EXCEPT ![s] = [status |-> "pending", agent |-> None,
                                  nonce |-> req[t].nonce, late |-> FALSE]]
    /\ Done(t)
    /\ UNCHANGED <<agent, contested, dropped, nonceVars, graceVars>>

\* expires_at goes by.
TtlPasses(s) ==
    /\ enr[s].status = "pending"
    /\ ~enr[s].late
    /\ enr' = [enr EXCEPT ![s].late = TRUE]
    /\ UNCHANGED <<agent, req, contested, dropped, nonceVars, graceVars>>

-----------------------------------------------------------------------------
(* Deciding *)

\* An approval that has written the pending row: the agent does not exist, or
\* exists and its old certificate is to be read, or has been read.
Writing == {"add", "old", "update"}

\* Requests that read "pending" and have yet to write.
Deciding(s) ==
    {t \in Request : req[t].session = s /\ req[t].pc \in Writing \cup {"sign", "reject", "expire"}}

\* The pending_enrollments row is locked by an approval that is not committed.
Free(s) == ~\E t \in Request : req[t].session = s /\ req[t].pc \in Writing

Decide(s, by, status, a) ==
    /\ enr' = [enr EXCEPT ![s].status = status,
                          ![s].agent = IF status = "approved" THEN a ELSE @]
    /\ contested' = IF Deciding(s) \ by # {} THEN contested \cup {s} ELSE contested

\* Variant: only the TTL is checked.
Decidable_AnyStatus(s) == enr[s].status # "none" /\ ~enr[s].late

\* get_record and the check of approve and reject: pending, TTL not lapsed.
\* (When it has lapsed, the UPDATE of get_record is rolled back by the 409.)
Decidable(s) == enr[s].status = "pending" /\ ~enr[s].late

Begin(t, s, pc, a) ==
    req' = [req EXCEPT ![t] = [NoReq EXCEPT !.pc = pc, !.session = s, !.agent = a]]

\* approve: the checks, then signing starts.
ApproveReads(t, s, a) ==
    /\ Idle(t)
    /\ Decidable(s)
    /\ Begin(t, s, "sign", a)
    /\ UNCHANGED <<enr, agent, contested, dropped, nonceVars, graceVars>>

\* approve: the UPDATE of the pending row takes its lock, and internal_agents
\* is asked for the agent.
ApproveWrites(t) ==
    /\ req[t].pc = "sign"
    /\ Free(req[t].session)
    /\ req' = [req EXCEPT ![t].pc = IF agent[req[t].agent].key = None THEN "add" ELSE "old"]
    /\ UNCHANGED <<enr, agent, contested, dropped, nonceVars, graceVars>>

\* approve of an agent that exists: its certificate is read, if it still exists.
ApproveReadsOld(t) ==
    /\ req[t].pc = "old"
    /\ req' = [req EXCEPT ![t].pc = "update", ![t].prev = agent[req[t].agent].key]
    /\ UNCHANGED <<enr, agent, contested, dropped, nonceVars, graceVars>>

\* approve: INSERT of a new agent, and the commit.
ApproveAdds(t) ==
    LET r == req[t]
    IN  /\ r.pc = "add"
        /\ agent[r.agent].key = None
        /\ agent' = [agent EXCEPT ![r.agent] = [key |-> r.session, prev |-> None,
                                                deadline |-> "none"]]
        /\ Decide(r.session, {t}, "approved", r.agent)
        /\ due' = due \ {<<r.agent, r.session>>}
        /\ reopened' = reopened \ {<<r.agent, r.session>>}
        /\ Done(t)
        /\ UNCHANGED <<dropped, nonceVars>>

\* The INSERT meets an agent registered meanwhile: the approval is undone.
ApproveConflicts(t) ==
    /\ req[t].pc = "add"
    /\ agent[req[t].agent].key # None
    /\ Done(t)
    /\ UNCHANGED <<enr, agent, contested, dropped, nonceVars, graceVars>>

\* Variant: a key that is already in its grace period is kept.
Replaced_KeepsOlder(a, k, prev) ==
    [key |-> k, prev |-> IF agent[a].prev = None THEN prev ELSE agent[a].prev,
     deadline |-> "open"]

\* The row of an agent whose old key, read before, enters its grace period.
Replaced(a, k, prev) == [key |-> k, prev |-> prev, deadline |-> "open"]

\* approve: UPDATE of the agent, and the commit.  An UPDATE that finds no row
\* fails nothing: the session is approved, and no agent has its key.
ApproveUpdates(t) ==
    LET r == req[t]
        found == agent[r.agent].key # None
    IN  /\ r.pc = "update"
        /\ agent' = IF found THEN [agent EXCEPT ![r.agent] = Replaced(r.agent, r.session, r.prev)]
                    ELSE agent
        /\ dropped' = IF found THEN dropped ELSE dropped \cup {r.session}
        /\ Decide(r.session, {t}, "approved", r.agent)
        /\ due' = due \ ({r.agent} \X {r.session, r.prev})
        /\ reopened' = reopened \ ({r.agent} \X {r.session, r.prev})
        /\ Done(t)
        /\ UNCHANGED nonceVars

\* The dashboard deletes an agent, or the quarantine's expiry does.
DeleteAgent(a) ==
    /\ agent[a].key # None
    /\ agent' = [agent EXCEPT ![a] = NoAgent]
    /\ dropped' = dropped \cup {s \in Session : enr[s].status = "approved" /\ enr[s].agent = a}
    /\ UNCHANGED <<enr, req, contested, nonceVars, graceVars>>

\* reject: the checks.
RejectReads(t, s) ==
    /\ Idle(t)
    /\ Decidable(s)
    /\ Begin(t, s, "reject", None)
    /\ UNCHANGED <<enr, agent, contested, dropped, nonceVars, graceVars>>

\* Variant: the status is misspelt.
RejectWrites_Denied(t) ==
    /\ req[t].pc = "reject"
    /\ Free(req[t].session)
    /\ Decide(req[t].session, {t}, "denied", None)
    /\ Done(t)
    /\ UNCHANGED <<agent, dropped, nonceVars, graceVars>>

\* reject: the UPDATE, whatever the status is now.
RejectWrites(t) ==
    /\ req[t].pc = "reject"
    /\ Free(req[t].session)
    /\ Decide(req[t].session, {t}, "rejected", None)
    /\ Done(t)
    /\ UNCHANGED <<agent, dropped, nonceVars, graceVars>>

\* enrollment_status: get_record finds a pending row past its TTL.
PollReads(t, s) ==
    /\ Idle(t)
    /\ enr[s].status = "pending" /\ enr[s].late
    /\ Begin(t, s, "expire", None)
    /\ UNCHANGED <<enr, agent, contested, dropped, nonceVars, graceVars>>

\* get_record: the UPDATE, whatever the status is now.
PollExpires(t) ==
    /\ req[t].pc = "expire"
    /\ Free(req[t].session)
    /\ Decide(req[t].session, {t}, "expired", None)
    /\ Done(t)
    /\ UNCHANGED <<agent, dropped, nonceVars, graceVars>>

\* list_pending: one UPDATE that matches only pending rows.
ListExpires(s) ==
    /\ enr[s].status = "pending" /\ enr[s].late
    /\ Free(s)
    /\ Decide(s, {}, "expired", None)
    /\ UNCHANGED <<agent, req, dropped, nonceVars, graceVars>>

\* A request fails (a bad quote, a signing error, the database) or its worker
\* dies; its transaction is rolled back, a consumed nonce stays consumed.
Abort(t) ==
    /\ ~Idle(t)
    /\ Done(t)
    /\ UNCHANGED <<enr, agent, contested, dropped, nonceVars, graceVars>>

-----------------------------------------------------------------------------
(* The grace period of a replaced key. *)

\* get_agent_from_client_cert: the current key, and the replaced one until
\* the deadline.
Accepted(a) ==
    ({agent[a].key} \cup (IF agent[a].deadline = "open" THEN {agent[a].prev} ELSE {})) \ {None}

\* agent_cert_grace_period_hours are longer than a transaction.
NoneCommitting == \A t \in Request : req[t].pc \notin Writing

\* The deadline of the row goes by.
DeadlinePasses(a) ==
    /\ NoneCommitting
    /\ agent[a].deadline = "open"
    /\ agent' = [agent EXCEPT ![a].deadline = "passed"]
    /\ due' = due \cup ({a} \X ({agent[a].prev} \ {None}))
    /\ UNCHANGED <<enr, req, contested, dropped, nonceVars, reopened>>

\* A grace period has gone by since a key was replaced, and the deadline of
\* its row is a later one.
KeyIsDue(a) ==
    /\ NoneCommitting
    /\ <<a, agent[a].prev>> \in reopened \ due
    /\ due' = due \cup {<<a, agent[a].prev>>}
    /\ UNCHANGED <<enr, agent, req, contested, dropped, nonceVars, reopened>>

\* register_agent_dpop_jwk with another key: the old DPoP key gets a grace
\* period, and with it whatever certificate is in previous_cert_pem.
RotateDpopKey(a) ==
    /\ agent[a].key # None
    /\ agent' = [agent EXCEPT ![a].deadline = "open"]
    /\ reopened' = reopened \cup ({a} \X ({agent[a].prev} \ {None}))
    /\ UNCHANGED <<enr, req, contested, dropped, nonceVars, due>>

\* _sweep_once of agent_cert_grace_cleanup: one UPDATE for all agents.
GraceCleanup ==
    /\ \E a \in Agent : agent[a].deadline = "passed"
    /\ agent' = [a \in Agent |->
                   IF agent[a].deadline = "passed"
                   THEN [agent[a] EXCEPT !.prev = None, !.deadline = "none"] ELSE agent[a]]
    /\ UNCHANGED <<enr, req, contested, dropped, nonceVars, graceVars>>

-----------------------------------------------------------------------------
\* The step of a request that has begun.
Proceeds(t) ==
    \/ NonceDeleted(t) \/ DeleteRaises(t)
    \/ ApproveWrites(t) \/ ApproveReadsOld(t) \/ ApproveAdds(t) \/ ApproveConflicts(t)
    \/ ApproveUpdates(t) \/ RejectWrites(t) \/ PollExpires(t) \/ Abort(t)

Next ==
    \/ \E n \in Nonce : IssueNonce(n) \/ NonceExpires(n)
    \/ \E t \in Request, n \in Nonce : NonceRead(t, n) \/ NoncePopped(t, n)
    \/ \E t \in Request, s \in Session :
          StartInserts(t, s) \/ RejectReads(t, s) \/ PollReads(t, s)
    \/ \E t \in Request, s \in Session, a \in Agent : ApproveReads(t, s, a)
    \/ \E t \in Request : Proceeds(t)
    \/ \E s \in Session : TtlPasses(s) \/ ListExpires(s)
    \/ \E a \in Agent : DeleteAgent(a) \/ DeadlinePasses(a) \/ KeyIsDue(a) \/ RotateDpopKey(a)
    \/ GraceCleanup

Spec == Init /\ [][Next]_vars

-----------------------------------------------------------------------------
\* The rows of pending_enrollments and internal_agents, and a request.
EnrollmentRow ==
    [status : Statuses, agent : Agent \cup {None}, nonce : Nonce \cup {None}, late : BOOLEAN]

AgentRow ==
    [key : Session \cup {None}, prev : Session \cup {None},
     deadline : {"none", "open", "passed"}]

RequestState ==
    [pc : Writing \cup {"idle", "delete", "insert", "sign", "reject", "expire"},
     session : Session \cup {None}, agent : Agent \cup {None},
     nonce : Nonce \cup {None}, prev : Session \cup {None}]

\* Types of the state.
TypeOK ==
    /\ enr \in [Session -> EnrollmentRow]
    /\ agent \in [Agent -> AgentRow]
    /\ nonce \in [Nonce -> SUBSET {"unissued", "redis", "memory"}]
    /\ req \in [Request -> RequestState]
    /\ contested \subseteq Session
    /\ raced \subseteq Nonce /\ doubled \subseteq Nonce /\ dropped \subseteq Session
    /\ due \subseteq Agent \X Session /\ reopened \subseteq Agent \X Session

\* The enrollment table and the agent registry tell the same story: a key an
\* agent is registered with, or may still use in its grace period, belongs to
\* a session approved for that agent, and an approved session's agent exists.
\* The exceptions are sessions two requests were deciding at the same time, for
\* which the later UPDATE wins in one table only (service.py:512, 962, 129), and
\* for the second half sessions whose agent was deleted: after the approval, or
\* between its SELECT and an UPDATE that then touches no row (service.py:652,
\* 679; agents_routes.py:808).
RegisteredIsApproved ==
    /\ \A a \in Agent : \A s \in {agent[a].key, agent[a].prev} \ ({None} \cup contested) :
          enr[s].status = "approved" /\ enr[s].agent = a
    /\ \A s \in Session \ (contested \cup dropped) :
          enr[s].status = "approved" => agent[enr[s].agent].key # None

\* One nonce attests one enrollment, whatever Redis command fails, unless a
\* second request read it before the first had deleted it (nonce_store.py:126),
\* or a SET that was applied and raised left it in Redis and in memory: then it
\* is accepted once from each (nonce_store.py:96, 107, 124, 139).
NonceOnce ==
    \A n \in Nonce \ (raced \cup doubled) :
        Cardinality({s \in Session : enr[s].nonce = n} \cup Using(n)) <= 1

\* A replaced key is accepted for one grace period, and never again after it,
\* whatever is enrolled, rotated and cleaned up in which order.  The exception
\* is a rotation of the agent's DPoP key: it moves the deadline that both
\* kinds of key share, even one that has passed (admin/agents.py:639).
GraceBounded ==
    \A a \in Agent : \A k \in Accepted(a) \ {agent[a].key} :
        <<a, k>> \in due => <<a, k>> \in reopened
=============================================================================
