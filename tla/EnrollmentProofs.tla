-------------------------- MODULE EnrollmentProofs --------------------------
(***************************************************************************)
(* Proofs about Enrollment, for any sessions, agents, nonces and requests: *)
(* the two tables agree except for sessions decided twice at once and for  *)
(* agents deleted since; a nonce attests one enrollment unless it was read *)
(* twice before its deletion or stored twice; and only a DPoP rotation     *)
(* makes an old key outlive its grace period.                              *)
(***************************************************************************)
EXTENDS Enrollment, FiniteSetTheorems, TLAPS

-----------------------------------------------------------------------------
(***************************************************************************)
(* What a request in progress carries.                                     *)
(***************************************************************************)

DecidingPc == Writing \cup {"sign", "reject", "expire"}

\* A request has the fields its next step reads.
FieldsOK(r) ==
    /\ r.pc = "idle" => r.nonce = None
    /\ r.pc \in {"delete", "insert"} => r.nonce \in Nonce
    /\ r.pc \in DecidingPc => r.session \in Session /\ r.nonce = None
    /\ r.pc \in Writing \cup {"sign"} => r.agent \in Agent

RequestOK == \A t \in Request : FieldsOK(req[t])

TypeInv == TypeOK /\ RequestOK

LEMMA InitTypeInv == Init => TypeInv
BY DEF Init, TypeInv, TypeOK, EnrollmentRow, AgentRow, RequestState, RequestOK,
       FieldsOK, NoReq, NoAgent, Statuses, DecidingPc, Writing

\* Single fields of the rows.
LEMMA RowUpdates ==
    /\ \A r \in EnrollmentRow : [r EXCEPT !.late = TRUE] \in EnrollmentRow
    /\ \A r \in AgentRow : [r EXCEPT !.deadline = "open"] \in AgentRow
    /\ \A r \in AgentRow : [r EXCEPT !.deadline = "passed"] \in AgentRow
    /\ \A r \in AgentRow : [r EXCEPT !.prev = None, !.deadline = "none"] \in AgentRow
    /\ \A r \in RequestState : [r EXCEPT !.pc = "insert"] \in RequestState
    /\ NoAgent \in AgentRow
BY DEF EnrollmentRow, AgentRow, RequestState, NoAgent

\* The nonce's state keeps its type.
LEMMA NonceStates ==
    ASSUME TypeOK, NEW n \in Nonce, NEW v \in SUBSET {"unissued", "redis", "memory"},
           nonce' = [nonce EXCEPT ![n] = v]
    PROVE  nonce' \in [Nonce -> SUBSET {"unissued", "redis", "memory"}]
BY DEF TypeOK

\* A request that is replaced by a well-formed one.
LEMMA RequestReplaced ==
    ASSUME TypeInv, NEW t \in Request, NEW r \in RequestState, FieldsOK(r),
           req' = [req EXCEPT ![t] = r]
    PROVE  req' \in [Request -> RequestState] /\ RequestOK'
BY DEF TypeInv, TypeOK, RequestOK

\* A request that ends.
LEMMA RequestDone ==
    ASSUME TypeInv, NEW t \in Request, Done(t)
    PROVE  req' \in [Request -> RequestState] /\ RequestOK'
<1>1. NoReq \in RequestState /\ FieldsOK(NoReq)
  BY DEF NoReq, RequestState, FieldsOK, DecidingPc, Writing
<1> QED BY <1>1, RequestReplaced DEF Done

\* The nonce steps and the start of an enrollment keep the types.
LEMMA NonceTypeInv ==
    ASSUME TypeInv,
           \/ \E n \in Nonce : IssueNonce(n) \/ NonceExpires(n)
           \/ \E t \in Request, n \in Nonce : NonceRead(t, n) \/ NoncePopped(t, n)
           \/ \E t \in Request : NonceDeleted(t) \/ DeleteRaises(t)
           \/ \E t \in Request, s \in Session : StartInserts(t, s)
    PROVE  TypeInv'
<1> USE DEF graceVars, nonceVars
<1>1. ASSUME NEW n \in Nonce, IssueNonce(n) \/ NonceExpires(n)
      PROVE  TypeInv'
  <2>1. \E v \in SUBSET {"unissued", "redis", "memory"} : nonce' = [nonce EXCEPT ![n] = v]
    <3>1. nonce[n] \in SUBSET {"unissued", "redis", "memory"}
      BY DEF TypeInv, TypeOK
    <3> QED BY <1>1, <3>1 DEF IssueNonce, NonceExpires
  <2>2. doubled' \subseteq Nonce
    BY <1>1 DEF IssueNonce, NonceExpires, TypeInv, TypeOK
  <2>3. nonce' \in [Nonce -> SUBSET {"unissued", "redis", "memory"}]
    BY <2>1, NonceStates DEF TypeInv
  <2> QED BY <1>1, <2>2, <2>3 DEF IssueNonce, NonceExpires, TypeInv, TypeOK, RequestOK
<1>2. ASSUME NEW t \in Request, NEW n \in Nonce, NEW pc \in {"delete", "insert"},
             req' = [req EXCEPT ![t] = [NoReq EXCEPT !.pc = pc, !.nonce = n]]
      PROVE  req' \in [Request -> RequestState] /\ RequestOK'
  <2> DEFINE r == [NoReq EXCEPT !.pc = pc, !.nonce = n]
  <2>1. r \in RequestState /\ FieldsOK(r)
    BY DEF NoReq, RequestState, FieldsOK, DecidingPc, Writing
  <2> QED BY <1>2, <2>1, RequestReplaced
<1>3. ASSUME NEW t \in Request, NEW n \in Nonce, NonceRead(t, n)
      PROVE  TypeInv'
  <2>1. req' \in [Request -> RequestState] /\ RequestOK'
    BY <1>2, <1>3 DEF NonceRead
  <2> QED BY <1>3, <2>1 DEF NonceRead, TypeInv, TypeOK
<1>4. ASSUME NEW t \in Request, NEW n \in Nonce, NoncePopped(t, n)
      PROVE  TypeInv'
  <2>1. req' \in [Request -> RequestState] /\ RequestOK'
    BY <1>2, <1>4 DEF NoncePopped
  <2>2. nonce' \in [Nonce -> SUBSET {"unissued", "redis", "memory"}]
    BY <1>4, NonceStates DEF NoncePopped, TypeInv, TypeOK
  <2> QED BY <1>4, <2>1, <2>2 DEF NoncePopped, TypeInv, TypeOK
<1>5. ASSUME NEW t \in Request, NonceDeleted(t) \/ DeleteRaises(t)
      PROVE  TypeInv'
  <2> DEFINE r == [req[t] EXCEPT !.pc = "insert"]
  <2>1. req[t] \in RequestState /\ req[t].nonce \in Nonce
    BY <1>5 DEF NonceDeleted, DeleteRaises, TypeInv, TypeOK, RequestOK, FieldsOK
  <2>2. r \in RequestState /\ FieldsOK(r)
    BY <2>1 DEF RequestState, FieldsOK, DecidingPc, Writing
  <2>3. req' = [req EXCEPT ![t] = r] \/ Done(t)
    BY <1>5 DEF NonceDeleted, DeleteRaises, TypeInv, TypeOK
  <2>4. req' \in [Request -> RequestState] /\ RequestOK'
    BY <2>2, <2>3, RequestReplaced, RequestDone
  <2>5. \E v \in SUBSET {"unissued", "redis", "memory"} :
           nonce' = [nonce EXCEPT ![req[t].nonce] = v]
    <3>1. nonce[req[t].nonce] \in SUBSET {"unissued", "redis", "memory"}
      BY <2>1 DEF TypeInv, TypeOK
    <3> QED BY <1>5, <3>1 DEF NonceDeleted, DeleteRaises
  <2>6. nonce' \in [Nonce -> SUBSET {"unissued", "redis", "memory"}]
    BY <2>1, <2>5, NonceStates DEF TypeInv
  <2> QED BY <1>5, <2>4, <2>6 DEF NonceDeleted, DeleteRaises, TypeInv, TypeOK
<1>6. ASSUME NEW t \in Request, NEW s \in Session, StartInserts(t, s)
      PROVE  TypeInv'
  <2> DEFINE row == [status |-> "pending", agent |-> None, nonce |-> req[t].nonce,
                     late |-> FALSE]
  <2>1. row \in EnrollmentRow
    BY DEF EnrollmentRow, Statuses, TypeInv, TypeOK, RequestState
  <2>2. req' \in [Request -> RequestState] /\ RequestOK'
    BY <1>6, RequestDone DEF StartInserts
  <2> QED BY <1>6, <2>1, <2>2 DEF StartInserts, TypeInv, TypeOK
<1> QED BY <1>1, <1>3, <1>4, <1>5, <1>6

\* The steps that read before they decide keep the types.
LEMMA ReadTypeInv ==
    ASSUME TypeInv,
           \/ \E t \in Request, s \in Session : RejectReads(t, s) \/ PollReads(t, s)
           \/ \E t \in Request, s \in Session, a \in Agent : ApproveReads(t, s, a)
           \/ \E t \in Request : ApproveWrites(t) \/ ApproveReadsOld(t)
    PROVE  TypeInv'
<1> USE DEF graceVars, nonceVars
<1>1. ASSUME NEW t \in Request, NEW s \in Session, NEW a \in Agent \cup {None},
             NEW pc \in {"sign", "reject", "expire"}, a = None => pc # "sign",
             Begin(t, s, pc, a),
             UNCHANGED <<enr, agent, contested, dropped, nonceVars, graceVars>>
      PROVE  TypeInv'
  <2> DEFINE r == [NoReq EXCEPT !.pc = pc, !.session = s, !.agent = a]
  <2>1. r \in RequestState /\ FieldsOK(r)
    BY <1>1 DEF NoReq, RequestState, FieldsOK, DecidingPc, Writing
  <2>2. req' \in [Request -> RequestState] /\ RequestOK'
    BY <1>1, <2>1, RequestReplaced DEF Begin
  <2> QED BY <1>1, <2>2 DEF TypeInv, TypeOK
<1>2. ASSUME NEW t \in Request, NEW s \in Session, RejectReads(t, s) \/ PollReads(t, s)
      PROVE  TypeInv'
  BY <1>1, <1>2 DEF RejectReads, PollReads
<1>3. ASSUME NEW t \in Request, NEW s \in Session, NEW a \in Agent, ApproveReads(t, s, a)
      PROVE  TypeInv'
  BY <1>1, <1>3, EnrollmentConstants DEF ApproveReads
<1>4. ASSUME NEW t \in Request, ApproveWrites(t) \/ ApproveReadsOld(t)
      PROVE  TypeInv'
  <2>1. /\ req[t] \in RequestState /\ FieldsOK(req[t])
        /\ req[t].agent \in Agent /\ req[t].session \in Session
        /\ req[t].pc \in {"sign", "old"}
    BY <1>4 DEF ApproveWrites, ApproveReadsOld, TypeInv, TypeOK, RequestOK, FieldsOK,
                DecidingPc, Writing
  <2>2. agent[req[t].agent].key \in Session \cup {None}
    BY <2>1 DEF TypeInv, TypeOK, AgentRow
  <2>3. ASSUME NEW pc \in Writing, NEW p \in Session \cup {None}
        PROVE  LET r == [req[t] EXCEPT !.pc = pc, !.prev = p]
               IN  r \in RequestState /\ FieldsOK(r)
    BY <2>1, <2>3 DEF RequestState, FieldsOK, DecidingPc, Writing
  <2>4. \E pc \in Writing, p \in Session \cup {None} :
           req' = [req EXCEPT ![t] = [req[t] EXCEPT !.pc = pc, !.prev = p]]
    <3>1. CASE ApproveWrites(t)
      <4> DEFINE pc == IF agent[req[t].agent].key = None THEN "add" ELSE "old"
      <4>1. [req[t] EXCEPT !.pc = pc] = [req[t] EXCEPT !.pc = pc, !.prev = req[t].prev]
        BY <2>1 DEF RequestState
      <4>2. req' = [req EXCEPT ![t] = [req[t] EXCEPT !.pc = pc]]
        BY <3>1 DEF ApproveWrites, TypeInv, TypeOK
      <4>3. pc \in Writing /\ req[t].prev \in Session \cup {None}
        BY <2>1 DEF Writing, RequestState
      <4> QED BY <4>1, <4>2, <4>3
    <3>2. CASE ApproveReadsOld(t)
      <4>1. req' = [req EXCEPT ![t] = [req[t] EXCEPT !.pc = "update",
                                                     !.prev = agent[req[t].agent].key]]
        BY <3>2 DEF ApproveReadsOld, TypeInv, TypeOK
      <4> QED BY <2>2, <4>1 DEF Writing
    <3> QED BY <1>4, <3>1, <3>2
  <2>5. req' \in [Request -> RequestState] /\ RequestOK'
    BY <2>3, <2>4, RequestReplaced
  <2> QED BY <1>4, <2>5 DEF ApproveWrites, ApproveReadsOld, TypeInv, TypeOK
<1> QED BY <1>2, <1>3, <1>4

\* A decision that stores a status of the enumeration keeps the table's types.
LEMMA DecideType ==
    ASSUME TypeOK, NEW s \in Session, NEW by, NEW status \in Statuses,
           NEW a \in Agent \cup {None}, Decide(s, by, status, a)
    PROVE  /\ enr' \in [Session -> EnrollmentRow]
           /\ contested' \subseteq Session
           /\ contested \subseteq contested'
           /\ enr'[s].status = status
           /\ enr'[s].agent = IF status = "approved" THEN a ELSE enr[s].agent
           /\ \A u \in Session : u # s => enr'[u] = enr[u]
           /\ \A u \in Session : enr'[u].nonce = enr[u].nonce
<1> DEFINE row == [enr[s] EXCEPT !.status = status,
                                 !.agent = IF status = "approved" THEN a ELSE @]
<1>1. enr' = [enr EXCEPT ![s] = row]
  BY DEF TypeOK, Decide
<1>2. /\ row \in EnrollmentRow
      /\ row.status = status
      /\ row.agent = IF status = "approved" THEN a ELSE enr[s].agent
      /\ row.nonce = enr[s].nonce
  <2>1. enr[s] \in EnrollmentRow
    BY DEF TypeOK
  <2>2. CASE status = "approved"
    BY <2>1, <2>2 DEF EnrollmentRow
  <2>3. CASE status # "approved"
    BY <2>1, <2>3 DEF EnrollmentRow
  <2> QED BY <2>2, <2>3
<1>3. contested' \subseteq Session /\ contested \subseteq contested'
  BY DEF TypeOK, Decide
<1> HIDE DEF row
<1> QED BY <1>1, <1>2, <1>3 DEF TypeOK

\* The steps that decide, fail or let time pass keep the types.
LEMMA DecideTypeInv ==
    ASSUME TypeInv,
           \/ \E t \in Request : \/ ApproveAdds(t) \/ ApproveUpdates(t) \/ ApproveConflicts(t)
                                 \/ RejectWrites(t) \/ PollExpires(t) \/ Abort(t)
           \/ \E s \in Session : TtlPasses(s) \/ ListExpires(s)
    PROVE  TypeInv'
<1> USE DEF graceVars, nonceVars
<1>1. ASSUME NEW t \in Request, ApproveAdds(t) \/ ApproveUpdates(t)
      PROVE  TypeInv'
  <2>1. /\ req[t].session \in Session /\ req[t].agent \in Agent
        /\ req[t].prev \in Session \cup {None}
        /\ Decide(req[t].session, {t}, "approved", req[t].agent)
    BY <1>1 DEF ApproveAdds, ApproveUpdates, TypeInv, TypeOK, RequestOK, FieldsOK,
                DecidingPc, Writing, RequestState
  <2>2. /\ enr' \in [Session -> EnrollmentRow]
        /\ contested' \subseteq Session
    BY <2>1, DecideType, "approved" \in Statuses DEF Statuses, TypeInv
  <2>3. req' \in [Request -> RequestState] /\ RequestOK'
    BY <1>1, RequestDone DEF ApproveAdds, ApproveUpdates
  <2>4. /\ Replaced(req[t].agent, req[t].session, req[t].prev) \in AgentRow
        /\ [key |-> req[t].session, prev |-> None, deadline |-> "none"] \in AgentRow
    BY <2>1 DEF Replaced, AgentRow
  <2>5. agent' \in [Agent -> AgentRow]
    BY <1>1, <2>1, <2>4 DEF ApproveAdds, ApproveUpdates, TypeInv, TypeOK
  <2>6. dropped' \subseteq Session
    BY <1>1, <2>1 DEF ApproveAdds, ApproveUpdates, TypeInv, TypeOK
  <2> QED BY <1>1, <2>2, <2>3, <2>5, <2>6 DEF ApproveAdds, ApproveUpdates, TypeInv, TypeOK
<1>2. ASSUME NEW t \in Request, ApproveConflicts(t) \/ Abort(t)
      PROVE  TypeInv'
  <2>1. req' \in [Request -> RequestState] /\ RequestOK'
    BY <1>2, RequestDone DEF ApproveConflicts, Abort
  <2> QED BY <1>2, <2>1 DEF ApproveConflicts, Abort, TypeInv, TypeOK
<1>3. ASSUME NEW t \in Request, RejectWrites(t) \/ PollExpires(t)
      PROVE  TypeInv'
  <2>1. /\ req[t].session \in Session
        /\ \/ Decide(req[t].session, {t}, "rejected", None)
           \/ Decide(req[t].session, {t}, "expired", None)
    BY <1>3 DEF RejectWrites, PollExpires, TypeInv, RequestOK, FieldsOK, DecidingPc
  <2>2. /\ enr' \in [Session -> EnrollmentRow]
        /\ contested' \subseteq Session
    BY <2>1, DecideType, {"rejected", "expired"} \subseteq Statuses DEF Statuses, TypeInv
  <2>3. req' \in [Request -> RequestState] /\ RequestOK'
    BY <1>3, RequestDone DEF RejectWrites, PollExpires
  <2> QED BY <1>3, <2>2, <2>3 DEF RejectWrites, PollExpires, TypeInv, TypeOK
<1>4. ASSUME NEW s \in Session, TtlPasses(s)
      PROVE  TypeInv'
  <2>1. enr' \in [Session -> EnrollmentRow]
    BY <1>4, RowUpdates DEF TtlPasses, TypeInv, TypeOK
  <2> QED BY <1>4, <2>1 DEF TtlPasses, TypeInv, TypeOK, RequestOK
<1>5. ASSUME NEW s \in Session, ListExpires(s)
      PROVE  TypeInv'
  <2>1. /\ enr' \in [Session -> EnrollmentRow]
        /\ contested' \subseteq Session
    BY <1>5, DecideType, "expired" \in Statuses DEF ListExpires, Statuses, TypeInv
  <2> QED BY <1>5, <2>1 DEF ListExpires, TypeInv, TypeOK, RequestOK
<1> QED BY <1>1, <1>2, <1>3, <1>4, <1>5

\* The grace steps and the deletion of an agent keep the types.
LEMMA GraceTypeInv ==
    ASSUME TypeInv,
           \/ \E a \in Agent : \/ DeleteAgent(a) \/ DeadlinePasses(a)
                               \/ KeyIsDue(a) \/ RotateDpopKey(a)
           \/ GraceCleanup
    PROVE  TypeInv'
<1> USE DEF TypeInv, TypeOK, RequestOK, graceVars, nonceVars
<1>1. ASSUME NEW a \in Agent, DeadlinePasses(a)
      PROVE  TypeInv'
  <2>1. due' \subseteq Agent \X Session
    BY <1>1 DEF DeadlinePasses, AgentRow
  <2>2. agent' \in [Agent -> AgentRow]
    BY <1>1, RowUpdates DEF DeadlinePasses
  <2> QED BY <1>1, <2>1, <2>2 DEF DeadlinePasses
<1>2. ASSUME NEW a \in Agent, KeyIsDue(a)
      PROVE  TypeInv'
  BY <1>2 DEF KeyIsDue
<1>3. ASSUME NEW a \in Agent, RotateDpopKey(a)
      PROVE  TypeInv'
  <2>1. reopened' \subseteq Agent \X Session
    BY <1>3 DEF RotateDpopKey, AgentRow
  <2> QED BY <1>3, <2>1, RowUpdates DEF RotateDpopKey
<1>4. CASE GraceCleanup
  <2>1. agent' \in [Agent -> AgentRow]
    <3>1. ASSUME NEW a \in Agent
          PROVE  agent'[a] \in AgentRow
      BY <1>4, RowUpdates DEF GraceCleanup
    <3> QED BY <1>4, <3>1 DEF GraceCleanup
  <2> QED BY <1>4, <2>1 DEF GraceCleanup
<1>5. ASSUME NEW a \in Agent, DeleteAgent(a)
      PROVE  TypeInv'
  BY <1>5, RowUpdates DEF DeleteAgent
<1> QED BY <1>1, <1>2, <1>3, <1>4, <1>5

LEMMA StepTypeInv == TypeInv /\ [Next]_vars => TypeInv'
<1> SUFFICES ASSUME TypeInv, [Next]_vars
             PROVE  TypeInv'
  OBVIOUS
<1>1. CASE UNCHANGED vars
  BY <1>1 DEF vars, graceVars, nonceVars, TypeInv, TypeOK, RequestOK
<1>2. CASE Next
  BY <1>2, NonceTypeInv, ReadTypeInv, DecideTypeInv, GraceTypeInv DEF Next, Proceeds
<1> QED BY <1>1, <1>2

(***************************************************************************)
(* Shape of the sessions, of the agents' rows and of the requests that     *)
(* approve, reject, poll and rotate, for any number of each.               *)
(***************************************************************************)
THEOREM TypeCorrect == Spec => []TypeOK
<1>1. TypeInv => TypeOK
  BY DEF TypeInv
<1> QED BY <1>1, InitTypeInv, StepTypeInv, PTL DEF Spec

-----------------------------------------------------------------------------
(***************************************************************************)
(* The grace period.  The property is inductive once it no longer depends  *)
(* on which key is current.                                                *)
(***************************************************************************)

\* An open deadline of a due key was moved.
OpenDueMoved ==
    \A a \in Agent :
        agent[a].deadline = "open" /\ agent[a].prev # None /\ <<a, agent[a].prev>> \in due
            => <<a, agent[a].prev>> \in reopened

\* Each grace step moves the deadline of one agent, or closes it.
LEMMA StepOpenDueMoved ==
    TypeInv /\ OpenDueMoved /\ [Next]_vars => OpenDueMoved'
<1> SUFFICES ASSUME TypeInv, OpenDueMoved, [Next]_vars
             PROVE  OpenDueMoved'
  OBVIOUS
<1> USE DEF graceVars, nonceVars
<1>1. CASE UNCHANGED <<agent, due, reopened>>
  BY <1>1 DEF OpenDueMoved
<1>2. ASSUME NEW t \in Request, ApproveAdds(t) \/ ApproveUpdates(t)
      PROVE  OpenDueMoved'
  <2> DEFINE r == req[t]
  <2>1. PICK gone \in SUBSET ({r.agent} \X {r.session, r.prev}) :
           /\ r.agent \in Agent
           /\ due' = due \ gone /\ reopened' = reopened \ gone
           /\ \/ agent' = agent
              \/ agent' = [agent EXCEPT ![r.agent] = Replaced(r.agent, r.session, r.prev)]
                 /\ <<r.agent, r.prev>> \in gone
              \/ agent' = [agent EXCEPT ![r.agent] = [key |-> r.session, prev |-> None,
                                                     deadline |-> "none"]]
    <3>1. r.agent \in Agent
      BY <1>2 DEF ApproveAdds, ApproveUpdates, Writing, TypeInv, RequestOK, FieldsOK
    <3>2. CASE ApproveAdds(t)
      BY <3>1, <3>2, {<<r.agent, r.session>>} \in SUBSET ({r.agent} \X {r.session, r.prev})
         DEF ApproveAdds
    <3>3. CASE ApproveUpdates(t)
      BY <3>1, <3>3 DEF ApproveUpdates
    <3> QED BY <1>2, <3>2, <3>3
  <2>2. ASSUME NEW a \in Agent, a # r.agent, <<a, agent[a].prev>> \in due',
               agent[a].deadline = "open", agent[a].prev # None
        PROVE  <<a, agent[a].prev>> \in reopened'
    BY <2>1, <2>2 DEF OpenDueMoved
  <2>3. /\ agent'[r.agent].deadline = "open" /\ agent'[r.agent].prev # None
        /\ <<r.agent, agent'[r.agent].prev>> \in due'
        => <<r.agent, agent'[r.agent].prev>> \in reopened'
    BY <2>1 DEF Replaced, OpenDueMoved, TypeInv, TypeOK
  <2>4. \A a \in Agent : a # r.agent => agent'[a] = agent[a]
    BY <2>1 DEF TypeInv, TypeOK
  <2> QED BY <2>2, <2>3, <2>4 DEF OpenDueMoved
<1>3. ASSUME NEW a \in Agent, DeadlinePasses(a)
      PROVE  OpenDueMoved'
  <2>1. /\ agent'[a].deadline = "passed"
        /\ \A b \in Agent : b # a => agent'[b] = agent[b]
        /\ due' = due \cup ({a} \X ({agent[a].prev} \ {None}))
        /\ reopened' = reopened
    BY <1>3 DEF DeadlinePasses, TypeInv, TypeOK, AgentRow
  <2> QED BY <2>1 DEF OpenDueMoved
<1>4. ASSUME NEW a \in Agent, KeyIsDue(a)
      PROVE  OpenDueMoved'
  BY <1>4 DEF KeyIsDue, OpenDueMoved
<1>5. ASSUME NEW a \in Agent, RotateDpopKey(a)
      PROVE  OpenDueMoved'
  <2>1. /\ agent'[a].prev = agent[a].prev
        /\ \A b \in Agent : b # a => agent'[b] = agent[b]
        /\ reopened' = reopened \cup ({a} \X ({agent[a].prev} \ {None}))
        /\ due' = due
    BY <1>5 DEF RotateDpopKey, TypeInv, TypeOK, AgentRow
  <2> QED BY <2>1 DEF OpenDueMoved
<1>6. CASE GraceCleanup
  <2>1. \A a \in Agent : agent'[a].deadline = "open" => agent'[a] = agent[a]
    BY <1>6 DEF GraceCleanup, TypeInv, TypeOK, AgentRow
  <2> QED BY <1>6, <2>1 DEF GraceCleanup, OpenDueMoved
<1>7. ASSUME NEW a \in Agent, DeleteAgent(a)
      PROVE  OpenDueMoved'
  BY <1>7 DEF DeleteAgent, NoAgent, OpenDueMoved, TypeInv, TypeOK
<1>8. CASE Next
  <2>1. \/ UNCHANGED <<agent, due, reopened>>
        \/ \E t \in Request : ApproveAdds(t) \/ ApproveUpdates(t)
        \/ \E a \in Agent : \/ DeleteAgent(a) \/ DeadlinePasses(a)
                            \/ KeyIsDue(a) \/ RotateDpopKey(a)
        \/ GraceCleanup
    BY <1>8 DEF Next, Proceeds, IssueNonce, NonceExpires, NonceRead, NoncePopped,
                NonceDeleted, DeleteRaises, StartInserts, RejectReads, PollReads, ApproveReads,
                ApproveWrites, ApproveReadsOld, ApproveConflicts, RejectWrites, PollExpires, Abort,
                TtlPasses, ListExpires
  <2> QED BY <2>1, <1>1, <1>2, <1>3, <1>4, <1>5, <1>6, <1>7
<1> QED BY <1>1, <1>8 DEF vars

(***************************************************************************)
(* A replaced key is accepted (is_grace_active) until the deadline it was  *)
(* given and never after, unless a DPoP rotation moved the deadline both   *)
(* kinds of key share (previous_grace_period_expires_at).                  *)
(***************************************************************************)
THEOREM GracePeriodBounded == Spec => []GraceBounded
<1>1. Init => OpenDueMoved
  BY DEF Init, OpenDueMoved
<1>2. OpenDueMoved => GraceBounded
  BY DEF OpenDueMoved, GraceBounded, Accepted
<1> QED BY <1>1, <1>2, InitTypeInv, StepTypeInv, StepOpenDueMoved, PTL DEF Spec

-----------------------------------------------------------------------------
(***************************************************************************)
(* The nonce.  That a deleted nonce has one user follows from what its     *)
(* users can be while it is still stored, which is in one place only.      *)
(***************************************************************************)

\* Request t is between the GET of n and the end of its transaction.
Uses(t, n) == req[t].pc \in {"delete", "insert"} /\ req[t].nonce = n

OnePlace ==
    \A n \in Nonce \ doubled : nonce[n] \in {{"unissued"}, {"redis"}, {"memory"}, {}}

\* A nonce nobody has read has no users.
FreshUnused ==
    \A n \in Nonce \ doubled : nonce[n] \in {{"unissued"}, {"memory"}} =>
        /\ \A t \in Request : ~Uses(t, n)
        /\ \A s \in Session : enr[s].nonce # n

\* While it is in Redis, its users have yet to delete it.
StoredUndeleted ==
    \A n \in Nonce \ doubled : nonce[n] = {"redis"} =>
        /\ \A t \in Request : Uses(t, n) => req[t].pc = "delete"
        /\ \A s \in Session : enr[s].nonce # n

\* One user: a request or a session, never both.
OneUser ==
    \A n \in Nonce \ (raced \cup doubled) :
        /\ \A t, u \in Request : Uses(t, n) /\ Uses(u, n) => t = u
        /\ \A s, u \in Session : enr[s].nonce = n /\ enr[u].nonce = n => s = u
        /\ \A t \in Request, s \in Session : ~(Uses(t, n) /\ enr[s].nonce = n)

NonceInv == OnePlace /\ FreshUnused /\ StoredUndeleted /\ OneUser

\* A step in which requests only stop using their nonce, and nonces only
\* disappear, keeps the invariant.
LEMMA QuietNonceStep ==
    ASSUME NonceInv, raced' = raced, doubled' = doubled,
           \A n \in Nonce \ doubled : nonce'[n] = nonce[n] \/ nonce'[n] = {},
           \A s \in Session : enr'[s].nonce = enr[s].nonce,
           \A t \in Request : req'[t].pc \in {"delete", "insert"} =>
                                  req'[t] = req[t] \/ req'[t].nonce \in doubled
    PROVE  NonceInv'
BY DEF NonceInv, OnePlace, FreshUnused, StoredUndeleted, OneUser, Uses

\* A nonce is read: by one request only, unless it is raced.
LEMMA ReadNonce ==
    ASSUME TypeInv, NonceInv, NEW t \in Request, NEW n \in Nonce, NonceRead(t, n)
    PROVE  NonceInv'
<1>1. /\ nonce' = nonce /\ enr' = enr /\ "redis" \in nonce[n] /\ doubled' = doubled
      /\ raced' = IF Using(n) # {} THEN raced \cup {n} ELSE raced
      /\ \A u \in Request : u # t => req'[u] = req[u]
      /\ req'[t].pc = "delete" /\ req'[t].nonce = n
  BY DEF NonceRead, TypeInv, TypeOK, NoReq, RequestState
<1>2. \A u \in Request, m \in Nonce :
        Uses(u, m)' => Uses(u, m) \/ (u = t /\ m = n)
  BY <1>1 DEF Uses
<1>6. n \in doubled \/ nonce[n] = {"redis"}
  BY <1>1 DEF NonceInv, OnePlace
<1>3. (OnePlace /\ FreshUnused /\ StoredUndeleted)'
  BY <1>1, <1>2, <1>6 DEF NonceInv, OnePlace, FreshUnused, StoredUndeleted, Uses
<1>4. n \notin raced' => \A u \in Request : ~Uses(u, n)
  BY <1>1 DEF Using, Uses
<1>5. OneUser'
  BY <1>1, <1>2, <1>4, <1>6 DEF NonceInv, OneUser, StoredUndeleted
<1> QED BY <1>3, <1>5 DEF NonceInv

\* A nonce is popped from the memory of its worker: by nobody else.
LEMMA PopNonce ==
    ASSUME TypeInv, NonceInv, NEW t \in Request, NEW n \in Nonce, NoncePopped(t, n)
    PROVE  NonceInv'
<1>1. /\ enr' = enr /\ raced' = raced /\ doubled' = doubled /\ "memory" \in nonce[n]
      /\ nonce'[n] = nonce[n] \ {"memory"} /\ \A m \in Nonce : m # n => nonce'[m] = nonce[m]
      /\ \A u \in Request : u # t => req'[u] = req[u]
      /\ req'[t].nonce = n
  BY DEF NoncePopped, TypeInv, TypeOK, NoReq, RequestState
<1>2. \A u \in Request, m \in Nonce :
        Uses(u, m)' => Uses(u, m) \/ (u = t /\ m = n)
  BY <1>1 DEF Uses
<1>5. n \in doubled \/ (nonce[n] = {"memory"} /\ nonce'[n] = {})
  BY <1>1 DEF NonceInv, OnePlace
<1>3. (OnePlace /\ FreshUnused /\ StoredUndeleted)'
  BY <1>1, <1>2, <1>5 DEF NonceInv, OnePlace, FreshUnused, StoredUndeleted, Uses
<1>4. OneUser'
  BY <1>1, <1>2, <1>5 DEF NonceInv, OneUser, FreshUnused
<1> QED BY <1>3, <1>4 DEF NonceInv

\* A nonce is deleted by a request that goes on using it.
LEMMA DeleteNonce ==
    ASSUME TypeInv, NonceInv, NEW t \in Request, NonceDeleted(t)
    PROVE  NonceInv'
<1> DEFINE n == req[t].nonce
<1>1. n \in Nonce
  BY DEF NonceDeleted, TypeInv, RequestOK, FieldsOK
<1>2. /\ enr' = enr /\ raced' = raced /\ doubled' = doubled
      /\ nonce'[n] = nonce[n] \ {"redis"} /\ \A m \in Nonce : m # n => nonce'[m] = nonce[m]
      /\ \A u \in Request : u # t => req'[u] = req[u]
      /\ req'[t].nonce = n /\ Uses(t, n)
  BY <1>1 DEF NonceDeleted, TypeInv, TypeOK, RequestState, Uses
<1>3. \A u \in Request, m \in Nonce : Uses(u, m)' => Uses(u, m)
  BY <1>2 DEF Uses
<1>6. n \in doubled \/ nonce'[n] = {}
  BY <1>1, <1>2 DEF NonceInv, OnePlace, FreshUnused
<1>4. (OnePlace /\ FreshUnused /\ StoredUndeleted)'
  BY <1>2, <1>3, <1>6 DEF NonceInv, OnePlace, FreshUnused, StoredUndeleted, Uses
<1>5. OneUser'
  BY <1>2, <1>3 DEF NonceInv, OneUser
<1> QED BY <1>4, <1>5 DEF NonceInv

\* A deletion that raises: a nonce that is stored once is in Redis or nowhere.
LEMMA RaiseNonce ==
    ASSUME TypeInv, NonceInv, NEW t \in Request, DeleteRaises(t)
    PROVE  NonceInv'
<1> DEFINE n == req[t].nonce
<1>1. n \in Nonce /\ Uses(t, n)
  BY DEF DeleteRaises, TypeInv, RequestOK, FieldsOK, Uses
<1>2. n \in doubled \/ nonce[n] = {"redis"} \/ nonce[n] = {}
  BY <1>1 DEF NonceInv, OnePlace, FreshUnused
<1>3. /\ raced' = raced /\ doubled' = doubled /\ enr' = enr
      /\ \A m \in Nonce : m # n => nonce'[m] = nonce[m]
      /\ \A u \in Request : u # t => req'[u] = req[u]
      /\ req'[t].pc = "idle" \/ req'[t].nonce = n
  BY <1>1 DEF DeleteRaises, Done, NoReq, TypeInv, TypeOK, RequestState
<1>4. n \notin doubled => (nonce'[n] = nonce[n] \/ nonce'[n] = {}) /\ req'[t].pc = "idle"
  BY <1>1, <1>2 DEF DeleteRaises, Done, NoReq, TypeInv, TypeOK
<1> QED BY <1>3, <1>4, QuietNonceStep

\* An enrollment starts: the nonce passes from the request to the session.
LEMMA StartNonce ==
    ASSUME TypeInv, NonceInv, NEW t \in Request, NEW s \in Session, StartInserts(t, s)
    PROVE  NonceInv'
<1> DEFINE n == req[t].nonce
<1>1. /\ nonce' = nonce /\ raced' = raced /\ doubled' = doubled
      /\ enr'[s].nonce = n
      /\ \A u \in Session : u # s => enr'[u] = enr[u]
      /\ req'[t].pc = "idle"
      /\ \A u \in Request : u # t => req'[u] = req[u]
  BY DEF StartInserts, nonceVars, Done, NoReq, TypeInv, TypeOK, EnrollmentRow
<1>2. n \in Nonce => Uses(t, n) /\ req[t].pc = "insert"
  BY EnrollmentConstants
     DEF StartInserts, Idle, TypeInv, RequestOK, FieldsOK, Uses
<1>3. n \in Nonce \ doubled => nonce[n] = {}
  BY <1>2 DEF NonceInv, OnePlace, FreshUnused, StoredUndeleted
<1>4. \A u \in Request, m \in Nonce : Uses(u, m)' => Uses(u, m) /\ u # t
  BY <1>1 DEF Uses
<1>5. (OnePlace /\ FreshUnused /\ StoredUndeleted)'
  BY <1>1, <1>3, <1>4 DEF NonceInv, OnePlace, FreshUnused, StoredUndeleted, Uses
<1>6. OneUser'
  BY <1>1, <1>2, <1>4 DEF NonceInv, OneUser
<1> QED BY <1>5, <1>6 DEF NonceInv

LEMMA StepNonceInv == TypeInv /\ NonceInv /\ [Next]_vars => NonceInv'
<1> SUFFICES ASSUME TypeInv, NonceInv, [Next]_vars
             PROVE  NonceInv'
  OBVIOUS
<1> USE DEF graceVars, nonceVars
<1>1. ASSUME NEW n \in Nonce, IssueNonce(n)
      PROVE  NonceInv'
  <2>1. PICK at \in {{"redis"}, {"memory"}, {"redis", "memory"}} :
           /\ nonce'[n] = at /\ \A m \in Nonce : m # n => nonce'[m] = nonce[m]
           /\ doubled' = IF at = {"redis", "memory"} THEN doubled \cup {n} ELSE doubled
    BY <1>1 DEF IssueNonce, TypeInv, TypeOK
  <2>2. /\ UNCHANGED <<enr, req, raced>> /\ nonce[n] = {"unissued"}
        /\ n \in doubled' \/ nonce'[n] = {"redis"} \/ nonce'[n] = {"memory"}
        /\ doubled \subseteq doubled'
    BY <1>1, <2>1 DEF IssueNonce
  <2>3. OnePlace'
    BY <2>1, <2>2 DEF NonceInv, OnePlace
  <2>4. (FreshUnused /\ StoredUndeleted)'
    BY <2>1, <2>2 DEF NonceInv, FreshUnused, StoredUndeleted, Uses
  <2>5. OneUser'
    BY <2>2 DEF NonceInv, OneUser, Uses
  <2> QED BY <2>3, <2>4, <2>5 DEF NonceInv
<1>2. ASSUME NEW n \in Nonce, NonceExpires(n)
      PROVE  NonceInv'
  <2>1. PICK at \in nonce[n] \ {"unissued"} : nonce' = [nonce EXCEPT ![n] = @ \ {at}]
    BY <1>2 DEF NonceExpires
  <2>2. \A m \in Nonce : m # n => nonce'[m] = nonce[m]
    BY <2>1 DEF TypeInv, TypeOK
  <2>3. n \notin doubled => nonce'[n] = {}
    BY <2>1 DEF NonceInv, OnePlace, TypeInv, TypeOK
  <2> QED BY <1>2, <2>2, <2>3, QuietNonceStep DEF NonceExpires
<1>3. ASSUME NEW t \in Request, NEW s \in Session, NEW pc \in {"sign", "reject", "expire"},
             NEW a \in Agent \cup {None}, Begin(t, s, pc, a),
             UNCHANGED <<enr, nonce, raced, doubled>>
      PROVE  NonceInv'
  <2>1. req'[t].pc = pc /\ \A u \in Request : u # t => req'[u] = req[u]
    BY <1>3 DEF Begin, NoReq, TypeInv, TypeOK, RequestState
  <2> QED BY <1>3, <2>1, QuietNonceStep
<1>4. ASSUME NEW t \in Request, NEW s \in Session, RejectReads(t, s) \/ PollReads(t, s)
      PROVE  NonceInv'
  BY <1>3, <1>4 DEF RejectReads, PollReads
<1>5. ASSUME NEW t \in Request, NEW s \in Session, NEW a \in Agent, ApproveReads(t, s, a)
      PROVE  NonceInv'
  BY <1>3, <1>5 DEF ApproveReads
<1>6. ASSUME NEW t \in Request, ApproveWrites(t) \/ ApproveReadsOld(t)
      PROVE  NonceInv'
  <2>1. req'[t].pc \in Writing /\ \A u \in Request : u # t => req'[u] = req[u]
    BY <1>6 DEF ApproveWrites, ApproveReadsOld, Writing, TypeInv, TypeOK, RequestState
  <2> QED BY <1>6, <2>1, QuietNonceStep DEF ApproveWrites, ApproveReadsOld, Writing
<1>7. ASSUME NEW t \in Request, Done(t), UNCHANGED <<nonce, raced, doubled>>,
             \A s \in Session : enr'[s].nonce = enr[s].nonce
      PROVE  NonceInv'
  <2>1. req'[t].pc = "idle" /\ \A u \in Request : u # t => req'[u] = req[u]
    BY <1>7 DEF Done, NoReq, TypeInv, TypeOK
  <2> QED BY <1>7, <2>1, QuietNonceStep
<1>8. ASSUME NEW t \in Request, ApproveConflicts(t) \/ Abort(t)
      PROVE  NonceInv'
  BY <1>7, <1>8 DEF ApproveConflicts, Abort
<1>9. ASSUME NEW t \in Request,
             ApproveAdds(t) \/ ApproveUpdates(t) \/ RejectWrites(t) \/ PollExpires(t)
      PROVE  NonceInv'
  <2>1. \A s \in Session : enr'[s].nonce = enr[s].nonce
    BY <1>9 DEF ApproveAdds, ApproveUpdates, RejectWrites, PollExpires, Decide,
                TypeInv, TypeOK, EnrollmentRow
  <2> QED BY <1>7, <1>9, <2>1 DEF ApproveAdds, ApproveUpdates, RejectWrites, PollExpires
<1>10. ASSUME NEW s \in Session, TtlPasses(s) \/ ListExpires(s)
       PROVE  NonceInv'
  <2>1. \A u \in Session : enr'[u].nonce = enr[u].nonce
    BY <1>10 DEF TtlPasses, ListExpires, Decide, TypeInv, TypeOK, EnrollmentRow
  <2> QED BY <1>10, <2>1, QuietNonceStep DEF TtlPasses, ListExpires
<1>11. CASE UNCHANGED <<enr, nonce, req, raced, doubled>>
  BY <1>11, QuietNonceStep
<1>12. CASE \/ \E a \in Agent : \/ DeleteAgent(a) \/ DeadlinePasses(a)
                                 \/ KeyIsDue(a) \/ RotateDpopKey(a)
            \/ GraceCleanup
  BY <1>11, <1>12 DEF DeleteAgent, DeadlinePasses, KeyIsDue, RotateDpopKey, GraceCleanup
<1>13. CASE Next
  BY <1>1, <1>2, <1>4, <1>5, <1>6, <1>8, <1>9, <1>10, <1>12, <1>13, ReadNonce, PopNonce,
     DeleteNonce, RaiseNonce, StartNonce DEF Next, Proceeds
<1> QED BY <1>11, <1>13 DEF vars

\* The users of a nonce, counted.
LEMMA OneUserCounted == OneUser => NonceOnce
<1> SUFFICES ASSUME OneUser, NEW n \in Nonce \ (raced \cup doubled)
             PROVE  Cardinality({s \in Session : enr[s].nonce = n} \cup Using(n)) <= 1
  BY DEF NonceOnce
<1> DEFINE U == {s \in Session : enr[s].nonce = n} \cup Using(n)
<1>1. \A x, y \in U : x = y
  BY DEF OneUser, Using, Uses
<1>2. CASE U = {}
  BY <1>2, FS_EmptySet
<1>3. CASE U # {}
  <2>1. PICK x : U = {x}
    BY <1>1, <1>3
  <2>2. Cardinality(U) = 1
    BY <2>1, FS_Singleton, Zenon
  <2> HIDE DEF U
  <2>3. Cardinality(U) <= 1
    BY <2>2
  <2> QED BY <2>3 DEF U
<1> QED BY <1>2, <1>3

(***************************************************************************)
(* consume_nonce gives a nonce to one enrollment, unless a second one read *)
(* it (GET) before the first had deleted it (DELETE), or issue_nonce had   *)
(* put it into both stores (a SET that is applied and raises).             *)
(***************************************************************************)
THEOREM NonceUsedOnce == Spec => []NonceOnce
<1>1. Init => NonceInv
  BY EnrollmentConstants DEF Init, NonceInv, OnePlace, FreshUnused, StoredUndeleted, OneUser,
                             Uses, NoReq
<1>2. NonceInv => NonceOnce
  BY OneUserCounted DEF NonceInv
<1> QED BY <1>1, <1>2, InitTypeInv, StepTypeInv, StepNonceInv, PTL DEF Spec

-----------------------------------------------------------------------------
(***************************************************************************)
(* The two tables.  An approval stores the old key it read earlier, so     *)
(* that key's session must stay approved meanwhile: it does because nobody *)
(* is deciding a session that is settled and not contested.                *)
(***************************************************************************)

\* A session somebody is deciding is pending, unless it is contested.
DecidingPending ==
    \A s \in Session \ contested :
        (\E t \in Request : req[t].pc \in DecidingPc /\ req[t].session = s)
            => enr[s].status = "pending"

ApprovedFor(s, a) == enr[s].status = "approved" /\ enr[s].agent = a

\* The old key an approval has read belongs to a session approved for its agent.
ReadKeyApproved ==
    \A t \in Request :
        req[t].pc = "update" /\ req[t].prev \notin {None} \cup contested
            => ApprovedFor(req[t].prev, req[t].agent)

\* The keys of the registry do.
KeysApproved ==
    \A a \in Agent, s \in Session \ contested :
        agent[a].key = s \/ agent[a].prev = s => ApprovedFor(s, a)

\* An approved session has an agent, and that agent has a key unless its row
\* was deleted.
ApprovedHasKey ==
    \A s \in Session \ dropped : enr[s].status = "approved" =>
        enr[s].agent \in Agent /\ agent[enr[s].agent].key # None

TablesInv == DecidingPending /\ ReadKeyApproved /\ KeysApproved /\ ApprovedHasKey

\* A step that decides nothing keeps the invariant if it starts to decide
\* pending sessions only, reads current keys only, and drops no current key
\* of an agent without naming the sessions approved for it.
LEMMA QuietTablesStep ==
    ASSUME TypeInv, TablesInv, contested' = contested, dropped \subseteq dropped',
           \A s \in Session : /\ enr'[s].status = enr[s].status \/ enr[s].status = "none"
                              /\ enr'[s].status = "approved" => enr[s].status = "approved"
                              /\ enr'[s].agent = enr[s].agent \/ enr[s].status = "none",
           \A t \in Request : req'[t].pc \in DecidingPc =>
               \/ /\ req[t].pc \in DecidingPc /\ req'[t].session = req[t].session
               \/ enr'[req'[t].session].status = "pending",
           \A t \in Request : req'[t].pc = "update" =>
               /\ req'[t].agent \in Agent /\ req'[t].prev \in Session \cup {None}
               /\ \/ req[t].pc = "update" /\ req'[t] = req[t]
                  \/ req'[t].prev = agent[req'[t].agent].key,
           \A a \in Agent : /\ \/ agent'[a].key = agent[a].key
                               \/ /\ agent'[a].key = None
                                  /\ \A s \in Session : ApprovedFor(s, a) => s \in dropped'
                            /\ agent'[a].prev \in {agent[a].prev, None}
    PROVE  TablesInv'
<1>1. \A s \in Session : \A a : ApprovedFor(s, a) => ApprovedFor(s, a)'
  BY DEF ApprovedFor
<1>2. DecidingPending'
  BY DEF TablesInv, DecidingPending
<1>3. ReadKeyApproved'
  BY <1>1 DEF TablesInv, ReadKeyApproved, KeysApproved
<1>4. KeysApproved'
  BY <1>1, EnrollmentConstants DEF TablesInv, KeysApproved
<1>5. ApprovedHasKey'
  BY DEF TablesInv, ApprovedHasKey, ApprovedFor
<1> QED BY <1>2, <1>3, <1>4, <1>5 DEF TablesInv

\* A decision that nobody else was taking too was taken on a pending session,
\* which no key of the registry and no approval under way belongs to.
LEMMA DecisionTables ==
    ASSUME TypeInv, TablesInv, NEW s \in Session, NEW by,
           NEW status \in {"approved", "rejected", "expired"}, NEW a \in Agent \cup {None},
           status = "approved" => a \in Agent,
           Decide(s, by, status, a),
           s \notin contested' => enr[s].status = "pending"
    PROVE  /\ \A u \in Session \ contested', b \in Agent :
                 ApprovedFor(u, b) => ApprovedFor(u, b)' /\ u # s
           /\ \A u \in Session : u # s => enr'[u] = enr[u]
           /\ contested \subseteq contested' /\ contested' \subseteq Session
           /\ enr'[s].status = status
           /\ status = "approved" => enr'[s].agent = a
BY DecideType, {"approved", "rejected", "expired"} \subseteq Statuses
   DEF TypeInv, ApprovedFor, Statuses

\* A session that is not contested after a decision was pending before it,
\* and nobody is left to decide it again.
LEMMA DecisionAlone ==
    ASSUME TypeInv, TablesInv, NEW t \in Request, req[t].pc \in DecidingPc,
           NEW status, NEW a, Decide(req[t].session, {t}, status, a),
           req[t].session \notin contested'
    PROVE  /\ enr[req[t].session].status = "pending"
           /\ \A u \in Request : u # t /\ req[u].pc \in DecidingPc
                                    => req[u].session # req[t].session
<1>1. req[t].session \in Session
  BY DEF TypeInv, RequestOK, FieldsOK
<1>2. Deciding(req[t].session) \ {t} = {} /\ req[t].session \notin contested
  BY DEF Decide
<1> QED BY <1>1, <1>2 DEF Deciding, DecidingPc, TablesInv, DecidingPending

\* An approval commits.
LEMMA CommitTables ==
    ASSUME TypeInv, TablesInv, NEW t \in Request, ApproveAdds(t) \/ ApproveUpdates(t)
    PROVE  TablesInv'
<1>0. PICK s, a, p : s = req[t].session /\ a = req[t].agent /\ p = req[t].prev
  OBVIOUS
<1>1. s \in Session /\ a \in Agent /\ p \in Session \cup {None}
  BY <1>0 DEF ApproveAdds, ApproveUpdates, TypeInv, TypeOK, RequestOK, FieldsOK, DecidingPc,
              Writing, RequestState
<1>2. /\ \/ agent'[a].key = s /\ agent'[a].prev = None
         \/ agent'[a].key = s /\ agent'[a].prev = p /\ req[t].pc = "update"
         \/ agent' = agent /\ s \in dropped'
      /\ dropped \subseteq dropped'
      /\ \A b \in Agent : b # a => agent'[b] = agent[b]
  <2>1. CASE ApproveAdds(t)
    BY <1>0, <1>1, <2>1 DEF ApproveAdds, TypeInv, TypeOK
  <2>2. CASE ApproveUpdates(t) /\ agent[a].key # None
    BY <1>0, <1>1, <2>2 DEF ApproveUpdates, Replaced, TypeInv, TypeOK
  <2>3. CASE ApproveUpdates(t) /\ agent[a].key = None
    BY <1>0, <1>1, <2>3 DEF ApproveUpdates
  <2> QED BY <2>1, <2>2, <2>3
<1>9. /\ req'[t].pc = "idle" /\ \A u \in Request : u # t => req'[u] = req[u]
      /\ Decide(s, {t}, "approved", a) /\ req[t].pc \in Writing
  BY <1>0, <1>1 DEF ApproveAdds, ApproveUpdates, Writing, Done, NoReq, TypeInv, TypeOK
<1>3. s \notin contested' =>
        /\ enr[s].status = "pending"
        /\ \A u \in Request : u # t /\ req[u].pc \in DecidingPc => req[u].session # s
  BY <1>0, <1>9, DecisionAlone DEF DecidingPc
<1>4. /\ \A u \in Session \ contested', b \in Agent :
            ApprovedFor(u, b) => ApprovedFor(u, b)' /\ u # s
      /\ \A u \in Session : u # s => enr'[u] = enr[u]
      /\ contested \subseteq contested' /\ contested' \subseteq Session
      /\ ApprovedFor(s, a)'
  <2>1. /\ \A u \in Session \ contested', b \in Agent :
              ApprovedFor(u, b) => ApprovedFor(u, b)' /\ u # s
        /\ \A u \in Session : u # s => enr'[u] = enr[u]
        /\ contested \subseteq contested' /\ contested' \subseteq Session
        /\ enr'[s].status = "approved" /\ enr'[s].agent = a
    <3>1. PICK status \in {"approved", "rejected", "expired"} :
             status = "approved" /\ Decide(s, {t}, status, a)
      BY <1>1, <1>9
    <3> QED BY <1>1, <1>3, <3>1, DecisionTables
  <2> QED BY <2>1 DEF ApprovedFor
<1>5. DecidingPending'
  BY <1>9, <1>3, <1>4 DEF TablesInv, DecidingPending, DecidingPc, Writing
<1>6. ReadKeyApproved'
  BY <1>9, <1>4
     DEF Writing, TablesInv, ReadKeyApproved, TypeInv, TypeOK, RequestState, RequestOK, FieldsOK
<1>7. KeysApproved'
  <2>1. p \in Session \ contested' /\ req[t].pc = "update" => ApprovedFor(p, a)
    BY <1>0, <1>2, <1>4, EnrollmentConstants DEF TablesInv, ReadKeyApproved
  <2>2. ASSUME NEW b \in Agent, NEW u \in Session \ contested',
               agent'[b].key = u \/ agent'[b].prev = u
        PROVE  ApprovedFor(u, b)'
    <3>1. CASE b = a /\ agent' # agent
      BY <1>1, <1>2, <1>4, <2>1, <2>2, <3>1, EnrollmentConstants
    <3>2. CASE b # a \/ agent' = agent
      <4>1. ApprovedFor(u, b)
        BY <1>2, <1>4, <2>2, <3>2 DEF TablesInv, KeysApproved
      <4> QED BY <1>4, <4>1
    <3> QED BY <3>1, <3>2
  <2> QED BY <2>2 DEF KeysApproved
<1>8. ApprovedHasKey'
  <2>1. s # None
    BY <1>1, EnrollmentConstants
  <2> QED BY <1>1, <1>2, <1>4, <2>1 DEF TablesInv, ApprovedHasKey, ApprovedFor
<1> QED BY <1>5, <1>6, <1>7, <1>8 DEF TablesInv

\* A decision that is no approval leaves the registry alone.
LEMMA RefusalTables ==
    ASSUME TypeInv, TablesInv, NEW s \in Session, NEW by,
           NEW status \in {"rejected", "expired"}, Decide(s, by, status, None),
           s \notin contested' =>
               /\ enr[s].status = "pending"
               /\ \A u \in Request : req'[u].pc \in DecidingPc => req[u].session # s,
           \A u \in Request : req'[u] = req[u] \/ req'[u].pc = "idle",
           agent' = agent, dropped' = dropped
    PROVE  TablesInv'
<1>1. /\ \A u \in Session \ contested', b \in Agent :
            ApprovedFor(u, b) => ApprovedFor(u, b)' /\ u # s
      /\ \A u \in Session : u # s => enr'[u] = enr[u]
      /\ contested \subseteq contested' /\ contested' \subseteq Session
      /\ enr'[s].status = status
  BY DecisionTables
<1>2. DecidingPending'
  BY <1>1 DEF TablesInv, DecidingPending, DecidingPc, Writing
<1>3. ReadKeyApproved'
  BY <1>1 DEF TablesInv, ReadKeyApproved, Writing, TypeInv, TypeOK, RequestState, RequestOK, FieldsOK
<1>4. KeysApproved'
  BY <1>1 DEF TablesInv, KeysApproved
<1>5. ApprovedHasKey'
  BY <1>1 DEF TablesInv, ApprovedHasKey
<1> QED BY <1>2, <1>3, <1>4, <1>5 DEF TablesInv

LEMMA StepTablesInv == TypeInv /\ TablesInv /\ [Next]_vars => TablesInv'
<1> SUFFICES ASSUME TypeInv, TablesInv, [Next]_vars
             PROVE  TablesInv'
  OBVIOUS
<1>0. TypeInv'
  BY StepTypeInv
<1> USE DEF graceVars, nonceVars
<1>1. CASE UNCHANGED <<enr, agent, req, contested, dropped>>
  <2>1. \A t \in Request : req[t].agent \in Agent \/ req[t].pc # "update"
    BY DEF TypeInv, RequestOK, FieldsOK, Writing
  <2>2. \A t \in Request : req[t].prev \in Session \cup {None}
    BY DEF TypeInv, TypeOK, RequestState
  <2> QED BY <1>1, <2>1, <2>2, QuietTablesStep
\* Requests that only read, and those that end without a decision.
<1>2. ASSUME NEW t \in Request, req'[t].pc \notin DecidingPc,
             \A u \in Request : u # t => req'[u] = req[u],
             agent' = agent, contested' = contested, dropped' = dropped,
             enr' = enr
      PROVE  TablesInv'
  <2>1. \A u \in Request : req'[u].pc = "update" =>
           req'[u].agent \in Agent /\ req'[u].prev \in Session \cup {None}
    BY <1>0 DEF TypeInv, TypeOK, RequestOK, FieldsOK, Writing, RequestState
  <2> QED BY <1>2, <2>1, QuietTablesStep DEF DecidingPc, Writing
<1>3. ASSUME NEW t \in Request, NEW n \in Nonce, NonceRead(t, n) \/ NoncePopped(t, n)
      PROVE  TablesInv'
  <2>1. /\ req'[t].pc \in {"delete", "insert"}
        /\ \A u \in Request : u # t => req'[u] = req[u]
    BY <1>3 DEF NonceRead, NoncePopped, NoReq, TypeInv, TypeOK
  <2>2. UNCHANGED <<enr, agent, contested, dropped>> /\ req'[t].pc \notin DecidingPc
    BY <1>3, <2>1 DEF NonceRead, NoncePopped, DecidingPc, Writing
  <2> QED BY <1>2, <2>1, <2>2
<1>4. ASSUME NEW t \in Request, Done(t)
      PROVE  /\ req'[t].pc \notin DecidingPc
             /\ \A u \in Request : u # t => req'[u] = req[u]
  BY <1>4 DEF Done, NoReq, DecidingPc, Writing, TypeInv, TypeOK
<1>5. ASSUME NEW t \in Request, NonceDeleted(t) \/ DeleteRaises(t)
      PROVE  TablesInv'
  <2>1. /\ req'[t].pc \in {"insert", "idle"}
        /\ \A u \in Request : u # t => req'[u] = req[u]
    BY <1>5 DEF NonceDeleted, DeleteRaises, Done, NoReq, TypeInv, TypeOK, RequestState
  <2>2. UNCHANGED <<enr, agent, contested, dropped>> /\ req'[t].pc \notin DecidingPc
    BY <1>5, <2>1 DEF NonceDeleted, DeleteRaises, DecidingPc, Writing
  <2> QED BY <1>2, <2>1, <2>2
<1>6. ASSUME NEW t \in Request, NEW s \in Session, StartInserts(t, s)
      PROVE  TablesInv'
  <2>1. \A u \in Session : \/ enr'[u] = enr[u]
                           \/ enr[u].status = "none" /\ enr'[u].status # "approved"
    BY <1>6 DEF StartInserts, TypeInv, TypeOK
  <2>2. Done(t) /\ UNCHANGED <<agent, contested, dropped>>
    BY <1>6 DEF StartInserts
  <2>3. /\ req'[t].pc \notin DecidingPc
        /\ \A u \in Request : u # t => req'[u] = req[u]
    BY <1>4, <2>2
  <2>4. \A u \in Request : req'[u].pc = "update" =>
           req'[u].agent \in Agent /\ req'[u].prev \in Session \cup {None}
    BY <1>0 DEF TypeInv, TypeOK, RequestOK, FieldsOK, Writing, RequestState
  <2> QED BY <2>1, <2>2, <2>3, <2>4, QuietTablesStep DEF DecidingPc, Writing
<1>7. ASSUME NEW t \in Request, ApproveConflicts(t) \/ Abort(t)
      PROVE  TablesInv'
  <2>1. Done(t) /\ UNCHANGED <<enr, agent, contested, dropped>>
    BY <1>7 DEF ApproveConflicts, Abort
  <2> QED BY <1>2, <1>4, <2>1
\* Requests that begin to decide, and the approval that takes its lock.
<1>8. ASSUME NEW t \in Request, NEW s \in Session, NEW pc \in {"sign", "reject", "expire"},
             NEW a \in Agent \cup {None}, Begin(t, s, pc, a), enr[s].status = "pending",
             UNCHANGED <<enr, agent, contested, dropped>>
      PROVE  TablesInv'
  <2>1. /\ req'[t].pc = pc /\ req'[t].session = s
        /\ \A u \in Request : u # t => req'[u] = req[u]
    BY <1>8 DEF Begin, NoReq, TypeInv, TypeOK, RequestState
  <2>2. \A u \in Request : req'[u].pc = "update" =>
           req'[u].agent \in Agent /\ req'[u].prev \in Session \cup {None}
    BY <1>0 DEF TypeInv, TypeOK, RequestOK, FieldsOK, Writing, RequestState
  <2> QED BY <1>8, <2>1, <2>2, QuietTablesStep
<1>9. ASSUME NEW t \in Request, NEW s \in Session, NEW a \in Agent,
             RejectReads(t, s) \/ ApproveReads(t, s, a)
      PROVE  TablesInv'
  BY <1>8, <1>9 DEF RejectReads, ApproveReads, Decidable
<1>10. ASSUME NEW t \in Request, NEW s \in Session, PollReads(t, s) \/ RejectReads(t, s)
       PROVE  TablesInv'
  BY <1>8, <1>10 DEF PollReads, RejectReads, Decidable
<1>11. ASSUME NEW t \in Request, ApproveWrites(t) \/ ApproveReadsOld(t)
       PROVE  TablesInv'
  <2>1. /\ req'[t].pc \in Writing /\ req'[t].session = req[t].session
        /\ req'[t].agent = req[t].agent
        /\ req'[t].pc = "update" => req'[t].prev = agent[req[t].agent].key
        /\ req[t].pc \in {"sign", "old"}
        /\ \A u \in Request : u # t => req'[u] = req[u]
    BY <1>11 DEF ApproveWrites, ApproveReadsOld, Writing, TypeInv, TypeOK, RequestState
  <2>2. \A u \in Request : req'[u].pc = "update" =>
           req'[u].agent \in Agent /\ req'[u].prev \in Session \cup {None}
    BY <1>0 DEF TypeInv, TypeOK, RequestOK, FieldsOK, Writing, RequestState
  <2>3. req[t].pc \in DecidingPc /\ UNCHANGED <<enr, agent, contested, dropped>>
    BY <1>11, <2>1 DEF DecidingPc, Writing, ApproveWrites, ApproveReadsOld
  <2> QED BY <2>1, <2>2, <2>3, QuietTablesStep
\* The decisions.
<1>12. ASSUME NEW t \in Request, RejectWrites(t) \/ PollExpires(t)
       PROVE  TablesInv'
  <2>1. PICK status \in {"rejected", "expired"} :
           Decide(req[t].session, {t}, status, None)
    BY <1>12 DEF RejectWrites, PollExpires
  <2>2. /\ req[t].pc \in DecidingPc /\ req[t].session \in Session
        /\ req'[t].pc = "idle" /\ \A u \in Request : u # t => req'[u] = req[u]
        /\ agent' = agent /\ dropped' = dropped
    BY <1>12 DEF RejectWrites, PollExpires, DecidingPc, Done, NoReq, TypeInv, TypeOK,
                 RequestOK, FieldsOK
  <2>3. req[t].session \notin contested' =>
           /\ enr[req[t].session].status = "pending"
           /\ \A u \in Request : u # t /\ req[u].pc \in DecidingPc
                                   => req[u].session # req[t].session
    BY <2>1, <2>2, DecisionAlone
  <2>4. "idle" \notin DecidingPc
    BY DEF DecidingPc, Writing
  <2> QED BY <2>1, <2>2, <2>3, <2>4, RefusalTables
<1>13. ASSUME NEW s \in Session, ListExpires(s)
       PROVE  TablesInv'
  <2>1. s \notin contested' =>
           \A u \in Request : req'[u].pc \in DecidingPc => req[u].session # s
    BY <1>13 DEF ListExpires, Decide, Deciding, DecidingPc
  <2> QED BY <1>13, <2>1, RefusalTables DEF ListExpires
\* Time and the grace period.
<1>14. ASSUME NEW s \in Session, TtlPasses(s)
       PROVE  TablesInv'
  <2>1. \A u \in Session : enr'[u].status = enr[u].status /\ enr'[u].agent = enr[u].agent
    BY <1>14 DEF TtlPasses, TypeInv, TypeOK, EnrollmentRow
  <2>2. \A t \in Request : req[t].pc = "update" =>
           req[t].agent \in Agent /\ req[t].prev \in Session \cup {None}
    BY DEF TypeInv, TypeOK, RequestOK, FieldsOK, Writing, RequestState
  <2> QED BY <1>14, <2>1, <2>2, QuietTablesStep DEF TtlPasses
<1>15. CASE (\E a \in Agent : DeadlinePasses(a) \/ RotateDpopKey(a)) \/ GraceCleanup
  <2>1. \A b \in Agent : /\ agent'[b].key = agent[b].key
                         /\ agent'[b].prev \in {agent[b].prev, None}
    <3>1. CASE \E a \in Agent : DeadlinePasses(a) \/ RotateDpopKey(a)
      BY <3>1 DEF DeadlinePasses, RotateDpopKey, TypeInv, TypeOK, AgentRow
    <3>2. CASE GraceCleanup
      BY <3>2 DEF GraceCleanup, TypeInv, TypeOK, AgentRow
    <3> QED BY <1>15, <3>1, <3>2
  <2>2. \A t \in Request : req[t].pc = "update" =>
           req[t].agent \in Agent /\ req[t].prev \in Session \cup {None}
    BY DEF TypeInv, TypeOK, RequestOK, FieldsOK, Writing, RequestState
  <2>3. UNCHANGED <<enr, req, contested, dropped>>
    BY <1>15 DEF DeadlinePasses, RotateDpopKey, GraceCleanup
  <2> QED BY <2>1, <2>2, <2>3, QuietTablesStep
<1>16. ASSUME NEW a \in Agent, DeleteAgent(a)
       PROVE  TablesInv'
  <2>1. /\ agent'[a].key = None /\ agent'[a].prev = None
        /\ \A b \in Agent : b # a => agent'[b] = agent[b]
        /\ UNCHANGED <<enr, req, contested>> /\ dropped \subseteq dropped'
        /\ \A s \in Session : ApprovedFor(s, a) => s \in dropped'
    BY <1>16 DEF DeleteAgent, NoAgent, ApprovedFor, TypeInv, TypeOK
  <2>2. \A t \in Request : req[t].pc = "update" =>
           req[t].agent \in Agent /\ req[t].prev \in Session \cup {None}
    BY DEF TypeInv, TypeOK, RequestOK, FieldsOK, Writing, RequestState
  <2> QED BY <2>1, <2>2, QuietTablesStep
<1>17. CASE Next
  <2>1. ASSUME (\E n \in Nonce : IssueNonce(n) \/ NonceExpires(n))
                 \/ \E a \in Agent : KeyIsDue(a)
        PROVE  TablesInv'
    BY <1>1, <2>1 DEF IssueNonce, NonceExpires, KeyIsDue
  <2> QED BY <1>17, <2>1, <1>3, <1>5, <1>6, <1>7, <1>9, <1>10, <1>11, <1>12, <1>13,
             <1>14, <1>15, <1>16, CommitTables DEF Next, Proceeds
<1> QED BY <1>1, <1>17 DEF vars

(***************************************************************************)
(* What approve writes to pending_enrollments and internal_agents agrees:  *)
(* a registered key belongs to a session approved for its agent, and an    *)
(* approved session's agent is registered, except for sessions that two    *)
(* requests were deciding at the same time and, for the second half, those *)
(* approved for an agent whose row was deleted.                            *)
(***************************************************************************)
THEOREM RegistryApproved == Spec => []RegisteredIsApproved
<1>1. Init => TablesInv
  BY EnrollmentConstants
     DEF Init, TablesInv, DecidingPending, ReadKeyApproved, KeysApproved, ApprovedHasKey,
         NoReq, NoAgent, DecidingPc, Writing
<1>2. TypeInv /\ TablesInv => RegisteredIsApproved
  <2> SUFFICES ASSUME TypeInv, TablesInv
               PROVE  RegisteredIsApproved
    OBVIOUS
  <2>1. \A a \in Agent : {agent[a].key, agent[a].prev} \subseteq Session \cup {None}
    BY DEF TypeInv, TypeOK, AgentRow
  <2> QED BY <2>1 DEF TablesInv, KeysApproved, ApprovedHasKey, ApprovedFor,
                      RegisteredIsApproved
<1> QED BY <1>1, <1>2, InitTypeInv, StepTypeInv, StepTablesInv, PTL DEF Spec
=============================================================================
