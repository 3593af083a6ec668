----------------------------- MODULE LocalQueue -----------------------------
(***************************************************************************)
(* The local message queue: the statements of local/message_queue.py on    *)
(* local_messages, behind send_message, send_oneshot and ack_message, and  *)
(* the message half of the sweeper.                                        *)
(*                                                                         *)
(* Several workers run these on one database.  The SELECT and the write    *)
(* of a transaction are separate steps (READ COMMITTED).  A row is named   *)
(* by the call that inserted it; every message has the same recipient, and *)
(* the payload is left out.  Sessions are in LocalSessions: here any       *)
(* worker may serve any request.  No endpoint connects a WebSocket, so     *)
(* nothing is pushed and the sweeper's notices are only counted.           *)
(***************************************************************************)
EXTENDS WorkerLeader

CONSTANTS
    Call,          \* send requests, retries included
    Key,           \* idempotency keys; one-shots have keys of their own
    SweepLimit,    \* limit of sweep_expired
    MaxFaults      \* bound: failed statements

ASSUME QueueConstants ==
    /\ SweepLimit \in Nat \ {0}
    /\ MaxFaults \in Nat
    /\ None \notin Call \cup Key

VARIABLES
    msg,     \* [Call -> row inserted by that call]: delivery_status, expires_at passed
    call,    \* [Call -> progress of the request]
    acked,   \* rows whose recipient was answered "acked"
    sweep,   \* [Worker -> its pass of sweep_expired]
    faults

vars == <<leaderVars, msg, call, acked, sweep, faults>>

MsgStatus == {"none", "pending", "delivered", "expired"}

NotSent == [pc |-> "new", worker |-> None, key |-> None, id |-> None, after |-> {}]

Asleep == [phase |-> "asleep", late |-> {}, seen |-> {}]

Init ==
    /\ LeaderInit
    /\ msg = [c \in Call |-> [status |-> "none", late |-> FALSE]]
    /\ call = [c \in Call |-> NotSent]
    /\ acked = {}
    /\ sweep = [w \in Worker |-> Asleep]
    /\ faults = 0

Rows == {c \in Call : msg[c].status # "none"}

Pending == {c \in Call : msg[c].status = "pending"}

Answered == {c \in Call : call[c].pc = "sent"}

\* Variant: settled rows no longer count as existing.
Existing_PendingOnly(k) == {d \in Pending : call[d].key = k}

\* The dedupe SELECT: rows of this recipient and key, whatever their status,
\* sender or session.
Existing(k) == {d \in Rows : call[d].key = k}

\* The SELECT of enqueue or enqueue_oneshot on worker w.  A hit ends the
\* transaction, and the sender is answered with the id of the existing row.
\* after: the requests answered before this one came in.
EnqueueSelects(c, w, k) ==
    LET req == [pc |-> "insert", worker |-> w, key |-> k, id |-> None, after |-> Answered]
    IN  /\ w \in up
        /\ call[c].pc = "new"
        /\ IF Existing(k) = {}
           THEN call' = [call EXCEPT ![c] = req]
           ELSE \E d \in Existing(k) :
                   call' = [call EXCEPT ![c] = [req EXCEPT !.pc = "enqueued", !.id = d]]
        /\ UNCHANGED <<leaderVars, msg, acked, sweep, faults>>

\* The INSERT, committed.
EnqueueInserts(c) ==
    /\ call[c].pc = "insert"
    /\ msg' = [msg EXCEPT ![c] = [status |-> "pending", late |-> FALSE]]
    /\ call' = [call EXCEPT ![c].pc = "enqueued", ![c].id = c]
    /\ UNCHANGED <<leaderVars, acked, sweep, faults>>

\* The handler ends: the sender has its answer.
SendAnswered(c) ==
    /\ call[c].pc = "enqueued"
    /\ call' = [call EXCEPT ![c].pc = "sent"]
    /\ UNCHANGED <<leaderVars, msg, acked, sweep, faults>>

\* The transaction, or a statement after it (the session save, the audit
\* rows), fails: the sender is answered an error.
SendFails(c) ==
    /\ call[c].pc \in {"insert", "enqueued"}
    /\ faults < MaxFaults
    /\ faults' = faults + 1
    /\ call' = [call EXCEPT ![c].pc = "lost"]
    /\ UNCHANGED <<leaderVars, msg, acked, sweep>>

\* expires_at of a row goes by.
MsgTtlPasses(c) ==
    /\ msg[c].status = "pending"
    /\ ~msg[c].late
    /\ msg' = [msg EXCEPT ![c].late = TRUE]
    /\ UNCHANGED <<leaderVars, call, acked, sweep, faults>>

\* mark_delivered: the UPDATE that matches only a pending row; the caller is
\* answered "acked" when it matched.  expires_at is not looked at.
MarkDelivered(w, c) ==
    /\ w \in up
    /\ c \in Pending
    /\ msg' = [msg EXCEPT ![c].status = "delivered"]
    /\ acked' = acked \cup {c}
    /\ UNCHANGED <<leaderVars, call, sweep, faults>>

Late == {c \in Pending : msg[c].late}

\* The SELECT of sweep_expired, at most SweepLimit rows, in no order.  late:
\* the rows older than the sweep's "now".  When nothing is found the pass
\* ends there.
SweepSelects(w) ==
    /\ w \in held
    /\ sweep[w].phase = "asleep"
    /\ Late # {}
    /\ \E seen \in SUBSET Late :
          /\ IF Cardinality(Late) <= SweepLimit THEN seen = Late
                                               ELSE Cardinality(seen) = SweepLimit
          /\ sweep' = [sweep EXCEPT ![w] = [phase |-> "update", late |-> Late, seen |-> seen]]
    /\ UNCHANGED <<leaderVars, msg, call, acked, faults>>

\* Variant: the UPDATE goes by expires_at alone.
SweepUpdates_Unguarded(w) ==
    /\ sweep[w].phase = "update"
    /\ msg' = [c \in Call |-> IF c \in sweep[w].late
                              THEN [msg[c] EXCEPT !.status = "expired"] ELSE msg[c]]
    /\ sweep' = [sweep EXCEPT ![w] = Asleep]
    /\ UNCHANGED <<leaderVars, call, acked, faults>>

\* The UPDATE of sweep_expired: every row that is still pending and older
\* than the same "now", whether or not the SELECT returned it.  The rows the
\* SELECT returned become the notices.
SweepUpdates(w) ==
    /\ sweep[w].phase = "update"
    /\ msg' = [c \in Call |-> IF c \in sweep[w].late \cap Pending
                              THEN [msg[c] EXCEPT !.status = "expired"] ELSE msg[c]]
    /\ sweep' = [sweep EXCEPT ![w] = Asleep]
    /\ UNCHANGED <<leaderVars, call, acked, faults>>

\* sweep_expired fails or runs into its 5 s timeout: rolled back.
SweepFails(w) ==
    /\ sweep[w].phase = "update"
    /\ faults < MaxFaults
    /\ faults' = faults + 1
    /\ sweep' = [sweep EXCEPT ![w] = Asleep]
    /\ UNCHANGED <<leaderVars, msg, call, acked>>

Boot(w) == WorkerBoots(w) /\ UNCHANGED <<msg, call, acked, sweep, faults>>

\* The requests and the sweep of the worker end with it; what they committed
\* stays.
Crash(w) ==
    /\ WorkerDies(w)
    /\ sweep' = [sweep EXCEPT ![w] = Asleep]
    /\ call' = [c \in Call |-> IF call[c].worker = w /\ call[c].pc # "sent"
                               THEN [call[c] EXCEPT !.pc = "lost"] ELSE call[c]]
    /\ UNCHANGED <<msg, acked, faults>>

Next ==
    \/ \E w \in Worker : Boot(w) \/ Crash(w) \/ SweepSelects(w) \/ SweepUpdates(w) \/ SweepFails(w)
    \/ \E w \in Worker, c \in Call : MarkDelivered(w, c) \/ (\E k \in Key : EnqueueSelects(c, w, k))
    \/ \E c \in Call : EnqueueInserts(c) \/ SendAnswered(c) \/ SendFails(c) \/ MsgTtlPasses(c)
    \/ LockDropped /\ UNCHANGED <<msg, call, acked, sweep, faults>>

Spec == Init /\ [][Next]_vars

\* The supervisor restarts a dead worker, and the loop of sweeper.py goes on
\* after every pass, failed or not.
FairSpec ==
    /\ Spec
    /\ \A w \in Worker :
          WF_vars(Boot(w)) /\ WF_vars(SweepSelects(w)) /\ WF_vars(SweepUpdates(w))

-----------------------------------------------------------------------------
\* A row of local_messages, a send request and a pass of the sweeper.
MsgRow == [status : MsgStatus, late : BOOLEAN]

SendState ==
    [pc : {"new", "insert", "enqueued", "sent", "lost"}, worker : Worker \cup {None},
     key : Key \cup {None}, id : Call \cup {None}, after : SUBSET Call]

SweepState == [phase : {"asleep", "update"}, late : SUBSET Call, seen : SUBSET Call]

\* Types of the state.
TypeOK ==
    /\ LeaderTypeOK
    /\ msg \in [Call -> MsgRow]
    /\ call \in [Call -> SendState]
    /\ acked \subseteq Call
    /\ sweep \in [Worker -> SweepState]
    /\ faults \in 0..MaxFaults

\* A retry never makes a second message of a send that had been answered
\* before the retry came in, whichever worker takes it and whatever crashed;
\* a retry that overlaps the first send may (message_queue.py:102, no unique
\* index).  The id returned names a row of the same key.
RetryNotDuplicated ==
    /\ \A c \in Rows : \A d \in call[c].after : call[d].key # call[c].key
    /\ \A c \in Answered : call[c].id \in Existing(call[c].key)

\* A sweep never undoes an ack that was answered, although it found the row
\* late before the ack, and two workers may both believe they are the sweeper.
\* What it reports is what it did, with two exceptions: a row it selected is
\* missing from the update only if its ack, or another sweep, came in between
\* (message_queue.py:336), and a row it expires goes unreported only when the
\* SELECT was cut at its limit (message_queue.py:360).
SweepReports ==
    [][\A w \in Worker :
          sweep[w].phase = "update" /\ sweep'[w].phase = "asleep" /\ msg' # msg =>
            LET flipped == {c \in Rows : msg'[c] # msg[c]}
                seen == sweep[w].seen
            IN  /\ flipped \cap acked = {}
                /\ seen \ flipped \subseteq acked \cup {c \in Rows : msg[c].status = "expired"}
                /\ flipped \subseteq seen \/ Cardinality(sweep[w].late) > SweepLimit]_vars

\* A message past its TTL leaves the queue, although the leader crashes, its
\* pass fails, and no running worker takes the lock over
\* (leader_election.py:143): the restarted worker does.
LateMessageSettles ==
    \A c \in Call : (c \in Late) ~> (msg[c].status \in {"delivered", "expired"})
=============================================================================
