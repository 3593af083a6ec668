--------------------------- MODULE AuditPublisher ---------------------------
(***************************************************************************)
(* Replication of local_audit to the Court: the publisher loop of          *)
(* federation/audit_publisher.py running against the appends of            *)
(* LocalAudit.  One worker, the leader, runs it.                           *)
(*                                                                         *)
(* A tick reads the cursor and up to MaxBatch newer rows, sends one batch  *)
(* per org, waiting for each answer, and moves the cursor to the largest   *)
(* id of any batch the Court accepted.                                     *)
(***************************************************************************)
EXTENDS LocalAudit

CONSTANTS
    MaxBatch,     \* MAX_BATCH_SIZE
    MaxFailures   \* bound: failed requests and abandoned ticks of a behaviour

ASSUME PublisherConstants ==
    /\ MaxBatch \in Nat \ {0}
    /\ MaxFailures \in Nat

VARIABLES
    cursor,    \* proxy_config[last_replicated_local_audit_id]
    tick,      \* the tick in progress
    court,     \* the Court's replica: set of [org, seq, hash]
    failures   \* failed requests and abandoned ticks so far

vars == <<rows, nextId, writer, call, cursor, tick, court, failures>>

NoTick == [phase |-> "sleeping", batches |-> {}, acked |-> 0]

Init ==
    /\ LocalInit
    /\ cursor = 0
    /\ tick = NoTick
    /\ court = {}
    /\ failures = 0

\* Variant: the newest rows first.
FetchPending_Newest(after) ==
    {i \in DOMAIN rows :
        /\ i > after
        /\ Cardinality({j \in DOMAIN rows : i < j}) < MaxBatch}

\* Variant: rows wait until a batch is full.
FetchPending_FullOnly(after) ==
    LET new == {i \in DOMAIN rows : i > after}
    IN  IF Cardinality(new) < MaxBatch THEN {}
        ELSE {i \in new : Cardinality({j \in new : j < i}) < MaxBatch}

\* _fetch_pending: the MaxBatch committed rows with the smallest ids above
\* the cursor.
FetchPending(after) ==
    {i \in DOMAIN rows :
        /\ i > after
        /\ Cardinality({j \in DOMAIN rows : after < j /\ j < i}) < MaxBatch}

\* _group_by_org: one batch of ids per org that has any.
GroupByOrg(ids) ==
    {[org |-> o, ids |-> ids \cap OrgIds(o)] : o \in {rows[i].org : i \in ids}}

\* The first transaction of _tick, when it finds rows to send.
TickStart ==
    LET pending == FetchPending(cursor)
    IN  /\ tick.phase = "sleeping"
        /\ pending # {}
        /\ tick' = [phase |-> "sending", batches |-> GroupByOrg(pending),
                    acked |-> cursor]
        /\ UNCHANGED <<localVars, cursor, court, failures>>

\* dict order: the batch whose first row has the smallest id goes first.
IsNext(b) ==
    /\ b \in tick.batches
    /\ \A c \in tick.batches : \E i \in b.ids : \A j \in c.ids : i <= j

\* The Court stores what it does not have under UNIQUE(org, chain_seq).
Replicated(b) ==
    court \cup {[org |-> rows[i].org, seq |-> rows[i].seq, hash |-> rows[i].hash] :
                  i \in {i \in b.ids : \A c \in court :
                           <<c.org, c.seq>> # <<rows[i].org, rows[i].seq>>}}

\* The larger of max_id_acked and the ids of an accepted batch.
MaxIdAcked(acked, ids) ==
    CHOOSE m \in ids \cup {acked} : \A i \in ids \cup {acked} : i <= m

\* _publish_batch gets a 2xx answer.
BatchAccepted(b) ==
    /\ tick.phase = "sending"
    /\ IsNext(b)
    /\ court' = Replicated(b)
    /\ tick' = [tick EXCEPT !.batches = @ \ {b},
                            !.acked = MaxIdAcked(@, b.ids)]
    /\ UNCHANGED <<localVars, cursor, failures>>

\* Variant: a refused batch is skipped, as the module's header says of 4xx.
BatchFailed_Skip(b) ==
    /\ tick.phase = "sending"
    /\ IsNext(b)
    /\ failures < MaxFailures
    /\ failures' = failures + 1
    /\ court' \in {court, Replicated(b)}
    /\ tick' = [tick EXCEPT !.batches = @ \ {b},
                            !.acked = MaxIdAcked(@, b.ids)]
    /\ UNCHANGED <<localVars, cursor>>

\* 4xx, 5xx, no connection or a timeout; after a timeout the Court may have
\* stored the batch all the same.  The loop goes on with the next org.
BatchFailed(b) ==
    /\ tick.phase = "sending"
    /\ IsNext(b)
    /\ failures < MaxFailures
    /\ failures' = failures + 1
    /\ court' \in {court, Replicated(b)}
    /\ tick' = [tick EXCEPT !.batches = @ \ {b}]
    /\ UNCHANGED <<localVars, cursor>>

\* The second transaction of _tick: advance the cursor if anything was acked.
TickEnd ==
    /\ tick.phase = "sending"
    /\ tick.batches = {}
    /\ cursor' = IF tick.acked > cursor THEN tick.acked ELSE cursor
    /\ tick' = NoTick
    /\ UNCHANGED <<localVars, court, failures>>

\* An exception leaves _tick (another transport error, countersign() of a
\* halted signer, the database) or the leader process is restarted.  The
\* batch being sent may have reached the Court by then.
TickAbandoned ==
    /\ tick.phase = "sending"
    /\ failures < MaxFailures
    /\ failures' = failures + 1
    /\ court' \in {court} \cup {Replicated(b) : b \in {c \in tick.batches : IsNext(c)}}
    /\ tick' = NoTick
    /\ UNCHANGED <<localVars, cursor>>

PublisherStep ==
    TickStart \/ (\E b \in tick.batches : BatchAccepted(b)) \/ TickEnd

\* Nothing left to append, nothing new to send.
Idle ==
    /\ \A e \in Event : call[e] \in {"ok", "error"}
    /\ tick.phase = "sleeping"
    /\ FetchPending(cursor) = {}
    /\ UNCHANGED vars

Next ==
    \/ LocalNext /\ UNCHANGED <<cursor, tick, court, failures>>
    \/ PublisherStep
    \/ \E b \in tick.batches : BatchFailed(b)
    \/ TickAbandoned
    \/ Idle

Spec == Init /\ [][Next]_vars

\* Workers finish the appends they began, and the leader keeps ticking; the
\* Court is not down forever (MaxFailures), so sending ends in an answer.
FairSpec ==
    /\ Spec
    /\ WF_vars(PublisherStep)
    /\ \A w \in Worker :
          WF_vars(WriterStep(w) /\ UNCHANGED <<cursor, tick, court, failures>>)

-----------------------------------------------------------------------------
TickState == [phase : {"sleeping", "sending"},
              batches : SUBSET [org : Org, ids : SUBSET Nat], acked : Nat]

CourtRow == [org : Org, seq : Nat \ {0}, hash : EventHash]

\* Types of the state; a batch holds committed rows.
TypeOK ==
    /\ LocalTypeOK
    /\ cursor \in Nat
    /\ tick \in TickState
    /\ \A b \in tick.batches : b.ids \subseteq DOMAIN rows
    /\ court \subseteq CourtRow
    /\ failures \in 0..MaxFailures

AtCourt(i) ==
    [org |-> rows[i].org, seq |-> rows[i].seq, hash |-> rows[i].hash] \in court

\* At-least-once delivery: the publisher never looks again at rows up to the
\* cursor, so each of them has reached the Court.  A refused batch (4xx) is no
\* exception: _publish_batch returns FALSE and the cursor stays
\* (audit_publisher.py:219-222), although the module's header says "log + skip"
\* (audit_publisher.py:16).
NothingSkipped == \A i \in DOMAIN rows : i <= cursor => AtCourt(i)

\* The Court's replica of an org is a gap-free prefix of the org's local
\* chain, so its continuity check never meets a hole, whatever was lost,
\* timed out, sent twice or restarted.
ReplicaIsPrefix ==
    \A c \in court :
        /\ \E i \in OrgIds(c.org) : rows[i].seq = c.seq /\ rows[i].hash = c.hash
        /\ \A i \in OrgIds(c.org) : rows[i].seq < c.seq => AtCourt(i)

\* Every committed row reaches the Court, although ticks fail and are
\* abandoned halfway.
EventuallyReplicated ==
    (\E i \in DOMAIN rows : ~AtCourt(i)) ~> (\A i \in DOMAIN rows : AtCourt(i))
=============================================================================
