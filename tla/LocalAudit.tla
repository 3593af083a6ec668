----------------------------- MODULE LocalAudit -----------------------------
(***************************************************************************)
(* append_local_audit: the per-org hash chains of table local_audit.       *)
(*                                                                         *)
(* Every worker takes its own lock for the org, reads the org's head,      *)
(* inserts the next row and commits; UNIQUE(org_id, chain_seq) decides     *)
(* between workers.  The primary key id is handed out at INSERT time and   *)
(* is shared by all orgs, so ids of different orgs may become visible in   *)
(* another order than they were handed out.                                *)
(***************************************************************************)
EXTENDS Integers, Sequences, FiniteSets

CONSTANTS
    Worker,       \* the uvicorn worker processes
    Org,          \* org_id values, SYSTEM_ORG among them
    Event,        \* calls of append_local_audit
    NoEvent,      \* the lock is free
    MaxRetries,   \* _MAX_CHAIN_RETRIES
    SingleWriter  \* TRUE: one open write transaction at a time (SQLite)

ASSUME LocalAuditConstants ==
    /\ MaxRetries \in Nat \ {0}
    /\ SingleWriter \in BOOLEAN
    /\ NoEvent \notin Event

VARIABLES
    rows,    \* committed rows of local_audit: id -> row
    nextId,  \* the next value of the id sequence
    writer,  \* worker -> org -> the append in progress under the org's lock
    call     \* event -> outcome of its append_local_audit call

localVars == <<rows, nextId, writer, call>>

\* compute_entry_hash_v2, collision free: a digest is the list of everything
\* it commits to, from the first row of the org.
EntryHash(seq, event, previous) == Append(previous, <<seq, event>>)

NoHash == <<>>
NoHead == [seq |-> 0, hash |-> NoHash]

\* The ids of an org's committed rows.
OrgIds(o) == {i \in DOMAIN rows : rows[i].org = o}

\* SELECT ... WHERE org_id ORDER BY chain_seq DESC LIMIT 1
OrgHead(o) ==
    IF OrgIds(o) = {} THEN NoHead
    ELSE LET last == CHOOSE i \in OrgIds(o) :
                        \A j \in OrgIds(o) : rows[j].seq <= rows[i].seq
         IN  [seq |-> rows[last].seq, hash |-> rows[last].hash]

\* verify_local_chain: every row, in chain_seq order, links to the one before
\* it and carries the hash of its own fields.
VerifyLocalChain(o) ==
    LET Before(i) == {j \in OrgIds(o) : rows[j].seq < rows[i].seq}
        Expected(i) ==
            IF Before(i) = {} THEN NoHash
            ELSE rows[CHOOSE j \in Before(i) :
                        \A k \in Before(i) : rows[k].seq <= rows[j].seq].hash
    IN  \A i \in OrgIds(o) :
           /\ rows[i].previous = Expected(i)
           /\ rows[i].hash =
                EntryHash(rows[i].seq, rows[i].event, rows[i].previous)

-----------------------------------------------------------------------------
Idling == [event |-> NoEvent, attempt |-> 0, phase |-> "open",
           head |-> NoHead, id |-> 0]

LocalInit ==
    /\ rows = [i \in {} |-> Idling]
    /\ nextId = 1
    /\ writer = [w \in Worker |-> [o \in Org |-> Idling]]
    /\ call = [e \in Event |-> "new"]

\* The details fit and the org's lock is taken.
TakeLock(e, w, o) ==
    /\ call[e] = "new"
    /\ writer[w][o].event = NoEvent
    /\ writer' = [writer EXCEPT ![w][o] = [Idling EXCEPT !.event = e]]
    /\ call' = [call EXCEPT ![e] = "writing"]
    /\ UNCHANGED <<rows, nextId>>

\* _enforce_details_size raises before any chain work.
DetailsTooLarge(e) ==
    /\ call[e] = "new"
    /\ call' = [call EXCEPT ![e] = "error"]
    /\ UNCHANGED <<rows, nextId, writer>>

ReadOrgHead(w, o) ==
    LET f == writer[w][o]
    IN  /\ f.event # NoEvent
        /\ f.phase = "open"
        /\ writer' = [writer EXCEPT ![w][o] =
              [f EXCEPT !.phase = "read", !.head = OrgHead(o)]]
        /\ UNCHANGED <<rows, nextId, call>>

\* Variant: uniqueness is only checked against committed rows.
MustWait_Never(w, o) == FALSE

\* Another transaction has a row for (o, seq) inserted but not committed, or
\* the database admits one writer: the INSERT has to wait.
MustWait(w, o) ==
    \E v \in Worker, p \in Org :
        /\ <<v, p>> # <<w, o>>
        /\ writer[v][p].phase = "inserted"
        /\ SingleWriter \/ (p = o /\ writer[v][p].head.seq = writer[w][o].head.seq)

\* UNIQUE(org_id, chain_seq) is violated by a committed row.
SeqTaken(w, o) ==
    \E i \in OrgIds(o) : rows[i].seq = writer[w][o].head.seq + 1

\* The INSERT gets an id; nobody sees the row before the commit.
InsertRow(w, o) ==
    LET f == writer[w][o]
    IN  /\ f.phase = "read"
        /\ ~MustWait(w, o)
        /\ ~SeqTaken(w, o)
        /\ writer' = [writer EXCEPT ![w][o] =
              [f EXCEPT !.phase = "inserted", !.id = nextId]]
        /\ nextId' = nextId + 1
        /\ UNCHANGED <<rows, call>>

\* The transaction commits, the lock is released and the call returns.
CommitRow(w, o) ==
    LET f == writer[w][o]
        seq == f.head.seq + 1
        row == [org |-> o, seq |-> seq, event |-> f.event,
                previous |-> f.head.hash,
                hash |-> EntryHash(seq, f.event, f.head.hash)]
    IN  /\ f.phase = "inserted"
        /\ rows' = [i \in DOMAIN rows \cup {f.id} |->
                      IF i = f.id THEN row ELSE rows[i]]
        /\ writer' = [writer EXCEPT ![w][o] = Idling]
        /\ call' = [call EXCEPT ![f.event] = "ok"]
        /\ UNCHANGED nextId

\* Variant: the next chain_seq is tried without reading the head again.
Collide_NextSeq(w, o) ==
    LET f == writer[w][o]
    IN  /\ f.phase = "read"
        /\ ~MustWait(w, o)
        /\ SeqTaken(w, o)
        /\ f.attempt + 1 < MaxRetries
        /\ nextId' = nextId + 1
        /\ writer' = [writer EXCEPT ![w][o] =
              [f EXCEPT !.attempt = f.attempt + 1,
                        !.head = [f.head EXCEPT !.seq = @ + 1]]]
        /\ UNCHANGED <<rows, call>>

\* Variant: the retry loop makes one attempt too many.
Collide_OneMore(w, o) ==
    LET f == writer[w][o]
    IN  /\ f.phase = "read"
        /\ ~MustWait(w, o)
        /\ SeqTaken(w, o)
        /\ f.attempt < MaxRetries
        /\ nextId' = nextId + 1
        /\ writer' = [writer EXCEPT ![w][o] =
              [f EXCEPT !.phase = "open", !.attempt = f.attempt + 1]]
        /\ UNCHANGED <<rows, call>>

\* IntegrityError: a fresh transaction, or RuntimeError after the last one.
\* The refused INSERT has used up an id.
Collide(w, o) ==
    LET f == writer[w][o]
    IN  /\ f.phase = "read"
        /\ ~MustWait(w, o)
        /\ SeqTaken(w, o)
        /\ nextId' = nextId + 1
        /\ \/ /\ f.attempt + 1 < MaxRetries
              /\ writer' = [writer EXCEPT ![w][o] =
                    [f EXCEPT !.phase = "open", !.attempt = f.attempt + 1]]
              /\ UNCHANGED call
           \/ /\ f.attempt + 1 = MaxRetries
              /\ writer' = [writer EXCEPT ![w][o] = Idling]
              /\ call' = [call EXCEPT ![f.event] = "error"]
        /\ UNCHANGED rows

\* A database error or the death of the process rolls the transaction back.
RollBack(w, o) ==
    LET f == writer[w][o]
    IN  /\ f.event # NoEvent
        /\ writer' = [writer EXCEPT ![w][o] = Idling]
        /\ call' = [call EXCEPT ![f.event] = "error"]
        /\ UNCHANGED <<rows, nextId>>

WriterStep(w) ==
    \E o \in Org : ReadOrgHead(w, o) \/ InsertRow(w, o) \/ CommitRow(w, o)
                     \/ Collide(w, o)

LocalNext ==
    \/ \E e \in Event : DetailsTooLarge(e)
    \/ \E e \in Event, w \in Worker, o \in Org : TakeLock(e, w, o)
    \/ \E w \in Worker : WriterStep(w) \/ \E o \in Org : RollBack(w, o)

-----------------------------------------------------------------------------
EventHash == Seq(Nat \X Event)
OrgHeadType == [seq : Nat, hash : EventHash]

LocalRow == [org : Org, seq : Nat \ {0}, event : Event, previous : EventHash,
             hash : EventHash]

WriterState == [event : Event \cup {NoEvent}, attempt : 0..(MaxRetries - 1),
                phase : {"open", "read", "inserted"}, head : OrgHeadType, id : Nat]

Outcome == {"new", "writing", "ok", "error"}

\* Types of the state; a write never makes more than MaxRetries attempts.
LocalTypeOK ==
    /\ DOMAIN rows \subseteq Nat
    /\ \A i \in DOMAIN rows : rows[i] \in LocalRow
    /\ nextId \in Nat \ {0}
    /\ writer \in [Worker -> [Org -> WriterState]]
    /\ call \in [Event -> Outcome]

\* Every org's chain passes verify_local_chain, whichever workers append to
\* it and however their retries interleave.
LocalChainsVerify == \A o \in Org : VerifyLocalChain(o)

\* Within one org, rows become visible in the order of their ids: a reader
\* that has seen an id of the org never sees a smaller one appear later.
OrgIdsInOrder ==
    \A i, j \in DOMAIN rows :
        rows[i].org = rows[j].org => (i < j <=> rows[i].seq < rows[j].seq)
=============================================================================
