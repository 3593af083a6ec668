----------------------------- MODULE AuditChain -----------------------------
(***************************************************************************)
(* The writers of the Mastio's primary audit chain (table audit_log).      *)
(*                                                                         *)
(* Every uvicorn worker runs log_audit() for its requests.  A row goes     *)
(* either through the worker's BatchedAuditChain (queued in memory, hashed *)
(* and inserted a batch at a time) or, when no batched instance is         *)
(* registered or the deployment is in durable mode, through the per-row    *)
(* path.  The two paths take different in-process locks; across workers    *)
(* only UNIQUE(chain_seq) and a bounded retry loop serialise the writers.  *)
(*                                                                         *)
(* A step of this module is the code between two awaits that matter: the   *)
(* lock acquisition, the SELECT of the head, the INSERT with its commit,   *)
(* and the return to the caller.  An audit row is a member of Row: it      *)
(* stands for all the fields the row hash binds.                           *)
(***************************************************************************)
EXTENDS Integers, Sequences, FiniteSets

CONSTANTS
    Worker,              \* the uvicorn worker processes
    Row,                 \* audit rows, one per call of log_audit
    NoWorker,            \* "no worker has taken this call yet"
    BatchSize,           \* settings.audit_chain_batch_size
    MaxRetries,          \* _AUDIT_CHAIN_MAX_RETRIES
    DurableModes,        \* values audit_chain_durable may be deployed with
    FailDeny,            \* settings.audit_fail_deny
    BackgroundFailDeny,  \* BatchedAuditChain(background_fail_deny=...)
    Faults               \* which of "crash", "stop", "db_error" may happen

ASSUME ChainConstants ==
    /\ BatchSize \in Nat \ {0}
    /\ MaxRetries \in Nat \ {0}
    /\ DurableModes \subseteq BOOLEAN
    /\ FailDeny \in BOOLEAN
    /\ BackgroundFailDeny \in BOOLEAN
    /\ Faults \subseteq {"crash", "stop", "db_error"}
    /\ NoWorker \notin Worker

VARIABLES
    table,      \* audit_log: chain_seq -> the row stored there
    durable,    \* settings.audit_chain_durable or audit_chain_disabled
    instance,   \* worker -> is a BatchedAuditChain registered (_INSTANCE)?
    stop,       \* worker -> progress of shutdown_singleton
    pending,    \* worker -> BatchedAuditChain._pending
    writer,     \* worker -> lock -> the write in progress under that lock
    req,        \* row -> progress and outcome of its log_audit call
    at,         \* row -> worker that serves the call
    unhealthy   \* worker -> module flag _UNHEALTHY, read by /readyz

vars == <<table, durable, instance, stop, pending, writer, req, at, unhealthy>>

(***************************************************************************)
(* compute_audit_row_hash.  SHA-256 over a canonical string that contains  *)
(* prev_hash is taken to be collision free, so a digest is represented by  *)
(* everything it commits to: the list of (chain_seq, fields) pairs from    *)
(* genesis to the row.                                                     *)
(***************************************************************************)
RowHash(seq, row, prev) == Append(prev, <<seq, row>>)

GenesisHash == <<>>
Genesis == [seq |-> 0, hash |-> GenesisHash]

\* Variant: an empty table yields -1, as if chain_seq started at zero.
AuditChainHead_ZeroBased(t) ==
    IF DOMAIN t = {} THEN [seq |-> -1, hash |-> GenesisHash]
    ELSE LET last == CHOOSE s \in DOMAIN t : \A u \in DOMAIN t : u <= s
         IN  [seq |-> last, hash |-> t[last].hash]

\* _audit_chain_head: the row with the largest chain_seq, or genesis.
AuditChainHead(t) ==
    IF DOMAIN t = {} THEN Genesis
    ELSE LET last == CHOOSE s \in DOMAIN t : \A u \in DOMAIN t : u <= s
         IN  [seq |-> last, hash |-> t[last].hash]

\* Variant: running_prev is not moved on from row to row.
RunningPrev_Fixed(head, batch, i) == head.hash

\* running_prev after i rows of the batch have been hashed on top of head.
RunningPrev(head, batch, i) ==
    head.hash \o [j \in 1..i |-> <<head.seq + j, batch[j]>>]

\* insert_params of the i-th row of a batch built on top of head.
InsertParams(head, batch, i) ==
    LET prev == RunningPrev(head, batch, i - 1)
    IN  [row  |-> batch[i],
         prev |-> prev,
         hash |-> RowHash(head.seq + i, batch[i], prev)]

\* The chain_seq values a batch claims.
Claimed(head, batch) == (head.seq + 1) .. (head.seq + Len(batch))

\* UNIQUE(chain_seq) accepts the batch only if none of them is taken.
Unique(t, head, batch) == Claimed(head, batch) \cap DOMAIN t = {}

Inserted(t, head, batch) ==
    [s \in DOMAIN t \cup Claimed(head, batch) |->
        IF s \in DOMAIN t THEN t[s]
        ELSE InsertParams(head, batch, s - head.seq)]

(***************************************************************************)
(* verify_audit_chain(start_seq): walk the rows in chain_seq order and     *)
(* report the first that breaks the chain; 0 stands for (True, None).      *)
(***************************************************************************)
VerifyAuditChain(t, start) ==
    LET rows == {s \in DOMAIN t : s >= start}
        first == CHOOSE s \in rows : \A u \in rows : s <= u
        Gap(s) == s # first /\ s - 1 \notin rows
        BadLink(s) ==
            IF s = first THEN start = 1 /\ s = 1 /\ t[s].prev # GenesisHash
            ELSE s - 1 \in rows /\ t[s].prev # t[s - 1].hash
        BadHash(s) == RowHash(s, t[s].row, t[s].prev) # t[s].hash
        broken == {s \in rows : Gap(s) \/ BadLink(s) \/ BadHash(s)}
    IN  IF broken = {} THEN 0
        ELSE CHOOSE s \in broken : \A u \in broken : s <= u

-----------------------------------------------------------------------------
(***************************************************************************)
(* The write in progress under a lock.  "chain" is BatchedAuditChain._lock,*)
(* "row" is db._audit_chain_lock.  by tells who holds the lock: an         *)
(* append() that reached the size threshold, the periodic loop, the drain  *)
(* of stop(), or a per-row log_audit().  phase tells how far the current   *)
(* attempt is: transaction not yet opened, head read, rows committed.      *)
(***************************************************************************)
Lock == {"chain", "row"}

Writing(by, batch) ==
    [by |-> by, batch |-> batch, attempt |-> 0, phase |-> "open",
     head |-> Genesis]

Free == Writing("none", <<>>)

LockFree(w, l) == writer[w][l].by = "none"

\* The row whose log_audit() call waits for the write: the last one queued.
Caller(batch) == batch[Len(batch)]

Init ==
    /\ table = [s \in {} |-> Free]
    /\ durable \in DurableModes
    /\ instance = [w \in Worker |-> ~durable]
    /\ stop = [w \in Worker |-> "no"]
    /\ pending = [w \in Worker |-> <<>>]
    /\ writer = [w \in Worker |-> [l \in Lock |-> Free]]
    /\ req = [r \in Row |-> "new"]
    /\ at = [r \in Row |-> NoWorker]
    /\ unhealthy = [w \in Worker |-> FALSE]

\* log_audit up to the choice of path: batched when an instance is registered.
LogAudit(r, w) ==
    /\ req[r] = "new"
    /\ at' = [at EXCEPT ![r] = w]
    /\ req' = [req EXCEPT ![r] =
                 IF instance[w] /\ ~durable THEN "append" ELSE "per_row"]
    /\ UNCHANGED <<table, durable, instance, stop, pending, writer, unhealthy>>

\* _enforce_audit_detail_size refuses the row before any chain work.
DetailTooLarge(r, w) ==
    /\ req[r] = "new"
    /\ at' = [at EXCEPT ![r] = w]
    /\ req' = [req EXCEPT ![r] = "refused"]
    /\ UNCHANGED <<table, durable, instance, stop, pending, writer, unhealthy>>

\* Variant: the size threshold is compared with > instead of >=.
ChainAppend_Beyond(r) ==
    LET w == at[r]
        queued == Append(pending[w], r)
    IN  /\ req[r] = "append"
        /\ LockFree(w, "chain")
        /\ \/ /\ Len(queued) <= BatchSize
              /\ pending' = [pending EXCEPT ![w] = queued]
              /\ req' = [req EXCEPT ![r] = "ok"]
              /\ UNCHANGED writer
           \/ /\ Len(queued) > BatchSize
              /\ pending' = [pending EXCEPT ![w] = <<>>]
              /\ writer' = [writer EXCEPT ![w]["chain"] =
                              Writing("append", queued)]
              /\ req' = [req EXCEPT ![r] = "flushing"]
        /\ UNCHANGED <<table, durable, instance, stop, at, unhealthy>>

\* BatchedAuditChain.append: queue, and flush at the size threshold.
ChainAppend(r) ==
    LET w == at[r]
        queued == Append(pending[w], r)
    IN  /\ req[r] = "append"
        /\ LockFree(w, "chain")
        /\ \/ /\ Len(queued) < BatchSize
              /\ pending' = [pending EXCEPT ![w] = queued]
              /\ req' = [req EXCEPT ![r] = "ok"]
              /\ UNCHANGED writer
           \/ /\ Len(queued) >= BatchSize
              /\ pending' = [pending EXCEPT ![w] = <<>>]
              /\ writer' = [writer EXCEPT ![w]["chain"] =
                              Writing("append", queued)]
              /\ req' = [req EXCEPT ![r] = "flushing"]
        /\ UNCHANGED <<table, durable, instance, stop, at, unhealthy>>

\* Variant: the queue is not emptied when its rows are taken.
FlushNow_Keep(w, by) ==
    /\ LockFree(w, "chain")
    /\ pending[w] # <<>>
    /\ writer' = [writer EXCEPT ![w]["chain"] = Writing(by, pending[w])]
    /\ UNCHANGED pending

\* flush_now(propagate=False) under the lock, if anything is queued.
FlushNow(w, by) ==
    /\ LockFree(w, "chain")
    /\ pending[w] # <<>>
    /\ writer' = [writer EXCEPT ![w]["chain"] = Writing(by, pending[w])]
    /\ pending' = [pending EXCEPT ![w] = <<>>]

\* Variant: the loop only flushes full batches.
PeriodicFlush_Full(w) ==
    /\ instance[w]
    /\ Len(pending[w]) >= BatchSize
    /\ FlushNow(w, "loop")
    /\ UNCHANGED <<table, durable, instance, stop, req, at, unhealthy>>

\* One round of _periodic_flush_loop.
PeriodicFlush(w) ==
    /\ instance[w]
    /\ FlushNow(w, "loop")
    /\ UNCHANGED <<table, durable, instance, stop, req, at, unhealthy>>

\* Variant: the call is answered before its row is written.
PerRowStart_AnswerFirst(r) ==
    LET w == at[r]
    IN  /\ req[r] = "per_row"
        /\ LockFree(w, "row")
        /\ writer' = [writer EXCEPT ![w]["row"] = Writing("log_audit", <<r>>)]
        /\ req' = [req EXCEPT ![r] = "ok"]
        /\ UNCHANGED <<table, durable, instance, stop, pending, at, unhealthy>>

\* The per-row path of log_audit takes _audit_chain_lock.
PerRowStart(r) ==
    LET w == at[r]
    IN  /\ req[r] = "per_row"
        /\ LockFree(w, "row")
        /\ writer' = [writer EXCEPT ![w]["row"] = Writing("log_audit", <<r>>)]
        /\ req' = [req EXCEPT ![r] = "writing"]
        /\ UNCHANGED <<table, durable, instance, stop, pending, at, unhealthy>>

\* A transaction is opened and the head of the chain is read.
ReadHead(w, l) ==
    /\ ~LockFree(w, l)
    /\ writer[w][l].phase = "open"
    /\ writer' = [writer EXCEPT ![w][l] =
                    [@ EXCEPT !.phase = "read", !.head = AuditChainHead(table)]]
    /\ UNCHANGED <<table, durable, instance, stop, pending, req, at, unhealthy>>

\* The INSERT of the whole batch succeeds and the database commits.
Insert(w, l) ==
    LET f == writer[w][l]
    IN  /\ f.phase = "read"
        /\ Unique(table, f.head, f.batch)
        /\ table' = Inserted(table, f.head, f.batch)
        /\ writer' = [writer EXCEPT ![w][l] = [f EXCEPT !.phase = "done"]]
        /\ UNCHANGED <<durable, instance, stop, pending, req, at, unhealthy>>

\* Variant: the loop is not left after a successful INSERT.
Conflict_NoReturn(f) ==
    f.phase = "done" \/ (f.phase = "read" /\ ~Unique(table, f.head, f.batch))

\* IntegrityError: another writer has claimed one of the chain_seq values.
Conflict(f) == f.phase = "read" /\ ~Unique(table, f.head, f.batch)

\* range(_AUDIT_CHAIN_MAX_RETRIES) has another attempt to give.
AttemptsLeft(f) == f.attempt + 1 < MaxRetries

\* The loop goes round: the head is read again and the batch hashed again.
Retry(w, l) ==
    LET f == writer[w][l]
    IN  /\ Conflict(f)
        /\ AttemptsLeft(f)
        /\ writer' = [writer EXCEPT ![w][l] =
              [f EXCEPT !.phase = "open", !.attempt = f.attempt + 1]]
        /\ UNCHANGED <<table, durable, instance, stop, pending, req, at,
                       unhealthy>>

-----------------------------------------------------------------------------
\* Variant: the lock is not released.
Finish_Locked(w, l, answer) ==
    LET f == writer[w][l]
    IN  /\ req' = IF f.by \in {"append", "log_audit"}
                  THEN [req EXCEPT ![Caller(f.batch)] = answer] ELSE req
        /\ stop' = IF f.by = "stop"
                   THEN [stop EXCEPT ![w] = "stopped"] ELSE stop
        /\ UNCHANGED <<writer, durable, instance, pending, at>>

(***************************************************************************)
(* How a write ends: the lock is released, a waiting log_audit() call gets *)
(* its answer, and stop() returns if the flush was its drain.              *)
(***************************************************************************)
Finish(w, l, answer) ==
    LET f == writer[w][l]
    IN  /\ writer' = [writer EXCEPT ![w][l] = Free]
        /\ req' = IF f.by \in {"append", "log_audit"}
                  THEN [req EXCEPT ![Caller(f.batch)] = answer] ELSE req
        /\ stop' = IF f.by = "stop"
                   THEN [stop EXCEPT ![w] = "stopped"] ELSE stop
        /\ UNCHANGED <<durable, instance, pending, at>>

\* The transaction context is left normally.
Return(w, l) ==
    /\ writer[w][l].phase = "done"
    /\ Finish(w, l, "ok")
    /\ UNCHANGED <<table, unhealthy>>

\* Variant: an exhausted background flush does not mark the worker.
Exhausted_Silent(w, l) ==
    LET f == writer[w][l]
    IN  /\ Conflict(f)
        /\ ~AttemptsLeft(f)
        /\ Finish(w, l, IF FailDeny THEN "error" ELSE "unrecorded")
        /\ UNCHANGED <<table, unhealthy>>

(***************************************************************************)
(* The attempts are used up and the rows are dropped.  audit_fail_deny     *)
(* turns this into an error for a waiting call; without one (periodic loop *)
(* or drain) the worker is marked unhealthy for /readyz.                   *)
(***************************************************************************)
Exhausted(w, l) ==
    LET f == writer[w][l]
    IN  /\ Conflict(f)
        /\ ~AttemptsLeft(f)
        /\ Finish(w, l, IF FailDeny THEN "error" ELSE "unrecorded")
        /\ unhealthy' = [unhealthy EXCEPT ![w] =
              @ \/ (f.by \in {"loop", "stop"} /\ BackgroundFailDeny)]
        /\ UNCHANGED table

(***************************************************************************)
(* Any other database error leaves the retry loop at once, before or after *)
(* the commit.  The batch was already taken out of _pending.  append() and *)
(* log_audit() propagate the error to the request; the periodic loop logs  *)
(* it; main.py logs it for stop().                                         *)
(***************************************************************************)
DatabaseError(w, l) ==
    /\ "db_error" \in Faults
    /\ ~LockFree(w, l)
    /\ Finish(w, l, "error")
    /\ UNCHANGED <<table, unhealthy>>

-----------------------------------------------------------------------------
(***************************************************************************)
(* Shutdown and crash of a worker.                                         *)
(***************************************************************************)

\* shutdown_singleton unregisters the instance; stop() cancels the loop,
\* and with it a flush the loop has in progress: if its transaction has not
\* committed yet it rolls back.
StopCancel(w) ==
    /\ "stop" \in Faults
    /\ instance[w]
    /\ instance' = [instance EXCEPT ![w] = FALSE]
    /\ stop' = [stop EXCEPT ![w] = "draining"]
    /\ writer' = [writer EXCEPT ![w]["chain"] =
                    IF @.by = "loop" THEN Free ELSE @]
    /\ UNCHANGED <<table, durable, pending, req, at, unhealthy>>

\* The flush_now() at the end of stop().  asyncio.Lock is first come first
\* served, so every append() made before the instance was unregistered has
\* had the lock by then.
StopDrain(w) ==
    /\ stop[w] = "draining"
    /\ \A r \in Row : at[r] = w => req[r] # "append"
    /\ \/ FlushNow(w, "stop") /\ UNCHANGED stop
       \/ /\ LockFree(w, "chain")
          /\ pending[w] = <<>>
          /\ stop' = [stop EXCEPT ![w] = "stopped"]
          /\ UNCHANGED <<writer, pending>>
    /\ UNCHANGED <<table, durable, instance, req, at, unhealthy>>

\* A fresh process takes the worker's place; its memory starts empty.
NewProcess(w) ==
    /\ instance' = [instance EXCEPT ![w] = ~durable]
    /\ stop' = [stop EXCEPT ![w] = "no"]
    /\ pending' = [pending EXCEPT ![w] = <<>>]
    /\ writer' = [writer EXCEPT ![w] = [l \in Lock |-> Free]]
    /\ req' = [r \in Row |->
                 IF at[r] = w /\ req[r] \in {"append", "flushing",
                                             "per_row", "writing"}
                 THEN "error" ELSE req[r]]
    /\ unhealthy' = [unhealthy EXCEPT ![w] = FALSE]
    /\ UNCHANGED <<table, durable, at>>

\* After the lifespan shutdown the process exits and is started again.
Exit(w) == stop[w] = "stopped" /\ NewProcess(w)

\* SIGKILL, OOM or power loss at any point.
Crash(w) == "crash" \in Faults /\ NewProcess(w)

Answered(r) == req[r] \in {"ok", "error", "unrecorded", "refused"}

\* Every call has been answered and no write is in progress.
Quiescent ==
    /\ \A r \in Row : Answered(r)
    /\ \A w \in Worker, l \in Lock : LockFree(w, l)

Idle == Quiescent /\ UNCHANGED vars

\* The steps the event loop of worker w takes by itself.
WorkerStep(w) ==
    \/ \E r \in Row : at[r] = w /\ (ChainAppend(r) \/ PerRowStart(r))
    \/ PeriodicFlush(w)
    \/ \E l \in Lock :
          ReadHead(w, l) \/ Insert(w, l) \/ Retry(w, l)
            \/ Return(w, l) \/ Exhausted(w, l)
    \/ StopDrain(w)

Next ==
    \/ \E r \in Row, w \in Worker : LogAudit(r, w) \/ DetailTooLarge(r, w)
    \/ \E w \in Worker :
          \/ WorkerStep(w)
          \/ \E l \in Lock : DatabaseError(w, l)
          \/ StopCancel(w) \/ Exit(w) \/ Crash(w)
    \/ Idle

Spec == Init /\ [][Next]_vars

\* The event loop keeps running: sleeps end, locks are handed over and
\* database calls return.  Requests, faults and signals need not happen.
FairSpec == Spec /\ \A w \in Worker : WF_vars(WorkerStep(w))

-----------------------------------------------------------------------------
(***************************************************************************)
(* Properties.                                                             *)
(***************************************************************************)
Answer == {"ok", "error", "unrecorded", "refused"}
InCall == {"append", "flushing", "per_row", "writing"}
WriteBy == {"none", "append", "loop", "stop", "log_audit"}

Digest == Seq(Nat \X Row)
StoredRow == [row : Row, prev : Digest, hash : Digest]
ChainHead == [seq : Nat, hash : Digest]

TableType ==
    /\ DOMAIN table \subseteq Nat \ {0}
    /\ \A s \in DOMAIN table : table[s] \in StoredRow

WriterType ==
    [by : WriteBy, batch : Seq(Row), attempt : Nat,
     phase : {"open", "read", "done"}, head : ChainHead]

ProcessType ==
    /\ durable \in BOOLEAN
    /\ instance \in [Worker -> BOOLEAN]
    /\ stop \in [Worker -> {"no", "draining", "stopped"}]
    /\ pending \in [Worker -> Seq(Row)]
    /\ writer \in [Worker -> [Lock -> WriterType]]
    /\ unhealthy \in [Worker -> BOOLEAN]

CallType ==
    /\ req \in [Row -> {"new"} \cup InCall \cup Answer]
    /\ at \in [Row -> Worker \cup {NoWorker}]

\* Types of the state.
TypeOK == TableType /\ ProcessType /\ CallType

\* Whatever the workers, faults and restarts interleave to, the rows on disk
\* pass verify_audit_chain, from the genesis row and from every later
\* start_seq: no gap, no fork, no link computed over a stale head.
ChainVerifies ==
    \A s \in {1} \cup DOMAIN table : VerifyAuditChain(table, s) = 0

Recorded(r) == \E s \in DOMAIN table : table[s].row = r

\* Rows that live only in the memory of worker w.
InMemory(w) ==
    {r \in Row : \/ \E i \in DOMAIN pending[w] : pending[w][i] = r
                 \/ \E l \in Lock : \E i \in DOMAIN writer[w][l].batch :
                       writer[w][l].batch[i] = r}

\* The call came back to its caller without raising.
Returned(r) == req[r] \in {"ok", "unrecorded"}

\* The attempts of the call ran out and audit_fail_deny is off: log_audit()
\* logs the row at CRITICAL and returns without it (db.py:810-815).
FailedOpen(r) == ~FailDeny /\ req[r] = "unrecorded"

\* In durable mode (the per-row path) a log_audit() call that returned has
\* its row on disk, through crashes, shutdowns and database errors; the one
\* exception is a call that failed open, which a deployment with
\* audit_fail_deny on does not have.
DurableAck ==
    durable => \A r \in Row : Returned(r) => Recorded(r) \/ FailedOpen(r)

\* The crash-loss window of a worker, the rows already answered for that
\* only its memory holds, is smaller than batch_size rows.
CrashWindow ==
    \A w \in Worker :
        Cardinality({r \in InMemory(w) : req[r] = "ok" /\ ~Recorded(r)})
            < BatchSize

\* An answered row that is neither on disk nor in its worker's memory.
Lost(r) == req[r] = "ok" /\ ~Recorded(r) /\ r \notin InMemory(at[r])

\* Worker w left rotation, or answered some call with an error.
Noticed(w) ==
    /\ w \in Worker
    /\ unhealthy[w] \/ \E q \in Row : req[q] = "error" /\ at[q] = w

\* Under contention alone, audit evidence is never lost unnoticed: when a row
\* that was answered for is dropped, its worker is out of rotation (unhealthy)
\* or has answered a call with an error (_flush_locked).  Which call that was
\* is not told apart: one error of the worker covers its later losses.
LossIsNoticed == \A r \in Row : Lost(r) => Noticed(at[r])

\* Under contention alone, a call answered with an error has left no row.
RefusedRowAbsent ==
    \A r \in Row : req[r] \in {"error", "refused"} => ~Recorded(r)

\* Every log_audit() call that was begun is answered, also one that waits for
\* the chain lock behind flushes and retries when stop() comes and queues for
\* the same lock, one sent to the per-row path while the drain still writes, and
\* one whose write ends in a database error (append, flush_now, stop).  A call
\* is made once, so it is enough that the workers always get to a state with no
\* open call.
EveryCallAnswered ==
    (\E r \in Row : req[r] \in InCall) ~> (\A r \in Row : req[r] \notin InCall)

Unsettled(r) == req[r] = "ok" /\ ~Recorded(r) /\ ~Noticed(at[r])

\* Every answered row reaches the disk, or its loss is noticed: nothing is
\* left in a queue forever, however few rows arrive.
EveryRowSettles ==
    (\E r \in Row : Unsettled(r)) ~> (\A r \in Row : ~Unsettled(r))

\* What the operator documentation promises of SIGTERM: once the shutdown
\* has drained the queue, no answered row of that worker is missing.
ShutdownDrains ==
    \A r \in Row : at[r] \in Worker /\ stop[at[r]] = "stopped" => ~Lost(r)

\* The rows in chain_seq order, as the log of AuditLog.
RowLog == [s \in DOMAIN table |-> table[s].row]
Log == INSTANCE AuditLog WITH log <- RowLog

\* The workers together implement an append-only log: a commit adds a whole
\* batch behind the last row, rewrites nothing, and no retry, re-flush or
\* restart writes a row a second time.
AppendsOnly == Log!Spec
=============================================================================
