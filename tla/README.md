# A TLA+ verification of the Cullis Mastio

Cullis puts an organisation's AI agents behind a gateway, the *Mastio*
(`src/mcp_proxy`). It authenticates agents, forwards their tool and model calls,
enforces policy and budgets, and keeps tamper-evident audit chains. Several
Mastios federate through a *Court*, a broker that is not in this repository.
A client library (`src/cullis_sdk`) talks to the Mastio.

The Mastio is an asyncio program that runs as N uvicorn worker processes over one
database (SQLite or Postgres). An `asyncio.Lock` protects one process; between
processes there are only database constraints, advisory locks and `flock`. Most
of what is hard to get right, and almost all that is hard to test, lies there:
two workers reading the same head, a process dying between two commits, a
network call whose answer is lost, a cache refreshed in one worker only. These
are the behaviours the modules are about.

## 1. Inventory

| Component | State | Operations | Hard because | Correct when |
|---|---|---|---|---|
| Primary audit chain: `audit_chain.py`, `log_audit` in `db.py` | `audit_log` (chain_seq, prev_hash, row_hash); per worker `_pending`, two locks, `_INSTANCE`, `_UNHEALTHY` | `log_audit`, `append`, `flush_now`, periodic loop, `stop`, `verify_audit_chain` | workers race for chain_seq; rows are answered for before they are on disk; cancel and crash | the stored chain always verifies; no row twice; the crash window is bounded; loss is noticed; durable mode means durable |
| Local audit: `local/audit.py`, `local/audit_chain.py` | `local_audit`, one chain per org; per-org locks | `append_local_audit`, `verify_local_chain` | as above; an id is given out before its row is visible | every org's chain verifies; ids of an org appear in order |
| Audit replication: `federation/audit_publisher.py` | one cursor in `proxy_config`; the Court's replica | `_tick`, `_publish_batch`, `_write_cursor` | lost answers, partial failure over orgs, restart between answer and cursor | at-least-once, no hole in the replica, eventually complete |
| Mastio signing key: `egress/agent_manager.py`, `auth/local_keystore.py`, `db.py`, `egress/broker_bridge.py` | `mastio_keys` rows; per worker `_active_key`, `_sign_halted`, `_staged_kid`, `_rotation_lock`; the Court's pin | `ensure_mastio_identity`, mint, rotate (stage, propagate, commit), `complete_staged_rotation` | two parties must switch keys together; per-process lock; crash at every step | one signer; the pinned key's private half is never lost; never sign with a key the Court rejects |
| Leader election: `lifespan/leader_election.py` | advisory lock on a connection, or `flock`; `_held` | `acquire` at boot, `release` | a lost connection frees the lock unnoticed; no re-election | as many leaders as lost connections explain; the task goes on after a restart |
| Local messages and sessions: `local/message_queue.py`, `session.py`, `sweeper.py`, `persistence.py` | `local_messages`, sessions in memory and in the database | enqueue, ack, sweep; open, accept, use, close, save, restore | sweeper against handlers; idempotent replay; check before lock; each worker saves its own copy over the row | an answered send is not duplicated; an ack is never undone; a close is final; expired sessions end |
| Enrollment: `enrollment/service.py`, `enrollment/router.py` | `pending_enrollments`, `internal_agents`, nonces | start, approve, reject, poll, list | two admins, expiry at approval, read and UPDATE apart | both tables tell the same story; a nonce attests once |
| Single-use stores: DPoP jti, challenges, nonces, tickets | in memory or Redis | consume | several workers, expiry, restart | consumed at most once |
| Budgets: `egress/budget.py`, `egress/llm_chat_router.py` | a counter per period in Redis or memory, seeded from the audit chain | check, reserve, settle, log | seeding while calls are under way, midnight, lost keys | a charged call's tokens counted once; an undercount has a named cause |
| Rate limits, lockout, breakers | windows and counters per process | check, record | window edges, per-process state | limit holds, lockout ends |
| Anomaly and quarantine: `observability/*` | baselines, `agent_quarantine_events` | evaluate, quarantine, reactivate, expire | event and row are two transactions; expiry deletes the row the id has by then | every quarantine ends |
| Agent certificates and grace: `auth/cert_grace.py` | current and previous certificate and DPoP key, one deadline | replace, rotate, accept, clean up | two kinds of key share the deadline; replacement within grace | a replaced key is accepted for one grace period |
| Anchors: `audit/merkle.py`, `audit/tsa_client.py`, watchers | anchor rows over ranges of the chain | build, stamp, verify | the chain grows while it is anchored | ranges are contiguous, proofs verify |
| Agent publisher: `federation/publisher.py`; sync subscriber | `federation_revision`, `last_pushed_revision`; event cursor | fetch, post, mark; apply | the row changes under a push; late and lost requests | a row marked as pushed is what the Court holds; revocations arrive |
| Updates framework: `updates/*` | pending migrations, shares the sign-halt | boot detection, apply | the halt flag has two owners | critical pending implies halted |
| Key management, policy, tools, auth, gateway, admin, MDM, SDK, deployment | see `PROJECT.json` | | mostly request-local or I/O | |

How they interact. Every handler ends in `log_audit` or `append_local_audit`.
The replication publisher reads what `append_local_audit` committed and signs
its requests with `AgentManager.countersign`, which raises while the signer is
halted. Budgets read the primary chain. Leader election gates the publisher,
the sweeper and the watchers. Key rotation and the updates framework share the
flag `_sign_halted`. The Court pins the Mastio's public key and stores the
replica; both are reached over HTTP and every answer may be lost.

`PROJECT.json` lists each component, including those not modelled, and under
`hazards` the places where the code is exposed, by line.

## 2. Plan

Modules are written in the order of what a failure costs: evidence first, then
identity, then delivery.

| Order | Module | Models | Composes | Status |
|---|---|---|---|---|
| 1 | `AuditLog` | abstract specification: a log that grows at its end, no row twice | | done |
| 2 | `AuditChain` | writers of the primary chain | implements `AuditLog` | done |
| 3 | `AuditChainProofs` | theorems | | done |
| 4 | `LocalAudit` | per-org chains | | done |
| 5 | `AuditPublisher` | replication | `LocalAudit` | done |
| 6 | `MastioKeys` | signing key, rotation, recovery | | done |
| 7 | `MastioKeysProofs` | theorems | | done |
| 8 | `WorkerLeader` | workers and the leader lock of a task | | done |
| 9 | `LocalQueue` | message queue and its sweep | `WorkerLeader` | done |
| 10 | `LocalSessions` | sessions, their saves and their sweep | `WorkerLeader` | done |
| 11 | `Enrollment` | enrollment, attestation nonce, grace period | | done |
| 12 | `AgentRegistry` | agent row, publisher, quarantine | | done |
| 13 | `Budget` | token counters seeded from the chain | an abstract chain | done |
| 14 | `AuditPublisherProofs`, `LocalQueueProofs`, `LocalSessionsProofs`, `EnrollmentProofs`, `AgentRegistryProofs`, `BudgetProofs` | theorems about 4, 5 and 8 to 13 | | done |
| 15 | `Anchors` | Merkle tree as recursive functions, contiguous anchors | `AuditChain` | later |
| 16 | `Updates` | pending critical migrations and the halt they share with rotation | `MastioKeys` | later |
| 17 | in-memory stores | jti, challenges, lockout, breakers | | later |

With rows 3, 7 and 14 every safety property that a passing run checks is also a theorem;
section 5 names them and the hypotheses they need.

## 3. The modules

### AuditChain, AuditLog

A step is the code between two awaits that matter: taking a lock, the SELECT of
the head, the INSERT with its commit, the return. A *row* is a model value that
stands for all the fields the row hash binds.

| Model | Code |
|---|---|
| `table` | `audit_log`, as a function from chain_seq to row, prev and hash |
| `pending`, `writer[w]["chain"]` | `BatchedAuditChain._pending` and the batch held under `_lock` |
| `writer[w]["row"]` | the write under `db._audit_chain_lock` |
| `instance`, `stop` | `_INSTANCE`, progress of `shutdown_singleton` |
| `req`, `at` | outcome of each `log_audit` call and the worker that serves it |
| `unhealthy` | `_UNHEALTHY`, which `/readyz` reports |
| `LogAudit`, `DetailTooLarge` | prologue of `log_audit`: size cap, choice of path |
| `ChainAppend`, `FlushNow`, `PeriodicFlush` | `append`, `flush_now`, `_periodic_flush_loop` |
| `PerRowStart` | per-row path of `log_audit` |
| `ReadHead`, `Insert`, `Retry`, `Exhausted`, `Return` | one attempt of either retry loop and how it ends |
| `DatabaseError` | any other exception, before or after the commit |
| `StopCancel`, `StopDrain`, `Exit`, `Crash` | `stop`, lifespan shutdown, SIGKILL |

The two paths share the actions on the table because they run the same loop with
a batch of one or of many. SHA-256 is collision free: a hash is the list of
everything it commits to. `DurableModes` covers both settings of
`audit_chain_durable`; `audit_chain_disabled` behaves the same as durable.
With `audit_fail_deny` off, a per-row call whose attempts ran out returns without a row:
its outcome is "unrecorded" (`FailedOpen`), and `DurableAck` names it as the only way in
which a call that returned (`Returned`) may lack its row. With the setting on there is
none (theorem `DenyAlwaysAcks`).

### LocalAudit, AuditPublisher

`LocalAudit` separates the INSERT, which draws an id, from the commit, which
makes the row visible, because the publisher pages by id. On Postgres an INSERT
that meets an uncommitted row with the same (org, chain_seq) waits
(`MustWait`); on SQLite there is one open writer (`SingleWriter`). Rolled-back and
refused inserts burn ids. `AuditPublisher` extends it with `_tick`: read the
cursor and a page, send one batch per org in the order of the page, write the
cursor. A failure may come before or after the Court stored the batch. A 4xx answer is
a failure like any other, as in the code; the header of `audit_publisher.py` says the
opposite ("log + skip"). The Court (external) keeps what it does not have under
UNIQUE(org, chain_seq).

### MastioKeys

| Model | Code |
|---|---|
| `keys` | `mastio_keys`: a row is staged (`activated_at` null), active, deprecated, or deleted together with its private key |
| `pin`, `wire`, `CourtHandles` | the Court's `mastio_pubkey`, and the rotation and join requests under way (external) |
| `Onboard` | `GET /v1/admin/mastio-pubkey` of whichever worker answers, whatever it is doing, and the join request that carries the key |
| `active`, `halted`, `staged` | `_active_key`, `_sign_halted`, `_staged_kid` of each worker |
| `phase`, `rot` | where the worker is in boot, rotation or recovery; `_rotation_lock` |
| `Boot`, `DetectStaged`, `TakeMintLock`, `ReadActive`, `Adopt`, `Mint`, `found` | `ensure_mastio_identity`, `_detect_staged_and_maybe_halt`, `_mint_mastio_leaf` |
| `RotateCheck`, `StageRow`, `Propagate`, `CourtAcks`, `PropagatorRaised`, `Commit`, `CommitFails`, `Refresh` | `rotate_mastio_key` and `_rotate_locked`, one action per await; a worker without a `broker_bridge` skips the Court, pinned or not |
| `ReissueReads`, `ReissueStages`, `ReissueCommits`, `ReissueFails`, `Recache` | `rotate_mastio_ca` as far as it concerns the leaf key: it never asks the Court and does not look for a staged row |
| `unasked` | history: keys that became the signer, or were staged for it, without a word to the Court |
| `CompleteStaged`, `ResolveDrop`, `ResolveFails` | `complete_staged_rotation`; activation shares `Commit` and `Refresh` |
| `Crash` | the process dies; memory and locks go, rows and sent requests stay |

`Faults` says which failures a run admits; crashes are always admitted. `Init`
chooses how many of the workers the deployment runs. Key pairs are model
values; that a proof verifies is the condition `pin = r.old`. Operators follow
the code's advice: they activate a staged row when the Court has pinned it and
drop it when not.

The Court pins a key at onboarding, moves the pin for a proof signed by the pinned key and
refuses everything else. A join may arrive late, after rotations that did not ask the Court,
and pin a key that has been retired meanwhile.

Left out: the copy of the key in `LocalIssuer`, the end of the grace period of
deprecated keys, the migration of pre-table keys, the minimum interval between
rotations, halts engaged by the updates framework.

### WorkerLeader

A worker calls `acquire` once, in its lifespan start, and runs the task's loop until it
dies if it won. `lock` is the connection that owns the advisory lock, `held` the
workers whose `_held` is true; `LockDropped` separates the two, as a lost connection
does. `LocalQueue` and `LocalSessions` extend the module and add what a boot and a
crash do to their own state.

### LocalQueue

| Model | Code |
|---|---|
| `msg` | `local_messages`: status, and whether `expires_at` has passed |
| `call`, `EnqueueSelects`, `EnqueueInserts`, `SendAnswered`, `SendFails` | a request to `send_message` or `send_oneshot`: dedupe SELECT, INSERT, answer or error |
| `MarkDelivered`, `acked` | `mark_delivered` behind `ack_message`, and what the recipient was told |
| `sweep`, `SweepSelects`, `SweepUpdates`, `SweepFails` | `sweep_expired`: SELECT with limit, UPDATE without, timeout and rollback |

On Postgres the statements of one transaction are separate steps for everyone else,
so SELECT and write are separate actions. `call[c].after` records which requests had
been answered when c came in: the promise to a retry is about those.

### LocalSessions

| Model | Code |
|---|---|
| `store[w]`, `idle[w]` | `LocalSessionStore` of the worker: status and idleness of its copies |
| `row` | `local_sessions` |
| `save`, `SaveReads`, `SaveLands`, `SaveFails` | `save_session`: called, parameters read once there is a connection, UPSERT committed or failed |
| `RestoreReads`, `fetched`, `RestoreFills`, `Boot` | `restore_sessions`: the SELECT, whose transaction ends, then the filling of the store; then the worker serves |
| `OpenSession`, `OpenRefused`, `AcceptSession`, `CloseSession`, `UseSession`, `LookUp` | handlers of `egress/router.py`; `accept` and `close` hold `store._lock` while they save |
| `stale`, `SweepStarts`, `SweepSession` | `sweep_once`: `find_stale` without the lock, then one session at a time under it |
| `final` | history: closes after which no open copy, no save of one and no restore that had read the row as open was left |

### Enrollment

| Model | Code |
|---|---|
| `enr`, `agent` | `pending_enrollments`; `cert_pem`, `previous_cert_pem` and the deadline in `internal_agents` |
| `nonce`, `IssueNonce`, `NonceRead`, `NonceDeleted`, `NoncePopped` | `issue_nonce` into Redis, memory, or both when the reply to an applied SET is lost; `consume_nonce` as GET then DELETE in Redis, or as one pop in memory |
| `ApproveReads`, `ApproveWrites`, `ApproveReadsOld`, `ApproveAdds`, `ApproveUpdates`, `ApproveConflicts` | `approve`: check and sign; UPDATE of the session, which locks it; read of the agent row; INSERT or UPDATE of it, with the commit; primary key conflict |
| `DeleteAgent` | deletion of the agent row from the dashboard or by the quarantine's expiry pass; an UPDATE under way then finds no row |
| `RejectReads`, `RejectWrites`, `PollReads`, `PollExpires`, `ListExpires` | `reject`, lazy expiry in `get_record`, the guarded UPDATE of `list_pending` |
| `Accepted`, `DeadlinePasses`, `RotateDpopKey`, `GraceCleanup` | `get_agent_from_client_cert`, `is_grace_active`, `register_agent_dpop_jwk`, `_sweep_once` |
| `contested`, `raced`, `doubled`, `dropped`, `due`, `reopened` | history: sessions decided by two requests at once, nonces read twice, nonces in both stores, sessions whose agent was deleted, keys whose grace is over, keys whose deadline was moved |

A session stands for the key pair it enrols. The deadline is "open" or "passed"; a
grace period is longer than a transaction (`NoneCommitting`).

### AgentRegistry

| Model | Code |
|---|---|
| `row` | one row of `internal_agents`: `is_active`, `revoked_at`, `federated`, `federated_at`, `federation_revision`, `last_pushed_revision`, and which row of its id it is |
| `Create`, `SetFederated`, `SetCapabilities`, `Deactivate`, `Revoke`, `Reenroll`, `Delete` | the operations of the admin API, dashboard, MDM and enrollment |
| `Fetch`, `PostAccepted`, `PostRefused`, `PostFails`, `PostTimesOut`, `Mark` | `_fetch_pending`, `_publish_one`, `_mark_pushed` |
| `court`, `late`, `LateServed` | the Court's copy, and requests it may serve after their timeout (external) |
| `events`, `HookInserts`, `HookDeactivates`, `HookFails` | the quarantine hook: event and flip in two transactions |
| `ReactivateReads`, `ReactivateWrites`, `ExpirySelects`, `ExpiryDeletes` | `reactivate_agent`, `run_expiry_once` |
| `mode`, `Restart` | `anomaly_quarantine_mode` as the process started with it; with "off" neither the hook nor the expiry pass runs |
| `ResignCert`, the field `cert` | the migration `org_ca_pathlen_1_20260423`, which rewrites `cert_pem` and leaves the revision alone |

Capabilities and display name change only with the revision, so the number of the row and
its revision stand for them in a body. `is_active` and `cert_pem` also change without one
and are fields of their own.

### Budget

| Model | Code |
|---|---|
| `counter` | the counter of a period: Redis key, or entry of the dictionary of the only process |
| `chain`, `rows` | tokens in `audit_log` rows of the period, and how many such rows there are |
| `GetCounter`, `Seed`, `SetSeed`, `GetAgain`, `SeedMemory` | `_get`: GET, sum over the chain, SET NX, GET; or assignment without Redis. The sum stops at `_USAGE_SCAN_CAP` rows (`ScanCap`), and its window has no upper end |
| `BeginMessages` | `POST /v1/messages`: dispatched whatever the ceiling, never charged, and its row carries tokens |
| `ReserveTokens`, `Dispatch`, `Settle`, `LogAudit`, `RowLands` | the order of `chat_completions`: reservation, provider, settle, audit row, the row on disk |
| `SeedFails`, `GetFails`, `DeltaSkipped`, `KeyLost`, `CallLost`, `ProcessDies` | the error paths of `budget.py`, Redis eviction, a cancelled handler, process death |
| `NextDay`, `SwitchPolicy` | midnight; an admin sets or clears the ceiling |

The tokens a call has in the counter and not yet in the chain are `Held`; `HeldBy` counts
those of all calls as the members of a set, so that the proofs can reason about the total.
`Missed` is what a seed read earlier lacks of today's chain. It enters the allowance when
the key is lost: a seeder that has summed the chain may be overtaken by calls that finish,
and if the key is then evicted its SET NX succeeds with the old sum. An earlier allowance
without it held with two calls; the proof attempt failed on it and TLC confirmed with three.

## 4. Runs

| Run | Instance | Shows |
|---|---|---|
| `chain_faults` | 2 workers, 3 rows, batches of 2, 2 attempts, durable or not, fail-open; crash, shutdown and database errors, with fairness | `ChainVerifies`, `DurableAck`, `CrashWindow`, `EveryCallAnswered`, and `AppendsOnly`: the writers implement `AuditLog` |
| `chain_contention` | 2 workers, 4 rows, fail-deny, contention only, with fairness | `LossIsNoticed`, `RefusedRowAbsent`, `EveryRowSettles` |
| `chain_shutdown` | graceful shutdown only | **violation** of `ShutdownDrains` |
| `publisher` | 2 workers, 3 events, one org, pages of 2, 2 failures, Postgres locking | `LocalChainsVerify`, `OrgIdsInOrder`, `NothingSkipped`, `ReplicaIsPrefix`, `EventuallyReplicated` |
| `publisher_two_orgs` | two orgs in one page | **violation** of `NothingSkipped` |
| `keys` | 1 or 2 workers, 3 key pairs, crashes, failing cleanup and commit, with fairness | `OneActive`, `PinnedKeyKept`, `SignerPinned`, `ActivatedIsPinned`, `StagedResolved` |
| `keys_late_reply` | 1 worker, the Court's answer may be lost | **violation** of `PinnedKeyKept` |
| `queue` | 2 workers, a send and a retry with one key, sweep limit 1, one crash, one lost lock, one failed statement, with fairness | `LeadersBounded`, `RetryNotDuplicated`, `SweepReports`, `LateMessageSettles` |
| `sessions` | 2 workers, one session, one crash, one lost lock, one failed save, with fairness | `CloseIsFinal`, `LeaderSessionsEnd` |
| `enrollment` | 2 sessions, 2 agent ids, a nonce, 2 requests at a time | `RegisteredIsApproved`, `NonceOnce`, `GraceBounded` |
| `registry` | 3 changes of one agent id, 1 quarantine event, 1 fault, every quarantine mode, with fairness | `CourtCurrent`, `RevocationReachesCourt`, `EnforceEventsResolve` |
| `budget` | 2 calls over two days, ceiling 5, reservation 2, up to 3 tokens a call, a scan cap of 1 row, 2 faults, with and without Redis | `CounterExact`, `UnderCountBounded` |

`EveryCallAnswered` has its place in `chain_faults` because that is where a call can be in the
way of something: `stop()` waits for the chain lock behind calls that chose the batched path
before the instance was unregistered, and its drain runs the same retry loop. Durable and
batched writers use one lock each, so no two locks are ever held together.

### What the violations say

*Shutdown.* `stop()` cancels the periodic task before it drains. If that task is
inside `_flush_locked`, the rows are in its local `batch` and no longer in
`_pending`; the transaction rolls back and the drain finds nothing. The threat
model and the settings' documentation say that a graceful shutdown loses nothing.

*Two orgs.* The cursor is one number for all orgs and moves to the largest id
of any accepted batch. If the batch of one org is refused and a later one of the
same tick is accepted, the refused rows are passed over and never sent, although
the code says it blocks there. The skip needs two orgs in one page: the
Mastio's own and the `_system` chain suffice.

*Late reply.* The handler deletes the staged key after any propagator error
because "nothing is pinned on their side yet". A timeout after delivery raises
the same error with the pin already moved, and the deleted row held the only
private key that can now satisfy the Court.

### Where passing runs disagree with the text of the repository

The properties of these runs hold, because they state what the code does; a comment or
docstring says something else. `PROJECT.json` quotes the lines under `findings`.

* *Refused audit batches* (`publisher`). `audit_publisher.py:16` announces that a 4xx is
  skipped. The code blocks on it, as its own comment at 219 explains, and `NothingSkipped` holds.
* *Un-federated agents* (`registry`). The header of `publisher.py` and the admin API say that
  an agent flipped off is revoked at the Court. The body's `revoked` is `not is_active`: an
  active agent that is no longer federated is pushed, marked, and stays active at the Court.
* *Refused agent pushes* (`registry`). The header says the next tick retries a 4xx; the code
  marks the row as pushed.
* *`/v1/messages`* (`budget`). `budget.py` calls its number the cumulative spend of the agent.
  Rows of `POST /v1/messages` are in the chain and not in the counter, until the next seed.
* *Single-use nonces* (`enrollment`). Two requests that both read a nonce both use it, and one that
  is in both stores is accepted twice in sequence.
* *One staged row* (`keys`). `local_keystore.py:173` expects at most one staged row because of
  `_rotation_lock`. The lock is per process and `rotate_mastio_ca` does not look: two rows can
  be staged, and then nothing in the code removes either.

### What the runs leave out on purpose

`MastioKeys` has two more faults, off in `keys` because each breaks a property in
the code as it is. With `"refresh"`, `current_signer` fails after the commit: the
worker keeps signing with the retired key, unhalted, and `SignerPinned` fails.
With `"overlap"`, an operator drops a staged row through one worker while another
is still inside the rotation that staged it, and `PinnedKeyKept` fails.
`SignerPinned` is stated for a deployment of one worker: with two, only the one
that rotates refreshes its cache. `PinnedKeyKept`, `SignerPinned` and `ActivatedIsPinned`
except signers the Court was never asked to pin (`unasked`): a rotation by a worker without
a bridge, a CA rotation, a staged row activated before there was a pin. The code only warns
then (`agent_manager.py:2684`), and the Court rejects what such a signer countersigns; the
pinned key's row is still there, retired. `StagedResolved` excepts two rows staged at once
(`Collided`). A database error in a background flush of the
audit chain loses the batch with nothing but a log line, so `LossIsNoticed` is
stated for contention only.

The later modules state what the code does promise and name the cases it leaves open
as exceptions, kept by history variables:

* `RetryNotDuplicated`: a retry that overlaps the first send may insert a second row;
  there is no unique index on the idempotency key.
* `SweepReports`: a row acked between SELECT and UPDATE is reported expired although it
  is delivered; rows beyond the limit expire unreported.
* `CloseIsFinal`: a close is undone by a worker that still has the session open, by an
  older save that has read an open copy, or by a worker whose restore had read the row
  and not yet filled its store.
* `RegisteredIsApproved`: two requests that decide one session at once both pass the
  check, and the tables may then disagree; after the agent row is deleted, also between
  the read and the UPDATE of an approval, an approved session has no agent. `NonceOnce`:
  two requests that read a nonce before either deletes it both use it, and a nonce in both
  stores is used twice.
* `GraceBounded`: rotating the DPoP key renews the deadline it shares with the replaced
  certificate, which is then accepted past its grace period, or again after it.
* `CourtCurrent` and `RevocationReachesCourt`: a refused push is marked as pushed; a
  quarantine or reactivation flips `is_active`, and the re-signing migration `cert_pem`,
  without a new revision, and neither reaches the Court; a request served after its timeout overwrites a newer body; a row re-created
  under a push of the old one is marked with the old revision. `Delete` removes the row
  without a revocation, though the comment at `dashboard/agents_routes.py:817` leaves it
  to the publisher, which then no longer sees the row. One publisher is assumed: with two
  leaders (`LeadersBounded` allows it after a lost lock) an older body can follow a newer one.
* `EnforceEventsResolve` says that every event ends while the mode is not "off": a restart
  into "off" leaves it open. Nor does it say that only the quarantined row goes: `run_expiry_once` deletes whatever row the id has by then, also one created,
  re-enrolled or reactivated since.
* `UnderCountBounded`: `slack` adds up what each cause may hide. Midnight is one of them:
  a call reserved on one day settles on the next, and the old day keeps the reservation.
  Two need no fault: every row of `POST /v1/messages`, and the rows past the scan cap of a
  seed. `CounterExact` counts both as disturbances.

### Bounds

Two workers suffice for every race over a head or a row: the third would only
repeat the loser's part, except for exhaustion, which `MaxRetries = 2` puts within
reach of two. Batches of two make partial, full and split batches occur; four
rows make two batches collide with two. In `chain_faults`, where every fault interleaves
with everything and liveness rules out symmetry, three rows still give a full batch beside
a partial one. Three key pairs allow a mint, a rotation
and one more rotation after a recovery. `MaxFailures = 2` lets a tick fail, be
repeated and fail differently. Rows, events and kids are finite sets consumed by
the behaviour, so nothing else needs a bound.

In `queue` two rows and a limit of one make the sweep cut its SELECT; one lost lock makes
two sweepers overlap. In `sessions` two stores suffice for one to overwrite the other, and
caps of one make an open be refused; `MaxSaves` keeps one save of a request in flight
besides those of the sweepers. In `enrollment` two requests make every pair of decisions
race, and two sessions for one agent id start a grace period. In `registry` three changes allow create, push, deactivate,
or create, delete, create under a push; the liveness run has one quarantine event, and with two events the
invariants were checked on 6 million states. In `budget` two calls are what two seeders,
or a seeder and a charge, need; the ceiling lies between one and two full calls. A stale
seed that outlives the key needs a third call: with three calls and one fault TLC searched to
depth 21, 12 million states, not exhaustively; the theorems of `BudgetProofs` hold for any number.

### Fairness

`AuditChain`: weak fairness of a worker's own steps: sleeps end, locks are handed
over, database calls return. Requests, faults and signals are not fair.
`AuditPublisher`: weak fairness of the publisher's step and of each writer; the
loop catches every exception and sleeps a bounded time, and the Court fails only
finitely often. `MastioKeys`: weak fairness of the workers and of delivery; crashes
cease; strong fairness of the operator's call and of its success, since rotations
of other workers and database errors may interrupt each attempt but not all.
`LocalQueue`: weak fairness of boots (the supervisor restarts a dead worker) and of the
sweep's two statements; acks, sends and lost locks are not fair. `LocalSessions`: weak
fairness of the saves and of the start of a sweep; strong fairness of sweeping one
session, since `asyncio.Lock` is handed over in order of arrival and requests cannot keep
the sweeper out. `AgentRegistry`: weak fairness of the publisher's own steps, of time and of
the expiry pass; strong fairness of `PostAccepted`, as the Court does not fail for ever.
`Enrollment` and `Budget` promise safety only.

## 5. Proofs

Proved by TLAPS for all values of the constants that satisfy the assumptions named in the
modules (`ChainConstants`, `LocalAuditConstants`, `PublisherConstants`, `KeyConstants`,
`LeaderConstants`, `QueueConstants`, `SessionConstants`, `EnrollmentConstants`,
`RegistryBounds`, `BudgetConstants`): any number of workers, rows, kids, calls or sessions,
any bound on faults, every subset of the faults unless a hypothesis is given. The
assumptions state only that limits are numbers, switches Boolean, counted sets finite, and that
the marker for "nothing" is no member of the sets it stands beside.

| Property | Theorem | Further hypothesis |
|---|---|---|
| `ChainVerifies`, `DurableAck`, `CrashWindow` | `ChainAlwaysVerifies`, `DurableAlwaysAck`, `CrashWindowHolds` | |
| `DurableAck` without its exception | `DenyAlwaysAcks` | `audit_fail_deny` |
| `AppendsOnly` (refinement of `AuditLog`) | `ImplementsLog` | |
| `RefusedRowAbsent` | `RefusedStaysAbsent` | no fault, only contention |
| `LossIsNoticed` | `NoUnnoticedLoss` | no fault, fail-deny at both levels |
| `LocalChainsVerify`, `OrgIdsInOrder` | `ChainsAlwaysVerify`, `IdsFollowSeq` | |
| `NothingSkipped`, `ReplicaIsPrefix` | `CursorSkipsNothing`, `ReplicaStaysPrefix` | one org |
| `OneActive` | `OneActiveAlways` | |
| `PinnedKeyKept`, `ActivatedIsPinned` | `PinnedKeyAlwaysKept`, `ActivationFollowsPin` | `NoLostPin` |
| `SignerPinned` | `LoneSignerPinned` | `NoLostPin`, `RefreshWorks` |
| `LeadersBounded`, `RetryNotDuplicated`, `SweepReports` | `LeadersAreBounded`, `NoDuplicateOnRetry`, `SweepReportsTruly` | |
| `CloseIsFinal` | `ClosesAreFinal` | |
| `RegisteredIsApproved`, `NonceOnce`, `GraceBounded` | `RegistryApproved`, `NonceUsedOnce`, `GracePeriodBounded` | |
| `CourtCurrent` | `CourtIsCurrent` | |
| `CounterExact`, `UnderCountBounded` | `CounterStaysExact`, `UnderCountStaysBounded` | |
| `TypeOK` of each specification | `TypeCorrect`, `KeysTypeCorrect` | |

The hypotheses hold in the runs that check the same properties; section 4 says what the
code does without them.

*`AuditChainProofs`.* `ChainVerifies` is not inductive: whether an INSERT extends the chain
depends on the head its writer read earlier. The invariant `Inv` adds `ChainInv` (for some n
the chain_seq values are 1..n, each prev is the hash of the row before and each hash
that of its row, and every head a writer has read is genesis or one of these rows)
and `BatchInv` (a lock is held for a non-empty batch). An INSERT on a stale head is
then exactly one that UNIQUE(chain_seq) refuses: if the head is not the last row, its
successor is taken. From `ChainInv` it follows that `VerifyAuditChain` finds no gap,
bad link or bad hash from any start. Durable acknowledgement needs `DurableInv`: in
durable mode no instance is registered, no row is queued, and a write that is about to
return has its row in the table, where rows stay. `DenyAlwaysAcks` adds that with
`audit_fail_deny` no call ever fails open.

That a row is never recorded twice, which `AuditLog` demands, needs to know where each row
is: `RowsInv` says that a row is in one place only, a queue, a batch under the lock or
the table, that what its call is waiting for agrees with that place (`Places`), that a row
not yet submitted is nowhere (`FreshOnes`) and that the table holds no row twice
(`TableOnce`). A step of the writers is then an append of `AuditLog` or a stutter.
`CrashWindow` follows from the same places: the rows acknowledged and not recorded are those
of a queue shorter than batch_size, or of a batch while the queue is empty, where the row
whose append filled the batch is not answered yet. `RefusedStaysAbsent` and `NoUnnoticedLoss`
are about contention alone: no worker is stopping (`NotStopping`), and for the second each
answered row is on disk, in its worker's memory, or its loss was noticed (`AllAccounted`).

*`AuditPublisherProofs`.* The local chains again rest on the heads that writers have read:
`LocalInv` is `ChainInv` (ids are handed out upwards, `OrgIdsInOrder`, the seqs of an org
have no hole, each row links to the one before) and `WritersInv` (a head read is a row or
genesis, an uncommitted INSERT is the successor of the last row and apart from every
other). An id is handed out before the commit; ids of one org are still in order because
the uncommitted (org, seq) makes the next writer wait. `DeliveryInv` adds for the publisher
that what was acknowledged is at the Court (`AckedDelivered`) and that a batch leaves out no
id between the cursor and its last (`BatchesClosed`), which later rows cannot disturb. It
needs one org: with two the cursor of the run `publisher_two_orgs` skips rows.

*`MastioKeysProofs`.* `OneActive` needs `OneMinter` (the mint lock admits one worker),
`MinterSawEmpty` (what the lock holder read is still true when it inserts) and
`RotatesFromSigner` (a rotation that is about to stage its row has a signer beside it). A
commit exchanges one signer for another or raises, because both UPDATEs must touch one row.
No fault is excluded.
The pin needs `NoLostPin`: `"late_reply"` and `"overlap"` are not among the faults. TLC shows
that `PinnedKeyKept` needs both exclusions. The invariant `PinInv` follows a key through its
holders. The row of a rotation is staged from before the request is sent until the commit
(`NewIsStaged`), and a request on the wire leads to a staged row and belongs to no worker but
the one that waits for its answer (`WireStaged`, `WireOwned`, `DistinctNew`). A rotation about
to commit has the pin or did not ask (`AckedPinned`), a CA rotation did not (`SwapUnasked`), and
a recovery runs alone with a decision that still agrees with the pin (`RecoversAlone`). Since a
join may carry an old key and arrive late, keys that were once cached, replaced or sent with a
join must still have their row: `OldWasSigner`, `CachedWasSigner`, `JoinsSigner` and
`PinHasRow` say so, and `RetiredFollowed` that a retired key the Court does or may yet pin was
followed by signers the Court was not asked for. Deleting a row is then harmless because no
request for it is left, and retiring the old key because the pin has moved or the new signer is
excepted.
`SignerPinned` is about the worker that is alone, and `SoloInv` states `SoloOK` for it: it mints
before anything else happens (`MintsFirst`), a staged row is its own (`StagedOwn`), and the key
it has cached, or a join took along, fits the pin as far as the halt allows (`Fits`, `JoinFits`,
`SignsPinned`). `RefreshWorks` excludes a refresh that fails after the commit, which would leave
the old key in the cache.

*`LocalQueueProofs`.* `LeadersBounded`: only a lost lock connection adds a believed leader.
`RetryNotDuplicated` speaks of answered sends; `SendInv` extends it to the requests in
between: a row belongs to a send past its SELECT (`RowsHaveSends`), sends that came before
stay answered (`AfterAnswered`), a send that has inserted its row or is about to follows no
answered send of its key (`FirstOfItsKey`), and the id a send will be answered names a row
of its key (`IdNamesRow`). `SweepReports` is an action property, proved from `SweepInv`: the
acked rows are the delivered ones, and a pass knows rows only, all late ones unless its
SELECT was cut at the limit.

*`LocalSessionsProofs`.* A closed session may be opened again by a copy in a store, by a
save that has read one, by a restore that has, or from the table. `FinalInv` says that a close
which counts as final has excluded all four, and that no step brings one back.

*`EnrollmentProofs`.* `GraceBounded` is inductive once it no longer depends on which key is
current: an open deadline of a due key was moved (`OpenDueMoved`). `NonceInv`: a nonce that is
not doubled is in one store, one nobody has read has no users, the users of one that is still
in Redis have yet to delete it, and unless two requests raced for it one request or session
uses it. `TablesInv` relates the two tables: the session a request decides is pending, the
keys of the registry and the old key an approval has read belong to sessions approved for that
agent, except where two decisions contest them, and an approved session's agent has a row
unless it was dropped (`ApprovedHasKey`).

*`AgentRegistryProofs`.* A mark is right if the row has not moved past what the push read, or
has moved past it visibly (`PushUnderWay`), and if an accepted body is still at the Court
when the row is marked (`AcceptedAtCourt`). The excuses the property lists are the ways in
which the code does let the two differ.

*`BudgetProofs`.* `BudgetInv` has three parts. `CallsInv`: only budgeted calls read or settle
the counter and none is ahead of the day. `ExactInv`, for a day nothing has disturbed: an
existing counter is the chain plus what calls hold; while there is none, no call is past its
read and every seed read equals the chain. A row that was never charged and a seed cut by the
scan cap end the day's exactness and enter its allowance. `UnderInv`: an existing counter with its
allowance covers the chain and what calls still owe, where a call of the day before
may owe a full share; without a counter the allowance covers what calls may
still add, and every seed a call has read is that close to the chain too. The total over the
calls is a cardinality, so the lemmas `TotalChange`, `TotalMonotone` and `TotalZero` need no
induction over the set of calls.

Only model-checked: liveness (`EveryCallAnswered`, `EveryRowSettles`, `EventuallyReplicated`,
`StagedResolved`, `LateMessageSettles`, `LeaderSessionsEnd`, `RevocationReachesCourt`,
`EnforceEventsResolve`), since fairness and ENABLED are beyond the prover, and the three
violations, whose counterexamples are TLC's.

## 6. Not modelled

Everything `PROJECT.json` marks `not_modelled`, with the reason, and of the parts marked
`partly` what their note names. The modules cover the code with shared or concurrent
state of its own; most of the 86,000 lines of the repository have none:

* request validation and cryptography of one request (`auth/`, `policy/`), HTTP forwarding
  (`egress/broker_bridge.py`, `tools/`, `ingress/`), configuration, admin CRUD and dashboard
  pages, Vault and MDM I/O, migrations, the client library, scripts and deployment files:
  one request, one statement or no state, where a model would repeat the code;
* code nothing calls: `LocalSessionStore.reject`, `sweep_expired` of `enrollment/service.py`, and
  `ws_manager`, to which no endpoint connects a socket;
* the mirroring of one-shots to the broker and the read-only inbox;
* the anomaly evaluator's statistics (`AgentRegistry` lets it decide at any time), the
  per-minute limiter, a second ceiling beside the first (the counters do not interact);
* the sync subscriber, anchors, the updates framework, jti, challenge and ticket stores,
  lockout and breakers: rows 15 to 17 of the plan.
