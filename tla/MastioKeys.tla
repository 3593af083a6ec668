----------------------------- MODULE MastioKeys -----------------------------
(***************************************************************************)
(* The Mastio signing key: the mastio_keys table, the copy of the active   *)
(* key each worker process caches, the rotation that stages a new key,     *)
(* has the Court pin it and only then activates it, the recovery of a      *)
(* rotation that stopped half way, and the new key that comes with a       *)
(* rotation of the Intermediate CA (egress/agent_manager.py,               *)
(* auth/local_keystore.py, db.py, egress/broker_bridge.py).                *)
(*                                                                         *)
(* One step is one database transaction or one network event.  The         *)
(* rotation lock is an asyncio.Lock, so it is per process: a worker runs   *)
(* one rotation or recovery at a time and workers interleave freely.  The  *)
(* Court is external: it pins a first key at onboarding, swaps its pin     *)
(* when the proof is signed by the key it has pinned, and refuses          *)
(* otherwise.                                                              *)
(***************************************************************************)
CONSTANTS
    Worker,     \* uvicorn worker processes that may share the database
    Kid,        \* key pairs that may be generated: bounds mints and rotations
    NoKey,      \* None
    Faults      \* what may go wrong besides a crash, which always may

(***************************************************************************)
(* "cleanup"     delete_staged_mastio_key fails after a propagator error   *)
(* "commit"      activate_staged_and_deprecate_old fails in the database,  *)
(*               or the swap of the Intermediate CA after it               *)
(* "refresh"     current_signer fails after the commit                     *)
(* "late_reply"  the Court pins the key but its answer never arrives       *)
(* "overlap"     the operator resolves through one worker while another    *)
(*               one is inside a rotation, a recovery or a boot, or while  *)
(*               a rotation request is still on its way to the Court       *)
(***************************************************************************)
FaultKinds == {"cleanup", "commit", "refresh", "late_reply", "overlap"}

ASSUME KeyConstants ==
    /\ NoKey \notin Kid
    /\ Faults \subseteq FaultKinds

VARIABLES
    keys,     \* mastio_keys: kid -> state of its row
    pin,      \* organizations.mastio_pubkey at the Court
    wire,     \* requests on their way to the Court: rotations, and joins with old = NoKey
    phase,    \* what each worker is doing
    rot,      \* old and new kid of the worker's rotation or recovery
    found,    \* active rows the worker read under the mint lock
    active,   \* AgentManager._active_key
    halted,   \* AgentManager._sign_halted
    staged,   \* AgentManager._staged_kid
    unasked   \* history: keys made the signer without a word to the Court

vars == <<keys, pin, wire, phase, rot, found, active, halted, staged, unasked>>

-----------------------------------------------------------------------------
(* The views of the table. *)

\* "unused": not generated; "deleted": the row and its private key are gone.
RowState == {"unused", "staged", "active", "deprecated", "deleted"}

\* get_mastio_keys_active
Active == {k \in Kid : keys[k] = "active"}

\* get_mastio_keys_staged
Staged == {k \in Kid : keys[k] = "staged"}

\* LocalKeyStore.current_signer returns k; it raises on none and on several.
CurrentSigner(k) == Active = {k}

NoRotation == [old |-> NoKey, new |-> NoKey]

Booting == {"detect", "mint", "reading", "adopting", "minting"}
Rotating == {"checked", "staged", "sent", "acked", "refresh", "reissue", "swap", "recache"}
Recovering == {"activate", "drop"}
Phase == {"absent", "down", "idle"} \cup Booting \cup Rotating \cup Recovering

AtRest(w) == phase[w] \in {"absent", "down", "idle"}

\* Variant: the mint is not serialised.
MintLockFree_Always == TRUE

\* _acquire_mastio_mint_lock: flock on SQLite, an advisory lock on Postgres.
MintLockFree == \A v \in Worker : phase[v] \notin {"reading", "adopting", "minting"}

\* The deployment runs some of the workers; the others stay absent.
Deployed == {w \in Worker : phase[w] # "absent"}

Init ==
    /\ keys = [k \in Kid |-> "unused"]
    /\ pin = NoKey
    /\ wire = {}
    /\ phase \in [Worker -> {"down", "absent"}]
    /\ \E w \in Worker : phase[w] = "down"
    /\ rot = [w \in Worker |-> NoRotation]
    /\ found = [w \in Worker |-> {}]
    /\ active = [w \in Worker |-> NoKey]
    /\ halted = [w \in Worker |-> FALSE]
    /\ staged = [w \in Worker |-> NoKey]
    /\ unasked = {}

Enter(w, p) == phase' = [phase EXCEPT ![w] = p]

\* The operation returns or raises: the rotation lock is released.
Leave(w) == Enter(w, "idle") /\ rot' = [rot EXCEPT ![w] = NoRotation]

Halt(w, kid) ==
    /\ halted' = [halted EXCEPT ![w] = TRUE]
    /\ staged' = [staged EXCEPT ![w] = kid]

LiftHalt(w) ==
    /\ halted' = [halted EXCEPT ![w] = FALSE]
    /\ staged' = [staged EXCEPT ![w] = NoKey]

-----------------------------------------------------------------------------
(* Boot. *)

\* ensure_mastio_identity: cache the active key, or go and mint one.
Boot(w) ==
    /\ phase[w] = "down"
    /\ \/ \E k \in Active :
            /\ CurrentSigner(k)
            /\ active' = [active EXCEPT ![w] = k]
            /\ Enter(w, "detect")
       \/ /\ \A k \in Active : ~CurrentSigner(k)
          /\ Enter(w, "mint")
          /\ UNCHANGED active
    /\ UNCHANGED <<keys, pin, wire, rot, found, halted, staged, unasked>>

\* Variant: a staged row found at boot is ignored.
DetectStaged_Ignore(w) ==
    /\ phase[w] = "detect"
    /\ Enter(w, "idle")
    /\ UNCHANGED <<keys, pin, wire, rot, found, active, halted, staged, unasked>>

\* _detect_staged_and_maybe_halt: several staged rows halt without a kid.
DetectStaged(w) ==
    /\ phase[w] = "detect"
    /\ \/ Staged = {} /\ UNCHANGED <<halted, staged>>
       \/ \E k \in Staged : Staged = {k} /\ Halt(w, k)
       \/ (\E j, k \in Staged : j # k) /\ Halt(w, staged[w])
    /\ Enter(w, "idle")
    /\ UNCHANGED <<keys, pin, wire, rot, found, active, unasked>>

\* _mint_mastio_leaf takes the mint lock before it looks at the table again.
TakeMintLock(w) ==
    /\ phase[w] = "mint"
    /\ MintLockFree
    /\ Enter(w, "reading")
    /\ UNCHANGED <<keys, pin, wire, rot, found, active, halted, staged, unasked>>

\* get_mastio_keys_active under the lock: adopt what a sibling minted, or mint.
ReadActive(w) ==
    /\ phase[w] = "reading"
    /\ found' = [found EXCEPT ![w] = Active]
    /\ Enter(w, IF Active = {} THEN "minting" ELSE "adopting")
    /\ UNCHANGED <<keys, pin, wire, rot, active, halted, staged, unasked>>

\* The newest of the rows that were read is adopted and the others, where
\* still active, are retired.  The order of activation times is left open.
Adopt(w) ==
    /\ phase[w] = "adopting"
    /\ \E newest \in found[w] :
         /\ keys' = [k \in Kid |-> IF k \in (found[w] \ {newest}) \cap Active
                                   THEN "deprecated" ELSE keys[k]]
         /\ active' = [active EXCEPT ![w] = newest]
    /\ found' = [found EXCEPT ![w] = {}]
    /\ Enter(w, "idle")
    /\ UNCHANGED <<pin, wire, rot, halted, staged, unasked>>

\* A generated pair has a kid never seen before.
InsertKey(k, state) ==
    /\ keys[k] = "unused"
    /\ keys' = [keys EXCEPT ![k] = state]

\* No active row under the lock: generate a pair and insert it as active.
Mint(w) ==
    /\ phase[w] = "minting"
    /\ \E k \in Kid :
         /\ InsertKey(k, "active")
         /\ active' = [active EXCEPT ![w] = k]
    /\ Enter(w, "idle")
    /\ UNCHANGED <<pin, wire, rot, found, halted, staged, unasked>>

\* get_mastio_pubkey hands out the cached key of whichever worker answers, and
\* the join request that takes it to the Court is on its way.  An organization
\* joins once: the Court pins the first key that arrives.
Onboard(w) ==
    /\ pin = NoKey
    /\ active[w] # NoKey
    /\ wire' = wire \cup {[old |-> NoKey, new |-> active[w]]}
    /\ UNCHANGED <<keys, pin, phase, rot, found, active, halted, staged, unasked>>

-----------------------------------------------------------------------------
(* Rotation. *)

\* rotate_mastio_key and the two checks under the lock.  A call that fails
\* them raises and changes nothing.
RotateCheck(w) ==
    /\ phase[w] = "idle"
    /\ active[w] # NoKey
    /\ CurrentSigner(active[w])
    /\ Staged = {}
    /\ \E k \in Kid :
         /\ keys[k] = "unused"
         /\ \A v \in Worker : rot[v].new # k
         /\ rot' = [rot EXCEPT ![w] = [old |-> active[w], new |-> k]]
    /\ Enter(w, "checked")
    /\ UNCHANGED <<keys, pin, wire, active, halted, staged, found, unasked>>

\* The new private key is on disk before the Court hears of it.
StageRow(w) ==
    /\ phase[w] = "checked"
    /\ InsertKey(rot[w].new, "staged")
    /\ Enter(w, "staged")
    /\ UNCHANGED <<pin, wire, rot, found, active, halted, staged, unasked>>

\* propagate_mastio_key_rotation, when the worker has a broker_bridge: that is
\* a matter of its configuration and of link and unlink, not of the pin.  A
\* worker without one logs a warning and goes straight to the commit.
Propagate(w) ==
    /\ phase[w] = "staged"
    /\ \/ /\ wire' = wire \cup {rot[w]}
          /\ Enter(w, "sent")
          /\ UNCHANGED unasked
       \/ /\ unasked' = unasked \cup {rot[w].new}
          /\ Enter(w, "acked")
          /\ UNCHANGED wire
    /\ UNCHANGED <<keys, pin, rot, found, active, halted, staged>>

\* The Court: the pin moves only for a proof signed by the pinned key, and for
\* a join while there is none.
CourtHandles(r) ==
    /\ r \in wire
    /\ wire' = wire \ {r}
    /\ \/ pin = r.old /\ pin' = r.new /\ unasked' = unasked \ {r.new}
       \/ pin # r.old /\ UNCHANGED <<pin, unasked>>
    /\ UNCHANGED <<keys, phase, rot, found, active, halted, staged>>

\* A 2xx answer: the pin is on the new key.
CourtAcks(w) ==
    /\ phase[w] = "sent"
    /\ rot[w] \notin wire
    /\ pin = rot[w].new
    /\ Enter(w, "acked")
    /\ UNCHANGED <<keys, pin, wire, rot, found, active, halted, staged, unasked>>

\* delete_staged_mastio_key deletes nothing but a staged row.
Drop(kid) == keys' = [keys EXCEPT ![kid] = IF @ = "staged" THEN "deleted" ELSE @]

\* Variant: the propagator's error is swallowed and the rotation goes on.
PropagatorRaised_Swallowed(w) ==
    /\ phase[w] = "sent"
    /\ pin # rot[w].new
    /\ wire' = wire \ {rot[w]}
    /\ Enter(w, "acked")
    /\ UNCHANGED <<keys, pin, rot, found, active, halted, staged, unasked>>

\* The Court refused, or was not reached, or ("late_reply") the call failed
\* with the request already delivered or still on its way.  The handler drops
\* the staged row, best effort, and re-raises.
PropagatorRaised(w) ==
    /\ phase[w] = "sent"
    /\ pin # rot[w].new \/ "late_reply" \in Faults
    /\ wire' \in {wire \ {rot[w]}}
                 \cup (IF "late_reply" \in Faults THEN {wire} ELSE {})
    /\ \/ Drop(rot[w].new)
       \/ "cleanup" \in Faults /\ UNCHANGED keys
    /\ Leave(w)
    /\ UNCHANGED <<pin, active, halted, staged, found, unasked>>

\* Both UPDATEs of activate_staged_and_deprecate_old touch one row.
CanCommit(r) == keys[r.new] = "staged" /\ keys[r.old] = "active"

Committed(r) == [keys EXCEPT ![r.new] = "active", ![r.old] = "deprecated"]

\* The transaction that flips the signer, in a rotation or a recovery.
Commit(w) ==
    /\ phase[w] \in {"acked", "activate"}
    /\ CanCommit(rot[w])
    /\ keys' = Committed(rot[w])
    /\ Enter(w, "refresh")
    /\ UNCHANGED <<pin, wire, rot, found, active, halted, staged, unasked>>

\* Variant: the staged row is dropped when the commit fails.
CommitFails_Drop(w) ==
    /\ phase[w] = "acked"
    /\ ~CanCommit(rot[w]) \/ "commit" \in Faults
    /\ Drop(rot[w].new)
    /\ Leave(w)
    /\ UNCHANGED <<pin, wire, active, halted, staged, found, unasked>>

\* The row stays staged and the worker stops signing.
CommitFails(w) ==
    /\ phase[w] = "acked"
    /\ ~CanCommit(rot[w]) \/ "commit" \in Faults
    /\ Halt(w, rot[w].new)
    /\ Leave(w)
    /\ UNCHANGED <<keys, pin, wire, active, found, unasked>>

\* refresh_active_key, then the halt is lifted.  When the read raises, the
\* stale key stays cached and the halt flag as it was.
Refresh(w) ==
    /\ phase[w] = "refresh"
    /\ \E ok \in {TRUE} \cup {"refresh" \notin Faults} :
         IF ok /\ \E k \in Active : CurrentSigner(k)
         THEN /\ active' = [active EXCEPT ![w] = CHOOSE k \in Active : TRUE]
              /\ LiftHalt(w)
         ELSE UNCHANGED <<active, halted, staged>>
    /\ Leave(w)
    /\ UNCHANGED <<keys, pin, wire, found, unasked>>

-----------------------------------------------------------------------------
(* rotate_mastio_ca: a new Intermediate CA, and a new leaf key under it that *)
(* the Court is not asked to pin.                                            *)

\* _reissue_mastio_leaf_under reads the current signer; no look at staged rows.
ReissueReads(w) ==
    /\ phase[w] = "idle"
    /\ active[w] # NoKey
    /\ \E old \in Active, k \in Kid :
         /\ CurrentSigner(old)
         /\ keys[k] = "unused"
         /\ \A v \in Worker : rot[v].new # k
         /\ rot' = [rot EXCEPT ![w] = [old |-> old, new |-> k]]
    /\ Enter(w, "reissue")
    /\ UNCHANGED <<keys, pin, wire, found, active, halted, staged, unasked>>

ReissueStages(w) ==
    /\ phase[w] = "reissue"
    /\ InsertKey(rot[w].new, "staged")
    /\ unasked' = unasked \cup {rot[w].new}
    /\ Enter(w, "swap")
    /\ UNCHANGED <<pin, wire, rot, found, active, halted, staged>>

ReissueCommits(w) ==
    /\ phase[w] = "swap"
    /\ CanCommit(rot[w])
    /\ keys' = Committed(rot[w])
    /\ Enter(w, "recache")
    /\ UNCHANGED <<pin, wire, rot, found, active, halted, staged, unasked>>

\* The row stays staged, and the worker goes on signing.
ReissueFails(w) ==
    /\ phase[w] = "swap"
    /\ ~CanCommit(rot[w]) \/ "commit" \in Faults
    /\ Leave(w)
    /\ UNCHANGED <<keys, pin, wire, found, active, halted, staged, unasked>>

\* The Intermediate CA is swapped and the new signer cached; an error leaves
\* the old one cached.  A sign-halt stays as it was.
Recache(w) ==
    /\ phase[w] = "recache"
    /\ \/ \E k \in Active : CurrentSigner(k) /\ active' = [active EXCEPT ![w] = k]
       \/ (Faults \cap {"commit", "refresh"} # {} \/ \A k \in Active : ~CurrentSigner(k))
          /\ UNCHANGED active
    /\ Leave(w)
    /\ UNCHANGED <<keys, pin, wire, found, halted, staged, unasked>>

-----------------------------------------------------------------------------
(* Recovery: complete_staged_rotation, called by the operator. *)

\* Nothing else is going on that could still change the staged row.
NothingInFlight(w) ==
    /\ \A r \in wire : r.old = NoKey
    /\ \A v \in Worker \ {w} : AtRest(v)

\* Variant: recovery is offered only by a worker that has halted.
CompleteStaged_IfHalted(w) ==
    /\ phase[w] = "idle"
    /\ halted[w]
    /\ "overlap" \in Faults \/ NothingInFlight(w)
    /\ \E k \in Staged, old \in Active :
         /\ Staged = {k}
         /\ rot' = [rot EXCEPT ![w] = [old |-> old, new |-> k]]
         /\ \/ /\ pin \in {k, NoKey} /\ CurrentSigner(old) /\ Enter(w, "activate")
               /\ unasked' = IF pin = k THEN unasked ELSE unasked \cup {k}
            \/ pin # k /\ Enter(w, "drop") /\ UNCHANGED unasked
    /\ UNCHANGED <<keys, pin, wire, found, active, halted, staged>>

\* find_staged, and the decision the operator takes from the Court's pin:
\* activate when it is on the staged key, drop when it is not, and as they like
\* when there is no pin.
CompleteStaged(w) ==
    /\ phase[w] = "idle"
    /\ "overlap" \in Faults \/ NothingInFlight(w)
    /\ \E k \in Staged, old \in Active :
         /\ Staged = {k}
         /\ rot' = [rot EXCEPT ![w] = [old |-> old, new |-> k]]
         /\ \/ /\ pin \in {k, NoKey} /\ CurrentSigner(old) /\ Enter(w, "activate")
               /\ unasked' = IF pin = k THEN unasked ELSE unasked \cup {k}
            \/ pin # k /\ Enter(w, "drop") /\ UNCHANGED unasked
    /\ UNCHANGED <<keys, pin, wire, found, active, halted, staged>>

\* decision "drop": one row deleted, signing resumes with the cached key.
ResolveDrop(w) ==
    /\ phase[w] = "drop"
    /\ keys[rot[w].new] = "staged"
    /\ Drop(rot[w].new)
    /\ LiftHalt(w)
    /\ Leave(w)
    /\ UNCHANGED <<pin, wire, active, found, unasked>>

\* Either decision raises: the row vanished or was activated meanwhile, or
\* the database failed.  The halt stays as it was.
ResolveFails(w) ==
    /\ \/ phase[w] = "drop" /\ keys[rot[w].new] # "staged"
       \/ phase[w] = "activate" /\ ~CanCommit(rot[w])
       \/ phase[w] \in Recovering /\ "commit" \in Faults
    /\ Leave(w)
    /\ UNCHANGED <<keys, pin, wire, active, halted, staged, found, unasked>>

-----------------------------------------------------------------------------
\* Variant: the rotation in progress outlives the process.
Crash_KeepsRotation(w) ==
    /\ phase[w] \notin {"absent", "down"}
    /\ Enter(w, "down")
    /\ active' = [active EXCEPT ![w] = NoKey]
    /\ found' = [found EXCEPT ![w] = {}]
    /\ LiftHalt(w)
    /\ UNCHANGED <<keys, pin, wire, rot, unasked>>

\* The process dies or restarts: its memory and its locks go, the rows and
\* the requests already sent stay.
Crash(w) ==
    /\ phase[w] \notin {"absent", "down"}
    /\ Enter(w, "down")
    /\ rot' = [rot EXCEPT ![w] = NoRotation]
    /\ active' = [active EXCEPT ![w] = NoKey]
    /\ found' = [found EXCEPT ![w] = {}]
    /\ LiftHalt(w)
    /\ UNCHANGED <<keys, pin, wire, unasked>>

\* The steps a live worker takes by itself once an operation is under way.
WorkerStep(w) ==
    \/ Boot(w) \/ DetectStaged(w) \/ TakeMintLock(w)
    \/ ReadActive(w) \/ Adopt(w) \/ Mint(w)
    \/ StageRow(w) \/ Propagate(w) \/ CourtAcks(w) \/ PropagatorRaised(w)
    \/ Commit(w) \/ CommitFails(w) \/ Refresh(w)
    \/ ReissueStages(w) \/ ReissueCommits(w) \/ ReissueFails(w) \/ Recache(w)
    \/ ResolveDrop(w) \/ ResolveFails(w)

Next ==
    \/ \E w \in Worker :
         \/ WorkerStep(w)
         \/ Onboard(w) \/ RotateCheck(w) \/ ReissueReads(w) \/ CompleteStaged(w)
         \/ Crash(w)
    \/ \E r \in wire : CourtHandles(r)

Spec == Init /\ [][Next]_vars

(***************************************************************************)
(* Workers and the Court run, crashes cease, and the operator keeps asking *)
(* for the staged row to be resolved although database errors and other    *)
(* workers' rotations interrupt it, hence the strong fairness.             *)
(***************************************************************************)
Resolves(w) == phase[w] \in Recovering /\ (Commit(w) \/ ResolveDrop(w))

FairSpec ==
    /\ Spec
    /\ \A w \in Worker : WF_vars(WorkerStep(w))
                         /\ SF_vars(CompleteStaged(w)) /\ SF_vars(Resolves(w))
    /\ WF_vars(\E r \in wire : CourtHandles(r))
    /\ <>[][\A w \in Worker : ~Crash(w)]_vars

-----------------------------------------------------------------------------
(* Properties. *)

Rotation == [old : Kid, new : Kid]

Request == [old : Kid \cup {NoKey}, new : Kid]

\* Type invariant: a worker holds the kids of a rotation exactly while it is
\* inside a rotation or a recovery, and a dead process has no memory.
TypeOK ==
    /\ keys \in [Kid -> RowState]
    /\ pin \in Kid \cup {NoKey}
    /\ wire \subseteq Request
    /\ phase \in [Worker -> Phase]
    /\ rot \in [Worker -> Rotation \cup {NoRotation}]
    /\ found \in [Worker -> SUBSET Kid]
    /\ active \in [Worker -> Kid \cup {NoKey}]
    /\ halted \in [Worker -> BOOLEAN]
    /\ staged \in [Worker -> Kid \cup {NoKey}]
    /\ unasked \subseteq Kid
    /\ \A w \in Worker :
         /\ (rot[w] \in Rotation) <=> (phase[w] \in Rotating \cup Recovering)
         /\ phase[w] \in {"absent", "down"} => active[w] = NoKey /\ ~halted[w]

\* The keystore's invariant (auth/local_keystore.py): once a key has been
\* minted, exactly one row is the current signer, through every interleaving
\* of boots, rotations and recoveries of several workers and across crashes.
\* With none or two, current_signer raises and no token can be issued.
OneActive ==
    /\ \A j, k \in Active : j = k
    /\ (\E k \in Kid : keys[k] # "unused") => Active # {}

\* The private key of the public key the Court has pinned is never lost, and
\* is the current signer's or a staged row's: otherwise no countersignature
\* and no continuity proof could satisfy the Court, which rotate_mastio_key
\* stages its row first to prevent.  The exception is a signer the Court was
\* never asked to pin: it comes from a rotation by a worker without a bridge,
\* which only warns (agent_manager.py:2684), from a CA rotation (2935), or from
\* a staged row activated before there was a pin.  Then the pinned key is a
\* retired one, but its row is still there.
PinnedKeyKept ==
    pin # NoKey =>
        \/ keys[pin] \in {"active", "staged"}
        \/ keys[pin] = "deprecated" /\ Active \subseteq unasked

\* In a deployment of one worker, a worker at rest that does not refuse to
\* sign holds the key the Court has pinned, after any failure, crash, restart
\* or recovery: the sign-halt covers every state in which countersign would
\* use a key the Court rejects (rotate_mastio_key steps 5-7, boot detection),
\* save for a signer the Court was never asked to pin, for which nothing halts.
\* With several workers it does not: only the one that rotates refreshes.
SignerPinned ==
    \A w \in Worker :
        (/\ Deployed = {w} /\ phase[w] = "idle"
         /\ ~halted[w] /\ active[w] # NoKey /\ pin # NoKey)
            => active[w] = pin \/ active[w] \in unasked

\* A staged key becomes the signer only when the Court already has it pinned,
\* or was not asked at all: a rotation that did ask never runs ahead of the
\* answer, and neither does the recovery of one that failed.
ActivatedIsPinned ==
    [][\A k \in Kid : keys[k] = "staged" /\ keys'[k] = "active"
                          => pin = k \/ k \in unasked]_vars

OneStaged == \E k \in Kid : Staged = {k}

\* Two rows staged at once, which find_staged refuses to choose from: rotations
\* and recoveries raise until somebody edits the table (local_keystore.py:186).
\* It takes two workers that both saw no staged row, or a CA rotation, which
\* does not look.
Collided ==
    /\ \E j, k \in Staged : j # k
    /\ (\E v, w \in Deployed : v # w) \/ Staged \cap unasked # {}

\* A staged row left behind by a crash, a failed commit or a failed cleanup
\* does not block rotations for ever: an operator who keeps resolving gets
\* rid of it, through whichever worker answers, unless a second one is staged
\* meanwhile.
StagedResolved == OneStaged ~> (Staged = {} \/ Collided)
=============================================================================
