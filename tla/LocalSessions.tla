---------------------------- MODULE LocalSessions ----------------------------
(***************************************************************************)
(* Local sessions of the intra-org mini-broker and the session half of the *)
(* sweeper.                                                                *)
(*                                                                         *)
(* Each worker keeps its own LocalSessionStore (local/session.py), filled  *)
(* from local_sessions at boot, and writes a session back with an UPSERT   *)
(* of whatever its own copy says (local/persistence.py).  The handlers are *)
(* those of egress/router.py; the sweeper (local/sweeper.py) runs in the   *)
(* worker that won the leader lock and looks at that worker's store only.  *)
(*                                                                         *)
(* All sessions have the same initiator.  close_reason, capabilities and   *)
(* audit rows are left out; messages are in LocalQueue.  reject() has no   *)
(* caller, so no session is ever denied.                                   *)
(***************************************************************************)
EXTENDS WorkerLeader

CONSTANTS
    Session,
    MaxSessions,   \* _MAX_SESSIONS
    ActiveCap,     \* _active_cap_per_agent
    MaxSaves,      \* bound: saves of requests in flight, besides the sweepers'
    MaxFaults      \* bound: crashes, lost locks and failed saves when a save fails

ASSUME SessionConstants ==
    /\ MaxSessions \in Nat /\ ActiveCap \in Nat
    /\ MaxSaves \in Nat /\ MaxFaults \in Nat

VARIABLES
    store,    \* [Worker -> [Session -> status of its copy]]
    fetched,  \* [Worker -> [Session -> what its restore read and has not stored yet]]
    idle,     \* [Worker -> sessions whose copy is past the idle timeout]
    row,      \* [Session -> status in local_sessions]
    old,      \* sessions past created_at + hard TTL
    save,     \* save_session calls in flight
    stale,    \* [Worker -> what find_stale gave its sweep and is left to do]
    final,    \* history: sessions whose close nobody else could overwrite
    faults

storeVars == <<store, idle, old>>
vars == <<leaderVars, store, idle, fetched, row, old, save, stale, final, faults>>

Status == {"none", "pending", "active", "closed"}

Open == {"pending", "active"}

\* Who saves: accept and close hold store._lock meanwhile.
Handler == {"open", "accept", "close", "use", "sweep"}

Init ==
    /\ LeaderInit
    /\ store = [w \in Worker |-> [s \in Session |-> "none"]]
    /\ fetched = store
    /\ idle = [w \in Worker |-> {}]
    /\ row = [s \in Session |-> "none"]
    /\ old = {}
    /\ save = {}
    /\ stale = [w \in Worker |-> {}]
    /\ final = {}
    /\ faults = 0

-----------------------------------------------------------------------------
(* Boot and crash. *)

Nothing == [s \in Session |-> "none"]

\* The SELECT of restore_sessions in a starting process: the non-terminal rows.
\* A start that dies before the worker serves begins again from here.
RestoreReads(w) ==
    /\ w \notin up
    /\ fetched' = [fetched EXCEPT ![w] =
                     [s \in Session |-> IF row[s] \in Open THEN row[s] ELSE "none"]]
    /\ store' = [store EXCEPT ![w] = Nothing]
    /\ idle' = [idle EXCEPT ![w] = {}]
    /\ UNCHANGED <<leaderVars, row, old, save, stale, final, faults>>

\* After the transaction the rows not past their TTL go to the store.  How long
\* ago the row's last_activity_at was is left open.
RestoreFills(w) ==
    /\ w \notin up
    /\ fetched[w] # Nothing
    /\ store' = [store EXCEPT ![w] =
                   [s \in Session |-> IF s \in old THEN "none" ELSE fetched[w][s]]]
    /\ \E i \in SUBSET {s \in Session : fetched[w][s] # "none" /\ s \notin old} :
          idle' = [idle EXCEPT ![w] = i]
    /\ fetched' = [fetched EXCEPT ![w] = Nothing]
    /\ UNCHANGED <<leaderVars, row, old, save, stale, final, faults>>

\* Lifespan start: the worker serves with what the restore left in the store,
\* which is nothing when the restore raised.
Boot(w) ==
    /\ WorkerBoots(w)
    /\ fetched' = [fetched EXCEPT ![w] = Nothing]
    /\ UNCHANGED <<storeVars, row, save, stale, final, faults>>

\* Variant: the saves of a dead worker go on.
Crash_KeepsSaves(w) ==
    /\ WorkerDies(w)
    /\ store' = [store EXCEPT ![w] = Nothing]
    /\ idle' = [idle EXCEPT ![w] = {}]
    /\ stale' = [stale EXCEPT ![w] = {}]
    /\ UNCHANGED <<fetched, row, old, save, final, faults>>

\* Memory, requests and sweep of the worker are gone.
Crash(w) ==
    /\ WorkerDies(w)
    /\ store' = [store EXCEPT ![w] = Nothing]
    /\ idle' = [idle EXCEPT ![w] = {}]
    /\ save' = {o \in save : o.worker # w}
    /\ stale' = [stale EXCEPT ![w] = {}]
    /\ UNCHANGED <<fetched, row, old, final, faults>>

-----------------------------------------------------------------------------
(* save_session *)

Saving(w, by) == \E o \in save : o.worker = w /\ o.by = by

\* store._lock is taken.
Locked(w) == Saving(w, "accept") \/ Saving(w, "close")

\* A handler calls save_session and waits for a connection.
Saves(w, s, by) ==
    /\ ~Saving(w, by)
    /\ by # "sweep" => Cardinality(save) < MaxSaves
    /\ save' = save \cup {[worker |-> w, session |-> s, by |-> by, status |-> "unread"]}

\* The status of the object a handler holds.  Only closed sessions are
\* evicted from the store.
InMemory(w, s) == IF store[w][s] = "none" THEN "closed" ELSE store[w][s]

\* The parameters of the UPSERT are read once the connection is there.
SaveReads(o) ==
    /\ o.status = "unread"
    /\ save' = (save \ {o}) \cup
               {[o EXCEPT !.status = InMemory(o.worker, o.session)]}
    /\ UNCHANGED <<leaderVars, storeVars, fetched, row, stale, final, faults>>

\* Nobody can write another status than "closed" any more: no copy is open, no
\* other save has read an open one, and no restore under way an open row.
Alone(s) ==
    /\ \A w \in Worker : store[w][s] \notin Open /\ fetched[w][s] \notin Open
    /\ \A p \in save : p.session = s => p.status \notin Open

\* The UPSERT commits, overwriting whatever the row says.
SaveLands(o) ==
    /\ o.status # "unread"
    /\ row' = [row EXCEPT ![o.session] = o.status]
    /\ save' = save \ {o}
    /\ final' = IF o.status = "closed" /\ Alone(o.session)
                THEN final \cup {o.session} ELSE final
    /\ UNCHANGED <<leaderVars, storeVars, fetched, stale, faults>>

\* The statement fails.  The request is answered an error, the sweeper logs
\* it; memory keeps the change.
SaveFails(o) ==
    /\ faults + crashes + drops < MaxFaults
    /\ faults' = faults + 1
    /\ save' = save \ {o}
    /\ UNCHANGED <<leaderVars, storeVars, fetched, row, stale, final>>

-----------------------------------------------------------------------------
(* The store and the handlers. *)

Has(w, s) == w \in up /\ store[w][s] # "none"

\* get(): an expired session turns closed, in memory only.
Got(w, s) == IF s \in old THEN "closed" ELSE store[w][s]

\* _evict_terminated
Kept(w) == {s \in Session : store[w][s] \in Open}

EvictAndAdd(w, new) ==
    /\ store' = [store EXCEPT ![w] =
                   [s \in Session |-> IF s \in new THEN "pending"
                                      ELSE IF s \in Kept(w) THEN store[w][s] ELSE "none"]]
    /\ idle' = [idle EXCEPT ![w] = @ \cap Kept(w)]

CanCreate(w) ==
    /\ Cardinality(Kept(w)) < MaxSessions
    /\ Cardinality({s \in Session : store[w][s] = "active"}) < ActiveCap

\* open_session: create() evicts, checks both caps and adds the session.
OpenSession(w, s) ==
    /\ w \in up
    /\ row[s] = "none" /\ s \notin old
    /\ ~\E v \in Worker : Has(v, s)
    /\ ~\E o \in save : o.session = s
    /\ CanCreate(w)
    /\ EvictAndAdd(w, {s})
    /\ Saves(w, s, "open")
    /\ UNCHANGED <<leaderVars, fetched, row, old, stale, final, faults>>

\* open_session over a cap: the eviction has happened all the same.
OpenRefused(w) ==
    /\ w \in up
    /\ ~CanCreate(w)
    /\ EvictAndAdd(w, {})
    /\ UNCHANGED <<leaderVars, fetched, row, old, save, stale, final, faults>>

\* Variant: activate() without its status check.
Activated_Any(st) == "active"

\* activate(): only a pending session changes.
Activated(st) == IF st = "pending" THEN "active" ELSE st

\* accept_session by the target.  A closed session is answered "accepted" too.
AcceptSession(w, s) ==
    /\ Has(w, s)
    /\ ~Locked(w)
    /\ store' = [store EXCEPT ![w][s] = Activated(Got(w, s))]
    /\ idle' = IF Got(w, s) = "pending" THEN [idle EXCEPT ![w] = @ \ {s}] ELSE idle
    /\ Saves(w, s, "accept")
    /\ UNCHANGED <<leaderVars, fetched, row, old, stale, final, faults>>

\* close_session by a participant.
CloseSession(w, s) ==
    /\ Has(w, s)
    /\ ~Locked(w)
    /\ store' = [store EXCEPT ![w][s] = "closed"]
    /\ Saves(w, s, "close")
    /\ UNCHANGED <<leaderVars, idle, fetched, row, old, stale, final, faults>>

\* send_message and poll_messages: get, touch, save.  Neither looks at the
\* status or takes the lock.
UseSession(w, s) ==
    /\ Has(w, s)
    /\ store' = [store EXCEPT ![w][s] = Got(w, s)]
    /\ idle' = [idle EXCEPT ![w] = @ \ {s}]
    /\ Saves(w, s, "use")
    /\ UNCHANGED <<leaderVars, fetched, row, old, stale, final, faults>>

\* ack_message, or a send that is refused after its get.
LookUp(w, s) ==
    /\ Has(w, s)
    /\ store[w][s] # Got(w, s)
    /\ store' = [store EXCEPT ![w][s] = Got(w, s)]
    /\ UNCHANGED <<leaderVars, idle, fetched, row, old, save, stale, final, faults>>

-----------------------------------------------------------------------------
(* Time. *)

HardTtlPasses(s) ==
    /\ s \notin old
    /\ row[s] # "none" \/ \E w \in Worker : Has(w, s)
    /\ old' = old \cup {s}
    /\ UNCHANGED <<leaderVars, store, idle, fetched, row, save, stale, final, faults>>

\* One worker's copy: the touches of another worker do not reach it.
IdleTimePasses(w, s) ==
    /\ s \in Kept(w) \ idle[w]
    /\ idle' = [idle EXCEPT ![w] = @ \cup {s}]
    /\ UNCHANGED <<leaderVars, store, fetched, row, old, save, stale, final, faults>>

-----------------------------------------------------------------------------
(* sweep_once *)

\* Variant: the hard TTL is forgotten.
FindStale_IdleOnly(w) == Kept(w) \cap idle[w]

\* find_stale, without the lock.
FindStale(w) == Kept(w) \cap (old \cup idle[w])

SweepStarts(w) ==
    /\ w \in held
    /\ stale[w] = {} /\ ~Saving(w, "sweep")
    /\ FindStale(w) # {}
    /\ stale' = [stale EXCEPT ![w] = FindStale(w)]
    /\ UNCHANGED <<leaderVars, storeVars, fetched, row, save, final, faults>>

\* One stale session, with the lock: skipped when it was closed meanwhile,
\* closed otherwise, even when it was touched meanwhile.
SweepSession(w, s) ==
    /\ s \in stale[w]
    /\ ~Locked(w)
    /\ stale' = [stale EXCEPT ![w] = @ \ {s}]
    /\ IF InMemory(w, s) = "closed"
       THEN UNCHANGED <<store, save>>
       ELSE /\ store' = [store EXCEPT ![w][s] = "closed"]
            /\ Saves(w, s, "sweep")
    /\ UNCHANGED <<leaderVars, idle, fetched, row, old, final, faults>>

-----------------------------------------------------------------------------
Request(w) ==
    \/ OpenRefused(w)
    \/ \E s \in Session :
          \/ OpenSession(w, s)
          \/ AcceptSession(w, s)
          \/ CloseSession(w, s)
          \/ UseSession(w, s)
          \/ LookUp(w, s)

SaveStep(o) == SaveReads(o) \/ SaveLands(o)

Next ==
    \/ \E w \in Worker : \/ RestoreReads(w) \/ RestoreFills(w) \/ Boot(w) \/ Crash(w)
                        \/ Request(w) \/ SweepStarts(w)
    \/ \E w \in Worker, s \in Session : SweepSession(w, s) \/ IdleTimePasses(w, s)
    \/ \E o \in save : SaveStep(o) \/ SaveFails(o)
    \/ \E s \in Session : HardTtlPasses(s)
    \/ LockDropped /\ UNCHANGED <<store, idle, fetched, row, old, save, stale, final, faults>>

Spec == Init /\ [][Next]_vars

\* Statements end and the sweeper loop goes on.  asyncio.Lock is handed over
\* in the order of arrival, so requests cannot keep the sweeper out for ever.
FairSpec ==
    /\ Spec
    /\ \A w \in Worker :
          /\ \A by \in Handler : WF_vars(\E o \in save : o.worker = w /\ o.by = by /\ SaveStep(o))
          /\ WF_vars(SweepStarts(w))
          /\ \A s \in Session : SF_vars(SweepSession(w, s))

-----------------------------------------------------------------------------
\* A save_session call.
SaveOp ==
    [worker : Worker, session : Session, by : Handler,
     status : {"unread", "pending", "active", "closed"}]

\* Types of the state.
TypeOK ==
    /\ LeaderTypeOK
    /\ store \in [Worker -> [Session -> Status]]
    /\ fetched \in [Worker -> [Session -> Status]]
    /\ idle \in [Worker -> SUBSET Session]
    /\ stale \in [Worker -> SUBSET Session]
    /\ row \in [Session -> Status]
    /\ old \subseteq Session /\ final \subseteq Session
    /\ save \subseteq SaveOp
    /\ \A o \in save : o.worker \in up
    /\ faults \in 0..MaxFaults

\* A close written while no other worker has the session open, no older save of
\* it is under way and no starting worker has read its row as open is final: no
\* accept, send, poll, sweep, crash or restore opens the session again, in
\* memory or in the table, although every later save overwrites the row
\* (persistence.py:41).  The third condition is needed because the restore
\* fills the store after its transaction (persistence.py:91).
CloseIsFinal ==
    \A s \in final :
        /\ row[s] = "closed"
        /\ \A w \in Worker : store[w][s] \notin Open

\* The sweeper ends every session of its own worker that is past its TTL,
\* whatever is touched, locked or failing at the same time.  Sessions of
\* other workers are not promised anything (sweeper.py:55).
LeaderSessionsEnd ==
    \A w \in Worker, s \in Session :
        (w \in held /\ s \in old \cap Kept(w)) ~> ~(w \in held /\ s \in Kept(w))
=============================================================================
