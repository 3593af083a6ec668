---------------------------- MODULE WorkerLeader ----------------------------
(***************************************************************************)
(* The worker processes and the leader lock of one background task         *)
(* (lifespan/leader_election.py): a worker tries the lock once, when it    *)
(* boots, and runs the task's loop for the rest of its life if it won.     *)
(*                                                                         *)
(* The lock is a Postgres advisory lock of a dedicated connection.  Losing *)
(* that connection frees it without telling the worker.  The flock of a    *)
(* SQLite deployment behaves the same with MaxDrops = 0.                   *)
(***************************************************************************)
EXTENDS Naturals, FiniteSets

CONSTANTS
    Worker,
    None,         \* no worker, and other absent values
    MaxCrashes,   \* bound: worker crashes
    MaxDrops      \* bound: lock connections lost

ASSUME LeaderConstants ==
    /\ None \notin Worker
    /\ IsFiniteSet(Worker)
    /\ MaxCrashes \in Nat
    /\ MaxDrops \in Nat

VARIABLES
    up,       \* workers running
    held,     \* workers whose _held is TRUE: they run the loop
    lock,     \* the worker whose connection owns the lock
    crashes,
    drops

leaderVars == <<up, held, lock, crashes, drops>>

LeaderInit ==
    /\ up = {}
    /\ held = {}
    /\ lock = None
    /\ crashes = 0
    /\ drops = 0

\* Variant: the lock is not looked at.
WorkerBoots_NoLock(w) ==
    /\ w \notin up
    /\ up' = up \cup {w}
    /\ lock' = w
    /\ held' = held \cup {w}
    /\ UNCHANGED <<crashes, drops>>

\* acquire() in the lifespan of a starting worker.
WorkerBoots(w) ==
    /\ w \notin up
    /\ up' = up \cup {w}
    /\ IF lock = None
       THEN /\ lock' = w
            /\ held' = held \cup {w}
       ELSE UNCHANGED <<lock, held>>
    /\ UNCHANGED <<crashes, drops>>

\* Variant: a lock file that outlives its owner.
WorkerDies_KeepsLock(w) ==
    /\ w \in up
    /\ crashes < MaxCrashes
    /\ crashes' = crashes + 1
    /\ up' = up \ {w}
    /\ held' = held \ {w}
    /\ UNCHANGED <<lock, drops>>

\* A worker dies or is stopped; its connection goes with it.
WorkerDies(w) ==
    /\ w \in up
    /\ crashes < MaxCrashes
    /\ crashes' = crashes + 1
    /\ up' = up \ {w}
    /\ held' = held \ {w}
    /\ lock' = IF lock = w THEN None ELSE lock
    /\ UNCHANGED drops

LockDropped ==
    /\ lock # None
    /\ drops < MaxDrops
    /\ drops' = drops + 1
    /\ lock' = None
    /\ UNCHANGED <<up, held, crashes>>

LeaderTypeOK ==
    /\ up \subseteq Worker
    /\ held \subseteq up
    /\ lock \in held \cup {None}
    /\ crashes \in 0..MaxCrashes
    /\ drops \in 0..MaxDrops

\* Each lost connection can add one worker that believes it is the leader,
\* and nothing else can, whatever the order of crashes and restarts
\* (leader_election.py:169).
LeadersBounded ==
    Cardinality(held) <= drops + (IF lock = None THEN 0 ELSE 1)
=============================================================================
