------------------------- MODULE LocalSessionsProofs -------------------------
(***************************************************************************)
(* Proofs about LocalSessions, for any workers, sessions, caps and number  *)
(* of faults: types, and that a close nobody could overwrite is final.     *)
(***************************************************************************)
EXTENDS LocalSessions, TLAPS

-----------------------------------------------------------------------------
(***************************************************************************)
(* Types.  The sweeper saves for its own worker, which must be running.    *)
(***************************************************************************)

SweeperUp == \A w \in Worker : stale[w] # {} => w \in up

TypeInv == TypeOK /\ SweeperUp

\* The workers and the lock.
LEMMA LeaderTypes ==
    ASSUME LeaderTypeOK,
           \/ \E w \in Worker : WorkerBoots(w) \/ WorkerDies(w)
           \/ LockDropped
           \/ UNCHANGED leaderVars
    PROVE  LeaderTypeOK'
<1> USE LeaderConstants DEF LeaderTypeOK
<1>1. ASSUME NEW w \in Worker, WorkerBoots(w)
      PROVE  LeaderTypeOK'
  BY <1>1 DEF WorkerBoots
<1>2. ASSUME NEW w \in Worker, WorkerDies(w)
      PROVE  LeaderTypeOK'
  BY <1>2 DEF WorkerDies
<1>3. CASE LockDropped
  BY <1>3 DEF LockDropped
<1>4. CASE UNCHANGED leaderVars
  BY <1>4 DEF leaderVars
<1> QED BY <1>1, <1>2, <1>3, <1>4

LEMMA InitTypeInv == Init => TypeInv
BY LeaderConstants, SessionConstants
   DEF Init, LeaderInit, TypeInv, TypeOK, LeaderTypeOK, SweeperUp, Status

\* A new save of a running worker.
LEMMA SavesType ==
    ASSUME TypeOK, NEW w \in up, NEW s \in Session, NEW by \in Handler, Saves(w, s, by)
    PROVE  /\ save' \subseteq SaveOp
           /\ \A o \in save' : o.worker \in up
           /\ \A o \in save' : o \in save \/ (o.session = s /\ o.status = "unread")
<1> DEFINE new == [worker |-> w, session |-> s, by |-> by, status |-> "unread"]
<1>1. w \in Worker
  BY DEF TypeOK, LeaderTypeOK
<1>2. new \in SaveOp /\ new.worker = w /\ new.session = s /\ new.status = "unread"
  BY <1>1 DEF SaveOp
<1>3. save' = save \cup {new}
  BY DEF Saves
<1> HIDE DEF new
<1> QED BY <1>2, <1>3 DEF TypeOK

\* One copy changes.
LEMMA CopyChanges ==
    ASSUME TypeOK, NEW w \in Worker, NEW s \in Session, NEW st \in Status,
           store' = [store EXCEPT ![w][s] = st]
    PROVE  /\ store' \in [Worker -> [Session -> Status]]
           /\ store'[w][s] = st
           /\ \A v \in Worker, u \in Session : v # w \/ u # s => store'[v][u] = store[v][u]
BY DEF TypeOK

\* A worker's store is replaced.
LEMMA StoreReplaced ==
    ASSUME TypeOK, NEW w \in Worker, NEW f \in [Session -> Status],
           store' = [store EXCEPT ![w] = f]
    PROVE  /\ store' \in [Worker -> [Session -> Status]]
           /\ store'[w] = f
           /\ \A v \in Worker : v # w => store'[v] = store[v]
BY DEF TypeOK

\* The status a handler works with.
LEMMA CopyStatus ==
    ASSUME TypeOK, NEW w \in Worker, NEW s \in Session
    PROVE  /\ store[w][s] \in Status /\ Got(w, s) \in Status
           /\ Activated(Got(w, s)) \in Status
           /\ InMemory(w, s) \in {"pending", "active", "closed"}
BY DEF TypeOK, Status, Got, Activated, InMemory

LEMMA EvictType ==
    ASSUME TypeOK, NEW w \in Worker, NEW new \in SUBSET Session, EvictAndAdd(w, new)
    PROVE  /\ store' \in [Worker -> [Session -> Status]]
           /\ idle' \in [Worker -> SUBSET Session]
           /\ \A v \in Worker, s \in Session :
                 \/ store'[v][s] \in {store[v][s], "none"}
                 \/ v = w /\ s \in new
<1> DEFINE f == [s \in Session |-> IF s \in new THEN "pending"
                                   ELSE IF s \in Kept(w) THEN store[w][s] ELSE "none"]
<1>1. f \in [Session -> Status]
  BY DEF TypeOK, Status
<1>2. store' = [store EXCEPT ![w] = f]
  BY DEF EvictAndAdd
<1>3. \A s \in Session : s \in new \/ f[s] \in {store[w][s], "none"}
  OBVIOUS
<1> HIDE DEF f
<1>4. /\ store' \in [Worker -> [Session -> Status]]
      /\ store'[w] = f
      /\ \A v \in Worker : v # w => store'[v] = store[v]
  BY <1>1, <1>2, StoreReplaced
<1>5. idle' \in [Worker -> SUBSET Session]
  BY DEF EvictAndAdd, TypeOK
<1> QED BY <1>3, <1>4, <1>5

\* A restore, a boot and a crash keep the types.
LEMMA ProcessTypeInv ==
    ASSUME TypeInv, NEW w \in Worker,
           RestoreReads(w) \/ RestoreFills(w) \/ Boot(w) \/ Crash(w)
    PROVE  TypeInv'
<1>0. LeaderTypeOK'
  BY LeaderTypes DEF RestoreReads, RestoreFills, Boot, Crash, TypeInv, TypeOK
<1>a. Nothing \in [Session -> Status]
  BY DEF Nothing, Status
<1>1. CASE Boot(w)
  <2>1. fetched' \in [Worker -> [Session -> Status]]
    BY <1>1, <1>a DEF Boot, TypeInv, TypeOK
  <2>2. up \subseteq up'
    BY <1>1 DEF Boot, WorkerBoots
  <2> QED BY <1>0, <1>1, <2>1, <2>2 DEF Boot, TypeInv, TypeOK, SweeperUp, storeVars
<1>3. CASE RestoreReads(w)
  <2> DEFINE f == [s \in Session |-> IF row[s] \in Open THEN row[s] ELSE "none"]
  <2>1. f \in [Session -> Status]
    BY DEF TypeInv, TypeOK, Status
  <2>2. fetched' = [fetched EXCEPT ![w] = f]
    BY <1>3 DEF RestoreReads
  <2> HIDE DEF f
  <2>3. fetched' \in [Worker -> [Session -> Status]]
    BY <2>1, <2>2 DEF TypeInv, TypeOK
  <2>4. store' \in [Worker -> [Session -> Status]]
    BY <1>3, <1>a, StoreReplaced DEF RestoreReads, TypeInv
  <2>5. idle' \in [Worker -> SUBSET Session]
    BY <1>3 DEF RestoreReads, TypeInv, TypeOK
  <2> QED BY <1>0, <1>3, <2>3, <2>4, <2>5 DEF RestoreReads, TypeInv, TypeOK, SweeperUp, leaderVars
<1>4. CASE RestoreFills(w)
  <2> DEFINE f == [s \in Session |-> IF s \in old THEN "none" ELSE fetched[w][s]]
  <2>1. f \in [Session -> Status]
    BY DEF TypeInv, TypeOK, Status
  <2>2. store' = [store EXCEPT ![w] = f]
    BY <1>4 DEF RestoreFills
  <2> HIDE DEF f
  <2>3. store' \in [Worker -> [Session -> Status]]
    BY <2>1, <2>2, StoreReplaced DEF TypeInv
  <2>4. fetched' \in [Worker -> [Session -> Status]]
    BY <1>4, <1>a DEF RestoreFills, TypeInv, TypeOK
  <2>5. idle' \in [Worker -> SUBSET Session]
    BY <1>4 DEF RestoreFills, TypeInv, TypeOK
  <2> QED BY <1>0, <1>4, <2>3, <2>4, <2>5 DEF RestoreFills, TypeInv, TypeOK, SweeperUp, leaderVars
<1>2. CASE Crash(w)
  <2>2. store' \in [Worker -> [Session -> Status]]
    BY <1>2, <1>a, StoreReplaced DEF Crash, TypeInv
  <2>3. /\ idle' \in [Worker -> SUBSET Session]
        /\ stale' \in [Worker -> SUBSET Session]
        /\ SweeperUp'
    BY <1>2 DEF Crash, WorkerDies, TypeInv, TypeOK, SweeperUp
  <2>4. save' \subseteq SaveOp /\ \A o \in save' : o.worker \in up'
    BY <1>2 DEF Crash, WorkerDies, TypeInv, TypeOK
  <2> QED BY <1>0, <1>2, <2>2, <2>3, <2>4 DEF Crash, TypeInv, TypeOK
<1> QED BY <1>1, <1>2, <1>3, <1>4

\* The handlers keep the types.
LEMMA RequestTypeInv ==
    ASSUME TypeInv, NEW w \in Worker, Request(w)
    PROVE  TypeInv'
<1> USE DEF TypeInv
<1>1. CASE OpenRefused(w)
  <2>1. /\ store' \in [Worker -> [Session -> Status]]
        /\ idle' \in [Worker -> SUBSET Session]
    BY <1>1, EvictType DEF OpenRefused
  <2> QED BY <1>1, <2>1 DEF OpenRefused, TypeOK, LeaderTypeOK, leaderVars, SweeperUp
<1>2. ASSUME NEW s \in Session, OpenSession(w, s)
      PROVE  TypeInv'
  <2>1. /\ store' \in [Worker -> [Session -> Status]]
        /\ idle' \in [Worker -> SUBSET Session]
    BY <1>2, EvictType DEF OpenSession
  <2>2. save' \subseteq SaveOp /\ \A o \in save' : o.worker \in up
    BY <1>2, SavesType, "open" \in Handler DEF OpenSession, Handler
  <2> QED BY <1>2, <2>1, <2>2 DEF OpenSession, TypeOK, LeaderTypeOK, leaderVars, SweeperUp
<1>3. ASSUME NEW s \in Session, AcceptSession(w, s)
      PROVE  TypeInv'
  <2>1. store' \in [Worker -> [Session -> Status]]
    BY <1>3, CopyStatus, CopyChanges DEF AcceptSession
  <2>2. idle' \in [Worker -> SUBSET Session]
    BY <1>3 DEF AcceptSession, TypeOK
  <2>3. save' \subseteq SaveOp /\ \A o \in save' : o.worker \in up
    BY <1>3, SavesType, "accept" \in Handler DEF AcceptSession, Has, Handler
  <2> QED BY <1>3, <2>1, <2>2, <2>3
             DEF AcceptSession, TypeOK, LeaderTypeOK, leaderVars, SweeperUp
<1>4. ASSUME NEW s \in Session, CloseSession(w, s)
      PROVE  TypeInv'
  <2>1. store' \in [Worker -> [Session -> Status]]
    BY <1>4, CopyChanges, "closed" \in Status DEF CloseSession, Status
  <2>2. save' \subseteq SaveOp /\ \A o \in save' : o.worker \in up
    BY <1>4, SavesType, "close" \in Handler DEF CloseSession, Has, Handler
  <2> QED BY <1>4, <2>1, <2>2 DEF CloseSession, TypeOK, LeaderTypeOK, leaderVars, SweeperUp
<1>5. ASSUME NEW s \in Session, UseSession(w, s)
      PROVE  TypeInv'
  <2>1. store' \in [Worker -> [Session -> Status]]
    BY <1>5, CopyStatus, CopyChanges DEF UseSession
  <2>2. idle' \in [Worker -> SUBSET Session]
    BY <1>5 DEF UseSession, TypeOK
  <2>3. save' \subseteq SaveOp /\ \A o \in save' : o.worker \in up
    BY <1>5, SavesType, "use" \in Handler DEF UseSession, Has, Handler
  <2> QED BY <1>5, <2>1, <2>2, <2>3
             DEF UseSession, TypeOK, LeaderTypeOK, leaderVars, SweeperUp
<1>6. ASSUME NEW s \in Session, LookUp(w, s)
      PROVE  TypeInv'
  <2>1. store' \in [Worker -> [Session -> Status]]
    BY <1>6, CopyStatus, CopyChanges DEF LookUp
  <2> QED BY <1>6, <2>1 DEF LookUp, TypeOK, LeaderTypeOK, leaderVars, SweeperUp
<1> QED BY <1>1, <1>2, <1>3, <1>4, <1>5, <1>6 DEF Request

\* Saves, the sweeper and time keep the types.
LEMMA BackgroundTypeInv ==
    ASSUME TypeInv,
           \/ \E w \in Worker : SweepStarts(w)
           \/ \E w \in Worker, s \in Session : SweepSession(w, s) \/ IdleTimePasses(w, s)
           \/ \E o \in save : SaveStep(o) \/ SaveFails(o)
           \/ \E s \in Session : HardTtlPasses(s)
    PROVE  TypeInv'
<1> USE DEF TypeInv, storeVars
<1>1. ASSUME NEW w \in Worker, SweepStarts(w)
      PROVE  TypeInv'
  <2>1. FindStale(w) \subseteq Session
    BY DEF FindStale, Kept
  <2>2. stale' \in [Worker -> SUBSET Session] /\ SweeperUp'
    BY <1>1, <2>1 DEF SweepStarts, TypeOK, LeaderTypeOK, leaderVars, SweeperUp
  <2> QED BY <1>1, <2>2 DEF SweepStarts, TypeOK, LeaderTypeOK, leaderVars
<1>2. ASSUME NEW w \in Worker, NEW s \in Session, SweepSession(w, s)
      PROVE  TypeInv'
  <2>1. stale' \in [Worker -> SUBSET Session] /\ SweeperUp' /\ w \in up
    BY <1>2 DEF SweepSession, TypeOK, leaderVars, SweeperUp
  <2>2. store' \in [Worker -> [Session -> Status]]
    BY <1>2, CopyChanges, "closed" \in Status DEF SweepSession, Status, TypeOK
  <2>3. save' \subseteq SaveOp /\ \A o \in save' : o.worker \in up
    BY <1>2, <2>1, SavesType, "sweep" \in Handler DEF SweepSession, Handler, TypeOK
  <2> QED BY <1>2, <2>1, <2>2, <2>3 DEF SweepSession, TypeOK, LeaderTypeOK, leaderVars
<1>3. ASSUME NEW w \in Worker, NEW s \in Session, IdleTimePasses(w, s)
      PROVE  TypeInv'
  <2>1. idle' \in [Worker -> SUBSET Session]
    BY <1>3 DEF IdleTimePasses, TypeOK
  <2> QED BY <1>3, <2>1 DEF IdleTimePasses, TypeOK, LeaderTypeOK, leaderVars, SweeperUp
<1>4. ASSUME NEW o \in save, SaveReads(o)
      PROVE  TypeInv'
  <2>1. o \in SaveOp /\ o.worker \in Worker /\ o.session \in Session
    BY DEF TypeOK, SaveOp
  <2>2. InMemory(o.worker, o.session) \in {"pending", "active", "closed"}
    BY <2>1, CopyStatus
  <2> DEFINE new == [o EXCEPT !.status = InMemory(o.worker, o.session)]
  <2>3. new \in SaveOp /\ new.worker = o.worker
    BY <2>1, <2>2 DEF SaveOp
  <2>4. save' = (save \ {o}) \cup {new}
    BY <1>4 DEF SaveReads
  <2> HIDE DEF new
  <2>5. save' \subseteq SaveOp /\ \A p \in save' : p.worker \in up
    BY <2>3, <2>4 DEF TypeOK
  <2> QED BY <1>4, <2>5 DEF SaveReads, TypeOK, LeaderTypeOK, leaderVars, SweeperUp
<1>5. ASSUME NEW o \in save, SaveLands(o)
      PROVE  TypeInv'
  <2>1. o.session \in Session /\ o.status \in Status
    BY <1>5 DEF SaveLands, TypeOK, SaveOp, Status
  <2>2. row' \in [Session -> Status]
    BY <1>5, <2>1 DEF SaveLands, TypeOK
  <2> QED BY <1>5, <2>1, <2>2 DEF SaveLands, TypeOK, LeaderTypeOK, leaderVars, SweeperUp
<1>6. ASSUME NEW o \in save, SaveFails(o)
      PROVE  TypeInv'
  <2>1. faults' \in 0..MaxFaults
    BY <1>6, SessionConstants, LeaderConstants DEF SaveFails, TypeOK, LeaderTypeOK
  <2> QED BY <1>6, <2>1 DEF SaveFails, TypeOK, LeaderTypeOK, leaderVars, SweeperUp
<1>7. ASSUME NEW s \in Session, HardTtlPasses(s)
      PROVE  TypeInv'
  BY <1>7 DEF HardTtlPasses, TypeOK, LeaderTypeOK, leaderVars, SweeperUp
<1> QED BY <1>1, <1>2, <1>3, <1>4, <1>5, <1>6, <1>7 DEF SaveStep

LEMMA StepTypeInv == TypeInv /\ [Next]_vars => TypeInv'
<1> SUFFICES ASSUME TypeInv, [Next]_vars
             PROVE  TypeInv'
  OBVIOUS
<1>1. CASE UNCHANGED vars
  BY <1>1 DEF vars, leaderVars, TypeInv, TypeOK, LeaderTypeOK, SweeperUp
<1>2. CASE LockDropped /\ UNCHANGED <<store, idle, fetched, row, old, save, stale, final, faults>>
  <2>1. LeaderTypeOK' /\ up' = up
    BY <1>2, LeaderTypes DEF TypeInv, TypeOK, LockDropped
  <2> QED BY <1>2, <2>1 DEF TypeInv, TypeOK, SweeperUp
<1> QED BY <1>1, <1>2, ProcessTypeInv, RequestTypeInv, BackgroundTypeInv DEF Next

(***************************************************************************)
(* Shape of the table, of the stores, of the saves and of the sweepers, for*)
(* any number of workers and sessions.                                     *)
(***************************************************************************)
THEOREM TypeCorrect == Spec => []TypeOK
<1>1. TypeInv => TypeOK
  BY DEF TypeInv
<1> QED BY <1>1, InitTypeInv, StepTypeInv, PTL DEF Spec

-----------------------------------------------------------------------------
(***************************************************************************)
(* Final closes.  A session is opened again by a copy, a save that has     *)
(* read one, a restore that has read the row, or the table; the invariant  *)
(* excludes all four.                                                      *)
(***************************************************************************)

FinalInv == \A s \in final : row[s] = "closed" /\ Alone(s)

\* Where an open copy comes from, and a row that was read as open.
CopiesFrom ==
    \A w \in Worker, s \in Session :
        /\ store'[w][s] \in Open => \/ store[w][s] \in Open
                                    \/ fetched[w][s] \in Open
                                    \/ row[s] = "none"
        /\ fetched'[w][s] \in Open => fetched[w][s] \in Open \/ row[s] \in Open

\* Where an open save comes from.
SavesFrom ==
    \A p \in save' :
        p.status \in Open =>
            \E o \in save : /\ o.session = p.session
                            /\ o.status = p.status \/ store[o.worker][o.session] \in Open

\* A step that writes no row keeps the invariant if open copies and saves
\* come from there.
LEMMA QuietFinalStep ==
    ASSUME TypeInv, FinalInv, CopiesFrom, SavesFrom, row' = row, final' = final
    PROVE  FinalInv'
<1> SUFFICES ASSUME NEW s \in final
             PROVE  row[s] = "closed" /\ Alone(s)'
  BY DEF FinalInv
<1>1. row[s] = "closed" /\ Alone(s) /\ s \in Session
  BY DEF FinalInv, TypeInv, TypeOK
<1>2. \A w \in Worker : store'[w][s] \notin Open /\ fetched'[w][s] \notin Open
  BY <1>1 DEF CopiesFrom, Alone, Open
<1>3. \A p \in save' : p.session = s => p.status \notin Open
  <2>1. \A o \in save : o.worker \in Worker
    BY DEF TypeInv, TypeOK, SaveOp
  <2>2. ASSUME NEW p \in save', p.session = s, p.status \in Open
        PROVE  FALSE
    <3>1. PICK o \in save : /\ o.session = p.session
                            /\ o.status = p.status \/ store[o.worker][o.session] \in Open
      BY <2>2 DEF SavesFrom
    <3> QED BY <1>1, <2>1, <2>2, <3>1 DEF Alone
  <2> QED BY <2>2
<1> QED BY <1>1, <1>2, <1>3 DEF Alone

\* A save that lands on a final session says "closed".
LEMMA LandsFinal ==
    ASSUME TypeInv, FinalInv, NEW o \in save, SaveLands(o)
    PROVE  FinalInv'
<1>1. /\ o.session \in Session /\ o.status \in {"pending", "active", "closed"}
      /\ row'[o.session] = o.status
      /\ \A s \in Session : s # o.session => row'[s] = row[s]
      /\ store' = store /\ fetched' = fetched /\ save' = save \ {o}
  BY DEF SaveLands, storeVars, TypeInv, TypeOK, SaveOp
<1>2. ASSUME NEW s \in final'
      PROVE  row'[s] = "closed" /\ Alone(s)'
  <2>1. s \in Session
    BY <1>1, <1>2 DEF SaveLands, TypeInv, TypeOK
  <2>2. Alone(s)
    BY <1>2 DEF SaveLands, FinalInv
  <2>3. Alone(s)'
    BY <1>1, <2>2 DEF Alone
  <2>4. CASE s = o.session
    <3>1. o.status \notin Open
      BY <2>2, <2>4 DEF Alone
    <3> QED BY <1>1, <2>3, <2>4, <3>1 DEF Open
  <2>5. CASE s # o.session
    BY <1>1, <1>2, <2>1, <2>3, <2>5 DEF SaveLands, FinalInv
  <2> QED BY <2>4, <2>5
<1> QED BY <1>2 DEF FinalInv

\* No handler opens a copy that was not open, except of a new session.
LEMMA RequestFinal ==
    ASSUME TypeInv, FinalInv, NEW w \in Worker, Request(w)
    PROVE  FinalInv'
<1>0. TypeOK
  BY DEF TypeInv
<1>1. row' = row /\ final' = final /\ fetched' = fetched
  BY DEF Request, OpenRefused, OpenSession, AcceptSession, CloseSession, UseSession, LookUp
<1>2. ASSUME NEW s \in Session, NEW by \in Handler, w \in up, Saves(w, s, by)
      PROVE  SavesFrom
  BY <1>0, <1>2, SavesType DEF SavesFrom, Open
<1>3. CASE OpenRefused(w)
  <2>1. CopiesFrom
    BY <1>0, <1>1, <1>3, EvictType DEF OpenRefused, CopiesFrom, Open
  <2>2. SavesFrom
    BY <1>3 DEF OpenRefused, SavesFrom
  <2> QED BY <1>1, <2>1, <2>2, QuietFinalStep
<1>4. ASSUME NEW s \in Session, OpenSession(w, s)
      PROVE  FinalInv'
  <2>1. CopiesFrom
    BY <1>0, <1>1, <1>4, EvictType DEF OpenSession, CopiesFrom, Open
  <2>2. SavesFrom
    BY <1>2, <1>4, "open" \in Handler DEF OpenSession, Handler
  <2> QED BY <1>1, <2>1, <2>2, QuietFinalStep
<1>5. ASSUME NEW s \in Session, NEW st \in Status, store' = [store EXCEPT ![w][s] = st],
             st \in Open => store[w][s] \in Open
      PROVE  CopiesFrom
  BY <1>0, <1>1, <1>5, CopyChanges DEF CopiesFrom
<1>6. ASSUME NEW s \in Session, Has(w, s)
      PROVE  /\ Got(w, s) \in Open => store[w][s] \in Open
             /\ Activated(Got(w, s)) \in Open => store[w][s] \in Open
  BY DEF Got, Activated, Open
<1>7. ASSUME NEW s \in Session, AcceptSession(w, s)
      PROVE  FinalInv'
  <2>1. CopiesFrom
    BY <1>0, <1>5, <1>6, <1>7, CopyStatus DEF AcceptSession
  <2>2. SavesFrom
    BY <1>2, <1>7, "accept" \in Handler DEF AcceptSession, Has, Handler
  <2> QED BY <1>1, <2>1, <2>2, QuietFinalStep
<1>8. ASSUME NEW s \in Session, CloseSession(w, s)
      PROVE  FinalInv'
  <2>1. CopiesFrom
    BY <1>5, <1>8, "closed" \in Status, "closed" \notin Open DEF CloseSession, Status, Open
  <2>2. SavesFrom
    BY <1>2, <1>8, "close" \in Handler DEF CloseSession, Has, Handler
  <2> QED BY <1>1, <2>1, <2>2, QuietFinalStep
<1>9. ASSUME NEW s \in Session, UseSession(w, s)
      PROVE  FinalInv'
  <2>1. CopiesFrom
    BY <1>0, <1>5, <1>6, <1>9, CopyStatus DEF UseSession
  <2>2. SavesFrom
    BY <1>2, <1>9, "use" \in Handler DEF UseSession, Has, Handler
  <2> QED BY <1>1, <2>1, <2>2, QuietFinalStep
<1>10. ASSUME NEW s \in Session, LookUp(w, s)
       PROVE  FinalInv'
  <2>1. CopiesFrom
    BY <1>0, <1>5, <1>6, <1>10, CopyStatus DEF LookUp
  <2>2. SavesFrom
    BY <1>10 DEF LookUp, SavesFrom
  <2> QED BY <1>1, <2>1, <2>2, QuietFinalStep
<1> QED BY <1>3, <1>4, <1>7, <1>8, <1>9, <1>10 DEF Request

LEMMA StepFinalInv == TypeInv /\ FinalInv /\ [Next]_vars => FinalInv'
<1> SUFFICES ASSUME TypeInv, FinalInv, [Next]_vars
             PROVE  FinalInv'
  OBVIOUS
<1>0. TypeOK
  BY DEF TypeInv
<1>1. CASE UNCHANGED <<store, fetched, row, save, final>>
  <2>1. CopiesFrom /\ SavesFrom
    BY <1>1 DEF CopiesFrom, SavesFrom
  <2> QED BY <1>1, <2>1, QuietFinalStep
<1>2. ASSUME NEW w \in Worker, RestoreReads(w) \/ RestoreFills(w) \/ Boot(w)
      PROVE  FinalInv'
  <2>1. \A v \in Worker, s \in Session :
            /\ store'[v][s] \in {store[v][s], fetched[v][s], "none"}
            /\ fetched'[v][s] \in {fetched[v][s], row[s], "none"}
    BY <1>0, <1>2 DEF RestoreReads, RestoreFills, Boot, storeVars, Nothing, TypeOK
  <2>2. CopiesFrom
    BY <2>1 DEF CopiesFrom, Open
  <2>3. SavesFrom
    BY <1>2 DEF RestoreReads, RestoreFills, Boot, SavesFrom
  <2> QED BY <1>2, <2>2, <2>3, QuietFinalStep DEF RestoreReads, RestoreFills, Boot
<1>3. ASSUME NEW w \in Worker, Crash(w)
      PROVE  FinalInv'
  <2>1. \A v \in Worker, s \in Session : store'[v][s] \in {store[v][s], "none"}
    BY <1>0, <1>3 DEF Crash, Nothing, TypeOK
  <2>2. CopiesFrom
    BY <1>3, <2>1 DEF Crash, CopiesFrom, Open
  <2>3. SavesFrom
    BY <1>3 DEF Crash, SavesFrom
  <2> QED BY <1>3, <2>2, <2>3, QuietFinalStep DEF Crash
<1>4. ASSUME NEW w \in Worker, NEW s \in Session, SweepSession(w, s)
      PROVE  FinalInv'
  <2>0. w \in up
    BY <1>4 DEF SweepSession, TypeInv, SweeperUp
  <2>1. CopiesFrom
    <3>1. \A v \in Worker, u \in Session : store'[v][u] \in {store[v][u], "closed"}
      BY <1>0, <1>4 DEF SweepSession, TypeOK
    <3> QED BY <1>4, <3>1 DEF SweepSession, CopiesFrom, Open
  <2>2. SavesFrom
    <3>1. \A p \in save' : p \in save \/ p.status = "unread"
      BY <1>0, <1>4, <2>0, SavesType, "sweep" \in Handler DEF SweepSession, Handler
    <3> QED BY <3>1 DEF SavesFrom, Open
  <2> QED BY <1>4, <2>1, <2>2, QuietFinalStep DEF SweepSession
<1>5. ASSUME NEW o \in save, SaveReads(o)
      PROVE  FinalInv'
  <2>1. o \in SaveOp /\ o.worker \in Worker /\ o.session \in Session
    BY <1>0 DEF TypeOK, SaveOp
  <2> DEFINE new == [o EXCEPT !.status = InMemory(o.worker, o.session)]
  <2>2. new.session = o.session /\ new.status = InMemory(o.worker, o.session)
    BY <2>1 DEF SaveOp
  <2>3. save' = (save \ {o}) \cup {new}
    BY <1>5 DEF SaveReads
  <2> HIDE DEF new
  <2>4. SavesFrom
    BY <2>2, <2>3 DEF SavesFrom, InMemory, Open
  <2>5. CopiesFrom
    BY <1>5 DEF SaveReads, storeVars, CopiesFrom
  <2> QED BY <1>5, <2>4, <2>5, QuietFinalStep DEF SaveReads
<1>6. ASSUME NEW o \in save, SaveFails(o)
      PROVE  FinalInv'
  <2>1. CopiesFrom /\ SavesFrom
    BY <1>6 DEF SaveFails, storeVars, CopiesFrom, SavesFrom
  <2> QED BY <1>6, <2>1, QuietFinalStep DEF SaveFails
<1>7. ASSUME NEW w \in Worker, SweepStarts(w)
      PROVE  FinalInv'
  BY <1>1, <1>7 DEF SweepStarts, storeVars
<1>8. ASSUME NEW w \in Worker, NEW s \in Session, IdleTimePasses(w, s)
      PROVE  FinalInv'
  BY <1>1, <1>8 DEF IdleTimePasses
<1>9. ASSUME NEW s \in Session, HardTtlPasses(s)
      PROVE  FinalInv'
  BY <1>1, <1>9 DEF HardTtlPasses
<1> QED BY <1>1, <1>2, <1>3, <1>4, <1>5, <1>6, <1>7, <1>8, <1>9, RequestFinal, LandsFinal
           DEF Next, SaveStep, vars

(***************************************************************************)
(* A close that was written while nobody else had the session open, no     *)
(* older save was under way and no restore had read the row is final.      *)
(***************************************************************************)
THEOREM ClosesAreFinal == Spec => []CloseIsFinal
<1>1. Init => FinalInv
  BY DEF Init, FinalInv
<1>2. FinalInv => CloseIsFinal
  BY DEF FinalInv, CloseIsFinal, Alone
<1> QED BY <1>1, <1>2, InitTypeInv, StepTypeInv, StepFinalInv, PTL DEF Spec
=============================================================================
