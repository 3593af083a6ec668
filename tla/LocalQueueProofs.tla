-------------------------- MODULE LocalQueueProofs --------------------------
(***************************************************************************)
(* Proofs about LocalQueue and the WorkerLeader it runs on, for any        *)
(* workers, requests, keys, sweep limit and number of faults: only a lost  *)
(* lock connection adds a leader, a retry of an answered send makes no     *)
(* second message, and a sweep undoes no ack.                              *)
(***************************************************************************)
EXTENDS LocalQueue, FiniteSetTheorems, TLAPS

-----------------------------------------------------------------------------
(***************************************************************************)
(* The leader lock.                                                        *)
(***************************************************************************)

\* What a step may do to the processes and the lock.
LeaderNext ==
    \/ \E w \in Worker : WorkerBoots(w) \/ WorkerDies(w)
    \/ LockDropped

LEMMA LeaderTypeStep ==
    ASSUME LeaderTypeOK, LeaderNext \/ UNCHANGED leaderVars
    PROVE  LeaderTypeOK'
<1> USE LeaderConstants DEF LeaderTypeOK
<1>1. ASSUME NEW w \in Worker, WorkerBoots(w)
      PROVE  LeaderTypeOK'
  BY <1>1 DEF WorkerBoots
<1>2. ASSUME NEW w \in Worker, WorkerDies(w)
      PROVE  LeaderTypeOK'
  BY <1>2 DEF WorkerDies
<1>3. CASE LockDropped
  BY <1>3 DEF LockDropped
<1>4. CASE UNCHANGED leaderVars
  BY <1>4 DEF leaderVars
<1> QED BY <1>1, <1>2, <1>3, <1>4 DEF LeaderNext

\* The believed leaders are finitely many.
LEMMA HeldFinite == LeaderTypeOK => IsFiniteSet(held) /\ Cardinality(held) \in Nat
BY LeaderConstants, FS_Subset, FS_CardinalityType DEF LeaderTypeOK

LEMMA LeadersBoundedStep ==
    ASSUME LeaderTypeOK, LeadersBounded, LeaderNext \/ UNCHANGED leaderVars
    PROVE  LeadersBounded'
<1>0. IsFiniteSet(held) /\ Cardinality(held) \in Nat /\ drops \in Nat
  BY HeldFinite, LeaderConstants DEF LeaderTypeOK
\* A worker that gets the lock when it is free.
<1>1. ASSUME NEW w \in Worker, WorkerBoots(w)
      PROVE  LeadersBounded'
  <2>1. CASE lock = None
    <3>1. w \notin held /\ held' = held \cup {w} /\ lock' = w /\ drops' = drops
      BY <1>1, <2>1 DEF WorkerBoots, LeaderTypeOK
    <3>2. Cardinality(held') = Cardinality(held) + 1
      BY <1>0, <3>1, FS_AddElement
    <3> QED BY <1>0, <2>1, <3>1, <3>2, LeaderConstants DEF LeadersBounded
  <2>2. CASE lock # None
    BY <1>1, <2>2 DEF WorkerBoots, LeadersBounded
  <2> QED BY <2>1, <2>2
\* The owner of the lock is one of the believed leaders, and takes itself along.
<1>2. ASSUME NEW w \in Worker, WorkerDies(w)
      PROVE  LeadersBounded'
  <2>1. held' = held \ {w} /\ drops' = drops /\ lock' = IF lock = w THEN None ELSE lock
    BY <1>2 DEF WorkerDies
  <2>2. CASE lock = w
    <3>1. w \in held
      BY <2>2, LeaderConstants DEF LeaderTypeOK
    <3>2. Cardinality(held') = Cardinality(held) - 1
      BY <1>0, <2>1, <3>1, FS_RemoveElement
    <3> QED BY <1>0, <2>1, <2>2, <3>2, LeaderConstants DEF LeadersBounded
  <2>3. CASE lock # w
    <3>1. Cardinality(held') \in Nat /\ Cardinality(held') <= Cardinality(held)
      BY <1>0, <2>1, FS_Subset, FS_CardinalityType
    <3> QED BY <1>0, <2>1, <2>3, <3>1 DEF LeadersBounded
  <2> QED BY <2>2, <2>3
<1>3. CASE LockDropped
  BY <1>0, <1>3 DEF LockDropped, LeadersBounded
<1>4. CASE UNCHANGED leaderVars
  BY <1>4 DEF leaderVars, LeadersBounded
<1> QED BY <1>1, <1>2, <1>3, <1>4 DEF LeaderNext

\* Every step of the queue is a step of the processes or leaves them alone.
LEMMA LeaderStep == [Next]_vars => LeaderNext \/ UNCHANGED leaderVars
BY DEF Next, vars, Boot, Crash, SweepSelects, SweepUpdates, SweepFails, MarkDelivered,
       EnqueueSelects, EnqueueInserts, SendAnswered, SendFails, MsgTtlPasses, LeaderNext

(***************************************************************************)
(* Workers that believe they are the leader: one for each lock connection  *)
(* that was lost, and the owner of the lock.                               *)
(***************************************************************************)
THEOREM LeadersAreBounded == Spec => []LeadersBounded
<1>1. Init => LeaderTypeOK /\ LeadersBounded
  <2> SUFFICES ASSUME Init
               PROVE  LeaderTypeOK /\ LeadersBounded
    OBVIOUS
  <2>1. LeaderTypeOK
    BY LeaderConstants DEF Init, LeaderInit, LeaderTypeOK
  <2>2. Cardinality(held) = 0 /\ drops = 0 /\ lock = None
    BY FS_EmptySet DEF Init, LeaderInit
  <2> QED BY <2>1, <2>2 DEF LeadersBounded
<1>2. LeaderTypeOK /\ LeadersBounded /\ [Next]_vars => (LeaderTypeOK /\ LeadersBounded)'
  BY LeaderStep, LeaderTypeStep, LeadersBoundedStep
<1> QED BY <1>1, <1>2, PTL DEF Spec

-----------------------------------------------------------------------------
(***************************************************************************)
(* Types.                                                                  *)
(***************************************************************************)

\* Single fields of the records.
LEMMA QueueRecords ==
    /\ \A m \in MsgRow : /\ [m EXCEPT !.late = TRUE] \in MsgRow
                         /\ [m EXCEPT !.late = TRUE].status = m.status
    /\ \A m \in MsgRow : \A st \in MsgStatus :
          [m EXCEPT !.status = st] \in MsgRow /\ [m EXCEPT !.status = st].status = st
    /\ [status |-> "pending", late |-> FALSE] \in MsgRow
    /\ Asleep \in SweepState /\ Asleep.phase = "asleep" /\ Asleep.late = {}
BY DEF MsgRow, MsgStatus, SweepState, Asleep

\* What the steps of a send do to its record.
LEMMA SendEnds ==
    ASSUME NEW r \in SendState, NEW p \in {"sent", "lost"}, NEW q, q = [r EXCEPT !.pc = p]
    PROVE  q \in SendState /\ q.pc = p /\ q.key = r.key /\ q.id = r.id /\ q.after = r.after
BY DEF SendState

LEMMA SendEnqueues ==
    ASSUME NEW r \in SendState, NEW c \in Call, NEW q, q = [r EXCEPT !.pc = "enqueued", !.id = c]
    PROVE  q \in SendState /\ q.pc = "enqueued" /\ q.key = r.key /\ q.id = c
             /\ q.after = r.after
BY DEF SendState

\* The effect of the SELECT on the record of the send.
LEMMA SelectEffect ==
    ASSUME TypeOK, NEW c \in Call, NEW w \in Worker, NEW k \in Key, EnqueueSelects(c, w, k)
    PROVE  /\ call' \in [Call -> SendState]
           /\ \A d \in Call : d # c => call'[d] = call[d]
           /\ call'[c].key = k /\ call'[c].after = Answered
           /\ \/ Existing(k) = {} /\ call'[c].pc = "insert"
              \/ call'[c].pc = "enqueued" /\ call'[c].id \in Existing(k)
<1> DEFINE r == [pc |-> "insert", worker |-> w, key |-> k, id |-> None, after |-> Answered]
<1>1. r \in SendState
  BY DEF SendState, Answered
<1>2. CASE Existing(k) = {}
  <2>1. call' = [call EXCEPT ![c] = r]
    BY <1>2 DEF EnqueueSelects
  <2> QED BY <1>1, <1>2, <2>1 DEF TypeOK
<1>3. CASE Existing(k) # {}
  <2>1. PICK d \in Existing(k) :
          call' = [call EXCEPT ![c] = [r EXCEPT !.pc = "enqueued", !.id = d]]
    BY <1>3 DEF EnqueueSelects
  <2>2. d \in Call
    BY DEF Existing, Rows
  <2>3. PICK q : q = [r EXCEPT !.pc = "enqueued", !.id = d]
    OBVIOUS
  <2>4. q \in SendState /\ q.pc = "enqueued" /\ q.key = k /\ q.id = d /\ q.after = Answered
    BY <1>1, <2>2, <2>3, SendEnqueues
  <2> QED BY <2>1, <2>3, <2>4 DEF TypeOK
<1> QED BY <1>2, <1>3

\* The effect of the crash of a worker on the sends.
LEMMA CrashEffect ==
    ASSUME TypeOK, NEW w \in Worker, Crash(w)
    PROVE  /\ call' \in [Call -> SendState]
           /\ \A c \in Call :
                /\ call'[c].key = call[c].key /\ call'[c].id = call[c].id
                /\ call'[c].after = call[c].after
                /\ \/ call'[c] = call[c]
                   \/ call[c].pc # "sent" /\ call[c].worker = w /\ call'[c].pc = "lost"
<1>1. ASSUME NEW c \in Call
      PROVE  /\ call'[c] \in SendState
             /\ call'[c].key = call[c].key /\ call'[c].id = call[c].id
             /\ call'[c].after = call[c].after
             /\ \/ call'[c] = call[c]
                \/ call[c].pc # "sent" /\ call[c].worker = w /\ call'[c].pc = "lost"
  <2>1. call[c] \in SendState
    BY DEF TypeOK
  <2>2. CASE call[c].worker = w /\ call[c].pc # "sent"
    <3>1. call'[c] = [call[c] EXCEPT !.pc = "lost"]
      BY <2>2 DEF Crash
    <3> QED BY <2>1, <2>2, <3>1, SendEnds
  <2>3. CASE ~(call[c].worker = w /\ call[c].pc # "sent")
    BY <2>1, <2>3 DEF Crash
  <2> QED BY <2>2, <2>3
<1> QED BY <1>1 DEF Crash

\* The effect of the other steps of a send.
LEMMA SendEffect ==
    ASSUME TypeOK, NEW c \in Call, NEW p \in {"sent", "lost"},
           call' = [call EXCEPT ![c].pc = p]
    PROVE  /\ call' \in [Call -> SendState]
           /\ \A d \in Call : d # c => call'[d] = call[d]
           /\ call'[c].pc = p /\ call'[c].key = call[c].key
           /\ call'[c].id = call[c].id /\ call'[c].after = call[c].after
<1>1. PICK q : q = [call[c] EXCEPT !.pc = p]
  OBVIOUS
<1>2. call[c] \in SendState /\ call' = [call EXCEPT ![c] = q]
  BY <1>1 DEF TypeOK
<1> QED BY <1>1, <1>2, SendEnds DEF TypeOK

LEMMA InsertEffect ==
    ASSUME TypeOK, NEW c \in Call, EnqueueInserts(c)
    PROVE  /\ call' \in [Call -> SendState]
           /\ \A d \in Call : d # c => call'[d] = call[d] /\ msg'[d] = msg[d]
           /\ call'[c].pc = "enqueued" /\ call'[c].key = call[c].key
           /\ call'[c].id = c /\ call'[c].after = call[c].after
           /\ msg' \in [Call -> MsgRow] /\ msg'[c].status = "pending"
<1>1. PICK q : q = [call[c] EXCEPT !.pc = "enqueued", !.id = c]
  OBVIOUS
<1>2. call[c] \in SendState /\ call' = [call EXCEPT ![c] = q]
  BY <1>1 DEF TypeOK, EnqueueInserts
<1>3. /\ msg' \in [Call -> MsgRow] /\ msg'[c].status = "pending"
      /\ \A d \in Call : d # c => msg'[d] = msg[d]
  BY QueueRecords DEF TypeOK, EnqueueInserts
<1>4. /\ q \in SendState /\ q.pc = "enqueued" /\ q.key = call[c].key /\ q.id = c
      /\ q.after = call[c].after
  BY <1>1, <1>2 DEF SendState
<1> QED BY <1>2, <1>3, <1>4 DEF TypeOK

LEMMA InitType == Init => TypeOK
BY LeaderConstants, QueueConstants
   DEF Init, LeaderInit, TypeOK, LeaderTypeOK, MsgRow, MsgStatus, SendState, SweepState,
       NotSent, Asleep

LEMMA StepType == TypeOK /\ [Next]_vars => TypeOK'
<1> SUFFICES ASSUME TypeOK, [Next]_vars
             PROVE  TypeOK'
  OBVIOUS
<1>0. LeaderTypeOK'
  BY LeaderStep, LeaderTypeStep DEF TypeOK
<1>1. ASSUME NEW w \in Worker, Boot(w) \/ Crash(w)
      PROVE  TypeOK'
  <2>1. call' \in [Call -> SendState]
    BY <1>1, CrashEffect DEF Boot, TypeOK
  <2>2. sweep' \in [Worker -> SweepState]
    BY <1>1, QueueRecords DEF Boot, Crash, TypeOK
  <2> QED BY <1>0, <1>1, <2>1, <2>2 DEF Boot, Crash, TypeOK
<1>2. ASSUME NEW w \in Worker, SweepSelects(w)
      PROVE  TypeOK'
  <2>1. PICK seen \in SUBSET Late :
          sweep' = [sweep EXCEPT ![w] = [phase |-> "update", late |-> Late, seen |-> seen]]
    BY <1>2 DEF SweepSelects
  <2>2. [phase |-> "update", late |-> Late, seen |-> seen] \in SweepState
    BY DEF SweepState, Late, Pending
  <2> QED BY <1>0, <1>2, <2>1, <2>2 DEF SweepSelects, TypeOK
<1>3. ASSUME NEW w \in Worker, SweepUpdates(w)
      PROVE  TypeOK'
  <2>1. msg' \in [Call -> MsgRow]
    <3>1. "expired" \in MsgStatus
      BY DEF MsgStatus
    <3> QED BY <1>3, <3>1, QueueRecords DEF SweepUpdates, TypeOK
  <2> QED BY <1>0, <1>3, <2>1, QueueRecords DEF SweepUpdates, TypeOK
<1>4. ASSUME NEW w \in Worker, SweepFails(w)
      PROVE  TypeOK'
  BY <1>0, <1>4, QueueRecords, QueueConstants DEF SweepFails, TypeOK
<1>5. ASSUME NEW w \in Worker, NEW c \in Call, MarkDelivered(w, c)
      PROVE  TypeOK'
  <2>1. msg' \in [Call -> MsgRow]
    <3>1. "delivered" \in MsgStatus
      BY DEF MsgStatus
    <3> QED BY <1>5, <3>1, QueueRecords DEF MarkDelivered, TypeOK
  <2> QED BY <1>0, <1>5, <2>1 DEF MarkDelivered, TypeOK
<1>6. ASSUME NEW w \in Worker, NEW c \in Call, NEW k \in Key, EnqueueSelects(c, w, k)
      PROVE  TypeOK'
  BY <1>0, <1>6, SelectEffect DEF EnqueueSelects, TypeOK
<1>7. ASSUME NEW c \in Call, EnqueueInserts(c)
      PROVE  TypeOK'
  BY <1>0, <1>7, InsertEffect DEF EnqueueInserts, TypeOK
<1>8. ASSUME NEW c \in Call, SendAnswered(c) \/ SendFails(c)
      PROVE  TypeOK'
  <2>1. call' \in [Call -> SendState]
    BY <1>8, SendEffect DEF SendAnswered, SendFails
  <2> QED BY <1>0, <1>8, <2>1, QueueConstants DEF SendAnswered, SendFails, TypeOK
<1>9. ASSUME NEW c \in Call, MsgTtlPasses(c)
      PROVE  TypeOK'
  BY <1>0, <1>9, QueueRecords DEF MsgTtlPasses, TypeOK
<1>10. CASE UNCHANGED <<msg, call, acked, sweep, faults>>
  BY <1>0, <1>10 DEF TypeOK
<1> QED BY <1>1, <1>2, <1>3, <1>4, <1>5, <1>6, <1>7, <1>8, <1>9, <1>10 DEF Next, vars

(***************************************************************************)
(* Shape of the messages, of enqueue's calls and of sweep_expired on each  *)
(* worker, through crashes, lost locks and failed statements.              *)
(***************************************************************************)
THEOREM TypeCorrect == Spec => []TypeOK
BY InitType, StepType, PTL DEF Spec

-----------------------------------------------------------------------------
(***************************************************************************)
(* Sends and retries.  The promise is about answered sends and rows; it is *)
(* kept because the requests in between already have what it needs: the    *)
(* key of a send is fixed by its SELECT, and an INSERT under way knows no  *)
(* answered send of its key.                                               *)
(***************************************************************************)

\* A row belongs to a send that has got past its SELECT, and an INSERT is
\* made once.
RowsHaveSends ==
    \A c \in Call : /\ c \in Rows => call[c].pc # "new"
                    /\ call[c].pc = "insert" => c \notin Rows

\* Sends that came before stay answered.
AfterAnswered == \A c \in Call : call[c].after \subseteq Answered

\* A send that has inserted its row, or is about to, follows no answered
\* send of its key.
FirstOfItsKey ==
    \A c \in Call : c \in Rows \/ call[c].pc = "insert" =>
        \A d \in call[c].after : call[d].key # call[c].key

\* The id a send will be answered, or was, names a row of its key.
IdNamesRow ==
    \A c \in Call : call[c].pc \in {"enqueued", "sent"} => call[c].id \in Existing(call[c].key)

SendInv == RowsHaveSends /\ AfterAnswered /\ FirstOfItsKey /\ IdNamesRow

\* A step that adds no row and only ends sends keeps the invariant.
LEMMA QuietSendStep ==
    ASSUME TypeOK, SendInv, Rows' = Rows,
           \A c \in Call : /\ call'[c].key = call[c].key /\ call'[c].id = call[c].id
                           /\ call'[c].after = call[c].after
                           /\ \/ call'[c].pc = call[c].pc
                              \/ call[c].pc = "enqueued" /\ call'[c].pc = "sent"
                              \/ call[c].pc # "sent" /\ call'[c].pc = "lost"
    PROVE  SendInv'
<1>1. \A k : Existing(k)' = Existing(k)
  BY DEF Existing, Rows
<1>2. Answered \subseteq Answered'
  BY DEF Answered
<1>3. RowsHaveSends' /\ AfterAnswered'
  BY <1>2 DEF SendInv, RowsHaveSends, AfterAnswered
<1>4. \A c \in Call : call[c].after \subseteq Call
  BY DEF TypeOK, SendState
<1>5. FirstOfItsKey'
  BY <1>4 DEF SendInv, FirstOfItsKey
<1>6. IdNamesRow'
  BY <1>1 DEF SendInv, IdNamesRow
<1> QED BY <1>3, <1>5, <1>6 DEF SendInv

\* A send's SELECT: no answered send has this key when no row has it.
LEMMA SelectSend ==
    ASSUME TypeOK, SendInv, NEW c \in Call, NEW w \in Worker, NEW k \in Key,
           EnqueueSelects(c, w, k)
    PROVE  SendInv'
<1>1. /\ \A d \in Call : d # c => call'[d] = call[d]
      /\ call'[c].key = k /\ call'[c].after = Answered
      /\ \/ Existing(k) = {} /\ call'[c].pc = "insert"
         \/ call'[c].pc = "enqueued" /\ call'[c].id \in Existing(k)
  BY SelectEffect
<1>2. Rows' = Rows /\ call[c].pc = "new" /\ c \notin Rows /\ c \notin Answered
  BY DEF EnqueueSelects, Rows, Answered, SendInv, RowsHaveSends
<1>3. \A m : Existing(m) \subseteq Existing(m)'
  BY <1>1, <1>2 DEF Existing, Rows
<1>4. Answered \subseteq Answered' /\ Answered \subseteq Call
  BY <1>1, <1>2 DEF Answered
<1>5. RowsHaveSends'
  BY <1>1, <1>2 DEF SendInv, RowsHaveSends
<1>6. AfterAnswered'
  BY <1>1, <1>4 DEF SendInv, AfterAnswered
<1>7. ASSUME NEW e \in Call, e \in Rows' \/ call'[e].pc = "insert", NEW d \in call'[e].after
      PROVE  call'[d].key # call'[e].key
  <2>1. CASE e = c
    <3>1. d \in Answered /\ d # c /\ call'[d] = call[d]
      BY <1>1, <1>2, <1>4, <1>7, <2>1
    <3>2. Existing(k) = {}
      BY <1>1, <1>2, <1>7, <2>1
    <3>3. call[d].id \in Existing(call[d].key)
      BY <3>1 DEF SendInv, IdNamesRow, Answered
    <3> QED BY <1>1, <2>1, <3>1, <3>2, <3>3
  <2>2. CASE e # c
    <3>1. d \in call[e].after /\ d \in Answered
      BY <1>1, <1>7, <2>2 DEF SendInv, AfterAnswered
    <3>2. call'[d] = call[d] /\ call'[e] = call[e]
      BY <1>1, <1>2, <1>4, <2>2, <3>1
    <3> QED BY <1>2, <1>7, <2>2, <3>1, <3>2 DEF SendInv, FirstOfItsKey
  <2> QED BY <2>1, <2>2
<1>8. IdNamesRow'
  BY <1>1, <1>3 DEF SendInv, IdNamesRow
<1> QED BY <1>5, <1>6, <1>7, <1>8 DEF SendInv, FirstOfItsKey

\* A send's INSERT adds the row it promised.
LEMMA InsertSend ==
    ASSUME TypeOK, SendInv, NEW c \in Call, EnqueueInserts(c)
    PROVE  SendInv'
<1>1. /\ \A d \in Call : d # c => call'[d] = call[d] /\ msg'[d] = msg[d]
      /\ call'[c].pc = "enqueued" /\ call'[c].key = call[c].key
      /\ call'[c].id = c /\ call'[c].after = call[c].after
      /\ msg'[c].status = "pending" /\ call[c].pc = "insert"
  BY InsertEffect DEF EnqueueInserts
<1>2. Rows' = Rows \cup {c}
  BY <1>1 DEF Rows
<1>3. /\ \A m : Existing(m) \subseteq Existing(m)'
      /\ c \in Existing(call[c].key)'
  BY <1>1, <1>2 DEF Existing, Rows
<1>4. Answered' = Answered
  BY <1>1 DEF Answered
<1>5. RowsHaveSends' /\ AfterAnswered'
  BY <1>1, <1>2, <1>4 DEF SendInv, RowsHaveSends, AfterAnswered
<1>6. \A d \in Call : call[d].after \subseteq Call /\ call'[d].key = call[d].key
  BY <1>1 DEF TypeOK, SendState
<1>7. FirstOfItsKey'
  BY <1>1, <1>2, <1>6 DEF SendInv, FirstOfItsKey
<1>8. \A d \in Call : call'[d].pc \in {"enqueued", "sent"}
                        => call'[d].id \in Existing(call[d].key)'
  BY <1>1, <1>3 DEF SendInv, IdNamesRow
<1>9. IdNamesRow'
  BY <1>6, <1>8 DEF IdNamesRow, Existing
<1> QED BY <1>5, <1>7, <1>9 DEF SendInv

\* The other steps add no row: the statuses they write are those of rows.
LEMMA SameRows ==
    ASSUME TypeOK,
           \A c \in Call : \/ msg'[c] = msg[c]
                           \/ msg[c].status = "pending" /\ msg'[c].status # "none"
    PROVE  Rows' = Rows
BY DEF Rows

LEMMA StepSendInv == TypeOK /\ SendInv /\ [Next]_vars => SendInv'
<1> SUFFICES ASSUME TypeOK, SendInv, [Next]_vars
             PROVE  SendInv'
  OBVIOUS
<1>1. ASSUME NEW w \in Worker, Crash(w)
      PROVE  SendInv'
  <2>1. Rows' = Rows
    BY <1>1 DEF Crash, Rows
  <2> QED BY <1>1, <2>1, CrashEffect, QuietSendStep
<1>2. ASSUME call' = call,
             \A c \in Call : \/ msg'[c] = msg[c]
                             \/ msg[c].status = "pending" /\ msg'[c].status # "none"
      PROVE  SendInv'
  BY <1>2, SameRows, QuietSendStep
<1>3. ASSUME NEW w \in Worker, SweepUpdates(w)
      PROVE  SendInv'
  <2>1. ASSUME NEW c \in Call
        PROVE  msg'[c] = msg[c] \/ (msg[c].status = "pending" /\ msg'[c].status # "none")
    <3>1. msg[c] \in MsgRow /\ "expired" \in MsgStatus
      BY DEF TypeOK, MsgStatus
    <3> QED BY <1>3, <3>1, QueueRecords DEF SweepUpdates, Pending
  <2> QED BY <1>2, <1>3, <2>1 DEF SweepUpdates
<1>4. ASSUME NEW w \in Worker, NEW c \in Call, MarkDelivered(w, c)
      PROVE  SendInv'
  <2>1. ASSUME NEW d \in Call
        PROVE  msg'[d] = msg[d] \/ (msg[d].status = "pending" /\ msg'[d].status # "none")
    <3>1. msg[d] \in MsgRow /\ "delivered" \in MsgStatus
      BY DEF TypeOK, MsgStatus
    <3> QED BY <1>4, <3>1, QueueRecords DEF MarkDelivered, Pending, TypeOK
  <2> QED BY <1>2, <1>4, <2>1 DEF MarkDelivered
<1>5. ASSUME NEW c \in Call, MsgTtlPasses(c)
      PROVE  SendInv'
  <2>1. ASSUME NEW d \in Call
        PROVE  msg'[d] = msg[d] \/ (msg[d].status = "pending" /\ msg'[d].status # "none")
    BY <1>5, QueueRecords DEF MsgTtlPasses, TypeOK
  <2> QED BY <1>2, <1>5, <2>1 DEF MsgTtlPasses
<1>6. ASSUME NEW c \in Call, SendAnswered(c) \/ SendFails(c)
      PROVE  SendInv'
  <2>1. Rows' = Rows
    BY <1>6 DEF SendAnswered, SendFails, Rows
  <2>2. PICK p \in {"sent", "lost"} :
          /\ call' = [call EXCEPT ![c].pc = p]
          /\ p = "sent" => call[c].pc = "enqueued"
          /\ p = "lost" => call[c].pc # "sent"
    BY <1>6 DEF SendAnswered, SendFails
  <2>3. /\ \A d \in Call : d # c => call'[d] = call[d]
        /\ call'[c].pc = p /\ call'[c].key = call[c].key
        /\ call'[c].id = call[c].id /\ call'[c].after = call[c].after
    BY <2>2, SendEffect
  <2> QED BY <2>1, <2>2, <2>3, QuietSendStep
<1>7. CASE UNCHANGED <<msg, call>>
  BY <1>2, <1>7
<1>8. ASSUME NEW w \in Worker, Boot(w) \/ SweepSelects(w) \/ SweepFails(w)
      PROVE  SendInv'
  BY <1>7, <1>8 DEF Boot, SweepSelects, SweepFails
<1> QED BY <1>1, <1>3, <1>4, <1>5, <1>6, <1>7, <1>8, SelectSend, InsertSend DEF Next, vars

LEMMA InitSendInv == Init => SendInv
BY DEF Init, SendInv, RowsHaveSends, AfterAnswered, FirstOfItsKey, IdNamesRow, Rows, NotSent

(***************************************************************************)
(* No second message of a send that had been answered before the retry     *)
(* came in, and the id in an answer names a row of the same key.           *)
(***************************************************************************)
THEOREM NoDuplicateOnRetry == Spec => []RetryNotDuplicated
<1>1. SendInv => RetryNotDuplicated
  BY DEF SendInv, FirstOfItsKey, IdNamesRow, RetryNotDuplicated, Rows, Answered
<1> QED BY <1>1, InitType, StepType, InitSendInv, StepSendInv, PTL DEF Spec

-----------------------------------------------------------------------------
(***************************************************************************)
(* The sweep.  What it did not expire was acked or expired meanwhile: the  *)
(* rows it found late are still rows, and a delivered row was acked.       *)
(***************************************************************************)

\* The table is finite, although the requests may not be.
RowsFinite == IsFiniteSet(Rows)

\* The recipient was answered "acked" exactly for the delivered rows.
AckedDelivered == \A c \in Call : c \in acked <=> msg[c].status = "delivered"

\* A pass knows rows only, and all late ones unless it was cut at its limit.
PassKnowsRows ==
    \A w \in Worker :
        /\ sweep[w].late \subseteq Rows /\ sweep[w].seen \subseteq sweep[w].late
        /\ sweep[w].seen = sweep[w].late \/ Cardinality(sweep[w].late) > SweepLimit

SweepInv == RowsFinite /\ AckedDelivered /\ PassKnowsRows

\* A sweep's SELECT.
LEMMA SelectSweep ==
    ASSUME TypeOK, SweepInv, NEW w \in Worker, SweepSelects(w)
    PROVE  SweepInv'
<1>1. PICK seen \in SUBSET Late :
        /\ IF Cardinality(Late) <= SweepLimit THEN seen = Late
                                              ELSE Cardinality(seen) = SweepLimit
        /\ sweep' = [sweep EXCEPT ![w] = [phase |-> "update", late |-> Late, seen |-> seen]]
  BY DEF SweepSelects
<1>2. Late \subseteq Rows /\ Rows' = Rows /\ acked' = acked /\ msg' = msg
  BY DEF Late, Pending, Rows, SweepSelects
<1>3. Cardinality(Late) \in Nat
  BY <1>2, FS_Subset, FS_CardinalityType DEF SweepInv, RowsFinite
<1>4. seen = Late \/ Cardinality(Late) > SweepLimit
  BY <1>1, <1>3, QueueConstants
<1>5. /\ sweep'[w].late = Late /\ sweep'[w].seen = seen
      /\ \A v \in Worker : v # w => sweep'[v] = sweep[v]
  BY <1>1 DEF TypeOK
<1> QED BY <1>1, <1>2, <1>4, <1>5 DEF SweepInv, RowsFinite, AckedDelivered, PassKnowsRows

\* A step that changes no row and in which passes only end.
LEMMA QuietSweepStep ==
    ASSUME SweepInv, Rows' = Rows,
           \A c \in Call : msg'[c].status = msg[c].status, acked' = acked,
           \A w \in Worker : sweep'[w] = sweep[w] \/ sweep'[w] = Asleep
    PROVE  SweepInv'
<1>1. Asleep.late = {} /\ Asleep.seen = {}
  BY DEF Asleep
<1> QED BY <1>1 DEF SweepInv, RowsFinite, AckedDelivered, PassKnowsRows

LEMMA StepSweepInv == TypeOK /\ SendInv /\ SweepInv /\ [Next]_vars => SweepInv'
<1> SUFFICES ASSUME TypeOK, SendInv, SweepInv, [Next]_vars
             PROVE  SweepInv'
  OBVIOUS
<1>1. CASE UNCHANGED <<msg, acked, sweep>>
  <2>1. Rows' = Rows
    BY <1>1 DEF Rows
  <2> QED BY <1>1, <2>1, QuietSweepStep
<1>2. ASSUME NEW w \in Worker, Boot(w)
      PROVE  SweepInv'
  BY <1>1, <1>2 DEF Boot
<1>3. ASSUME NEW w \in Worker, Crash(w) \/ SweepFails(w)
      PROVE  SweepInv'
  <2>1. Rows' = Rows /\ msg' = msg /\ acked' = acked
    BY <1>3 DEF Crash, SweepFails, Rows
  <2>2. \A v \in Worker : sweep'[v] = sweep[v] \/ sweep'[v] = Asleep
    BY <1>3 DEF Crash, SweepFails, TypeOK
  <2> QED BY <2>1, <2>2, QuietSweepStep
<1>4. ASSUME NEW w \in Worker, SweepUpdates(w)
      PROVE  SweepInv'
  <2>1. \A v \in Worker : sweep'[v] = sweep[v] \/ sweep'[v] = Asleep
    BY <1>4 DEF SweepUpdates, TypeOK
  <2>2. \A c \in Call : \/ msg'[c] = msg[c]
                        \/ msg[c].status = "pending" /\ msg'[c].status = "expired"
    <3>1. "expired" \in MsgStatus
      BY DEF MsgStatus
    <3> QED BY <1>4, <3>1, QueueRecords DEF SweepUpdates, Pending, TypeOK
  <2>3. Rows' = Rows
    BY <2>2, SameRows
  <2>4. acked' = acked
    BY <1>4 DEF SweepUpdates
  <2>5. Asleep.late = {} /\ Asleep.seen = {}
    BY DEF Asleep
  <2> QED BY <2>1, <2>2, <2>3, <2>4, <2>5
             DEF SweepInv, RowsFinite, AckedDelivered, PassKnowsRows
<1>5. ASSUME NEW w \in Worker, NEW c \in Call, MarkDelivered(w, c)
      PROVE  SweepInv'
  <2>1. \A d \in Call : d # c => msg'[d] = msg[d]
    BY <1>5 DEF MarkDelivered, TypeOK
  <2>2. msg[c].status = "pending" /\ msg'[c].status = "delivered"
    <3>1. "delivered" \in MsgStatus
      BY DEF MsgStatus
    <3> QED BY <1>5, <3>1, QueueRecords DEF MarkDelivered, Pending, TypeOK
  <2>3. Rows' = Rows
    BY <2>1, <2>2, SameRows
  <2>4. acked' = acked \cup {c} /\ sweep' = sweep
    BY <1>5 DEF MarkDelivered
  <2> QED BY <2>1, <2>2, <2>3, <2>4 DEF SweepInv, RowsFinite, AckedDelivered, PassKnowsRows
<1>6. ASSUME NEW c \in Call, EnqueueInserts(c)
      PROVE  SweepInv'
  <2>1. /\ \A d \in Call : d # c => msg'[d] = msg[d]
        /\ msg'[c].status = "pending"
    BY <1>6, InsertEffect
  <2>2. c \notin Rows
    BY <1>6 DEF EnqueueInserts, SendInv, RowsHaveSends
  <2>3. Rows' = Rows \cup {c} /\ msg[c].status = "none"
    BY <2>1, <2>2 DEF Rows
  <2>4. IsFiniteSet(Rows')
    BY <2>3, FS_AddElement DEF SweepInv, RowsFinite
  <2>5. acked' = acked /\ sweep' = sweep
    BY <1>6 DEF EnqueueInserts
  <2> QED BY <2>1, <2>3, <2>4, <2>5 DEF SweepInv, RowsFinite, AckedDelivered, PassKnowsRows
<1>7. ASSUME NEW c \in Call, MsgTtlPasses(c)
      PROVE  SweepInv'
  <2>1. \A d \in Call : msg'[d].status = msg[d].status
    BY <1>7, QueueRecords DEF MsgTtlPasses, TypeOK
  <2>2. Rows' = Rows
    BY <2>1 DEF Rows
  <2> QED BY <1>7, <2>1, <2>2, QuietSweepStep DEF MsgTtlPasses
<1>8. ASSUME NEW c \in Call, \/ SendAnswered(c) \/ SendFails(c)
                             \/ \E w \in Worker, k \in Key : EnqueueSelects(c, w, k)
      PROVE  SweepInv'
  BY <1>1, <1>8 DEF SendAnswered, SendFails, EnqueueSelects
<1> QED BY <1>1, <1>2, <1>3, <1>4, <1>5, <1>6, <1>7, <1>8, SelectSweep DEF Next, vars

LEMMA InitSweepInv == Init => SweepInv
<1> SUFFICES ASSUME Init
             PROVE  SweepInv
  OBVIOUS
<1>1. Rows = {}
  BY DEF Init, Rows
<1>2. RowsFinite
  BY <1>1, FS_EmptySet DEF RowsFinite
<1> QED BY <1>1, <1>2 DEF Init, SweepInv, AckedDelivered, PassKnowsRows, Asleep

\* What SweepReports says of one step and one worker.
Reports(w) ==
    sweep[w].phase = "update" /\ sweep'[w].phase = "asleep" /\ msg' # msg =>
        LET flipped == {c \in Rows : msg'[c] # msg[c]}
            seen == sweep[w].seen
        IN  /\ flipped \cap acked = {}
            /\ seen \ flipped \subseteq acked \cup {c \in Rows : msg[c].status = "expired"}
            /\ flipped \subseteq seen \/ Cardinality(sweep[w].late) > SweepLimit

\* Only its own UPDATE ends a pass and changes rows.
LEMMA OwnUpdate ==
    ASSUME TypeOK, [Next]_vars, NEW w \in Worker,
           sweep[w].phase = "update", sweep'[w].phase = "asleep", msg' # msg
    PROVE  SweepUpdates(w)
<1>1. sweep' # sweep
  OBVIOUS
<1>2. \E v \in Worker : SweepUpdates(v)
  BY <1>1 DEF Next, vars, Boot, Crash, SweepSelects, SweepFails, MarkDelivered,
              EnqueueSelects, EnqueueInserts, SendAnswered, SendFails, MsgTtlPasses
<1>3. PICK v \in Worker : SweepUpdates(v)
  BY <1>2
<1>4. v = w
  BY <1>3 DEF SweepUpdates, TypeOK
<1> QED BY <1>3, <1>4

LEMMA UpdateReports ==
    ASSUME TypeOK, SweepInv, NEW w \in Worker, SweepUpdates(w)
    PROVE  Reports(w)
<1> DEFINE flipped == {c \in Rows : msg'[c] # msg[c]}
<1>1. ASSUME NEW c \in Call
      PROVE  msg'[c] # msg[c] <=> c \in sweep[w].late \cap Pending
  <2>1. msg[c] \in MsgRow /\ "expired" \in MsgStatus
    BY DEF TypeOK, MsgStatus
  <2> QED BY <2>1, QueueRecords DEF SweepUpdates, Pending
<1>2. flipped = sweep[w].late \cap Pending
  BY <1>1 DEF Pending, Rows
<1>3. flipped \cap acked = {}
  BY <1>2 DEF SweepInv, AckedDelivered, Pending
<1>4. ASSUME NEW c \in sweep[w].seen, c \notin flipped
      PROVE  c \in acked \cup {d \in Rows : msg[d].status = "expired"}
  <2>1. c \in Rows /\ msg[c].status # "pending" /\ c \in Call
    BY <1>2, <1>4 DEF SweepInv, PassKnowsRows, Pending, Rows
  <2>2. msg[c].status \in {"delivered", "expired"}
    BY <2>1 DEF TypeOK, MsgRow, MsgStatus, Rows
  <2> QED BY <2>1, <2>2 DEF SweepInv, AckedDelivered
<1>5. flipped \subseteq sweep[w].seen \/ Cardinality(sweep[w].late) > SweepLimit
  BY <1>2 DEF SweepInv, PassKnowsRows
<1> QED BY <1>3, <1>4, <1>5 DEF Reports

(***************************************************************************)
(* A sweep undoes no ack, and reports what it did but for the rows that    *)
(* were settled in between and those past its limit.                       *)
(***************************************************************************)
THEOREM SweepReportsTruly == Spec => SweepReports
<1>1. TypeOK /\ SweepInv /\ [Next]_vars => \A w \in Worker : Reports(w)
  <2> SUFFICES ASSUME TypeOK, SweepInv, [Next]_vars, NEW w \in Worker
               PROVE  Reports(w)
    OBVIOUS
  <2>1. CASE sweep[w].phase = "update" /\ sweep'[w].phase = "asleep" /\ msg' # msg
    BY <2>1, OwnUpdate, UpdateReports
  <2>2. CASE ~(sweep[w].phase = "update" /\ sweep'[w].phase = "asleep" /\ msg' # msg)
    BY <2>2 DEF Reports
  <2> QED BY <2>1, <2>2
<1>2. Spec => [][\A w \in Worker : Reports(w)]_vars
  BY <1>1, InitType, StepType, InitSendInv, StepSendInv, InitSweepInv, StepSweepInv, PTL
     DEF Spec
<1>3. SweepReports <=> [][\A w \in Worker : Reports(w)]_vars
  BY DEF SweepReports, Reports
<1> QED BY <1>2, <1>3
=============================================================================
