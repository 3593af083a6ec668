-------------------------- MODULE AuditChainProofs --------------------------
(***************************************************************************)
(* Proofs about AuditChain for any number of workers and rows, any batch   *)
(* size and retry budget, and any of the faults.                           *)
(***************************************************************************)
EXTENDS AuditChain, SequenceTheorems, FiniteSetTheorems, FunctionTheorems, TLAPS

Entry == Nat \X Row

\* The digest a row stored right after chain_seq s must link to.
HashAt(t, s) == IF s = 0 THEN GenesisHash ELSE t[s].hash

\* t holds the chain_seq values 1..n, each row linked to the one before.
ChainOK(t, n) ==
    /\ DOMAIN t = 1..n
    /\ \A s \in 1..n :
          /\ t[s] \in StoredRow
          /\ t[s].prev = HashAt(t, s - 1)
          /\ t[s].hash = RowHash(s, t[s].row, t[s].prev)

\* A head that was read is a row of the table, perhaps no longer the last.
HeadOf(h, t, n) == h.seq \in 0..n /\ h.hash = HashAt(t, h.seq)

LEMMA HashAtType ==
    ASSUME NEW t, NEW n \in Nat, ChainOK(t, n), NEW s \in 0..n
    PROVE  HashAt(t, s) \in Digest
BY DEF ChainOK, HashAt, GenesisHash, StoredRow, Digest

\* What _audit_chain_head returns on a well formed chain.
LEMMA HeadOfChain ==
    ASSUME NEW t, NEW n \in Nat, ChainOK(t, n)
    PROVE  /\ AuditChainHead(t).seq = n
           /\ AuditChainHead(t).hash = HashAt(t, n)
           /\ AuditChainHead(t) \in ChainHead
<1>1. CASE n = 0
  BY <1>1 DEF ChainOK, AuditChainHead, HashAt, Genesis, GenesisHash,
      ChainHead, Digest
<1>2. CASE n # 0
  <2> DEFINE last == CHOOSE s \in DOMAIN t : \A u \in DOMAIN t : u <= s
  <2>1. n \in DOMAIN t /\ \A u \in DOMAIN t : u <= n
    BY <1>2 DEF ChainOK
  <2>2. last \in DOMAIN t /\ \A u \in DOMAIN t : u <= last
    BY <2>1
  <2>3. last = n
    BY <2>1, <2>2 DEF ChainOK
  <2>4. AuditChainHead(t) = [seq |-> n, hash |-> t[n].hash]
    BY <2>1, <2>3 DEF AuditChainHead
  <2>5. t[n].hash \in Digest
    BY <1>2 DEF ChainOK, StoredRow
  <2> QED BY <1>2, <2>4, <2>5 DEF HashAt, ChainHead, Digest, Entry
<1> QED BY <1>1, <1>2

LEMMA ConcatAppend ==
    ASSUME NEW S, NEW s \in Seq(S), NEW t \in Seq(S), NEW e \in S
    PROVE  s \o Append(t, e) = Append(s \o t, e)
<1> DEFINE lhs == s \o Append(t, e)
           rhs == Append(s \o t, e)
<1>1. Append(t, e) \in Seq(S) /\ s \o t \in Seq(S)
  BY AppendProperties, ConcatProperties
<1>2. lhs \in Seq(S) /\ rhs \in Seq(S)
  BY <1>1, AppendProperties, ConcatProperties
<1>3. Len(lhs) = Len(s) + Len(t) + 1 /\ Len(rhs) = Len(s) + Len(t) + 1
  BY <1>1
<1>4. \A i \in 1..Len(lhs) : lhs[i] = rhs[i]
  BY <1>1, <1>3
<1> HIDE DEF lhs, rhs
<1>5. lhs = rhs
  BY <1>2, <1>3, <1>4, SeqEqual
<1> QED BY <1>5 DEF lhs, rhs

\* Hashing one more row of a batch extends running_prev by that row.
LEMMA RunningPrevStep ==
    ASSUME NEW h \in ChainHead, NEW b \in Seq(Row), NEW i \in 1..Len(b)
    PROVE  /\ RunningPrev(h, b, i - 1) \in Digest
           /\ RunningPrev(h, b, i) \in Digest
           /\ RowHash(h.seq + i, b[i], RunningPrev(h, b, i - 1))
                = RunningPrev(h, b, i)
           /\ RunningPrev(h, b, 0) = h.hash
<1> DEFINE ext(k) == [j \in 1..k |-> <<h.seq + j, b[j]>>]
<1>1. \A k \in 0..Len(b) : ext(k) \in Digest /\ Len(ext(k)) = k
  BY DEF Digest, Entry, ChainHead
<1>2. h.hash \in Digest
  BY DEF ChainHead, Digest, Entry
<1>3. \A k \in 0..Len(b) : RunningPrev(h, b, k) = h.hash \o ext(k)
  BY DEF RunningPrev
<1>4. \A k \in 0..Len(b) : RunningPrev(h, b, k) \in Digest
  <2> TAKE k \in 0..Len(b)
  <2>1. ext(k) \in Seq(Entry) /\ h.hash \in Seq(Entry)
    BY <1>1, <1>2 DEF Digest, Entry
  <2> HIDE DEF ext
  <2>2. h.hash \o ext(k) \in Seq(Entry)
    BY <2>1, ConcatProperties
  <2> QED BY <1>3, <2>2 DEF Digest, Entry
<1>5. ext(i) = Append(ext(i - 1), <<h.seq + i, b[i]>>)
  OBVIOUS
<1>6. <<h.seq + i, b[i]>> \in Entry
  BY DEF Entry, ChainHead
<1>7. h.hash \o ext(i) = Append(h.hash \o ext(i - 1), <<h.seq + i, b[i]>>)
  <2> DEFINE e == <<h.seq + i, b[i]>>
  <2>1. ext(i - 1) \in Seq(Entry) /\ h.hash \in Seq(Entry) /\ e \in Entry
    BY <1>1, <1>2, <1>6 DEF Digest, Entry
  <2>2. ext(i) = Append(ext(i - 1), e)
    BY <1>5
  <2> HIDE DEF ext, e
  <2>7. h.hash \o ext(i) = Append(h.hash \o ext(i - 1), e)
    <3> DEFINE x == h.hash
               y == ext(i - 1)
    <3>1. x \in Seq(Entry) /\ y \in Seq(Entry) /\ e \in Entry
      BY <2>1
    <3> HIDE DEF x, y
    <3>2. x \o Append(y, e) = Append(x \o y, e)
      BY <3>1, ConcatAppend
    <3> QED BY <2>2, <3>2 DEF x, y
  <2> QED BY <2>7 DEF e
<1>8. RunningPrev(h, b, 0) = h.hash
  <2>1. ext(0) = <<>>
    OBVIOUS
  <2>2. h.hash \in Seq(Entry) /\ 0 \in 0..Len(b)
    BY <1>2 DEF Digest, Entry
  <2> HIDE DEF ext
  <2>3. h.hash \o <<>> = h.hash
    BY <2>2, ConcatEmptySeq
  <2> QED BY <1>3, <2>1, <2>2, <2>3
<1>9. i \in 0..Len(b) /\ i - 1 \in 0..Len(b)
  OBVIOUS
<1> HIDE DEF ext
<1> QED
  BY <1>3, <1>4, <1>7, <1>8, <1>9 DEF RowHash

\* Table u is the chain t of n rows followed by the rows of b.
Extends(u, t, n, b) ==
    /\ ChainOK(u, n + Len(b))
    /\ \A s \in 1..n : u[s] = t[s]
    /\ \A i \in 1..Len(b) : u[n + i].row = b[i]

\* An INSERT that UNIQUE(chain_seq) accepts was hashed on top of the current
\* last row, and leaves a well formed chain that extends the old one.
LEMMA InsertKeepsChain ==
    ASSUME NEW t, NEW n \in Nat, ChainOK(t, n),
           NEW h \in ChainHead, HeadOf(h, t, n),
           NEW b \in Seq(Row), b # <<>>,
           Unique(t, h, b)
    PROVE  Extends(Inserted(t, h, b), t, n, b)
<1> DEFINE u == Inserted(t, h, b)
<1>1. Len(b) \in Nat \ {0} /\ \A i \in 1..Len(b) : b[i] \in Row
  <2>1. Len(b) \in Nat \ {0}
    BY EmptySeq
  <2>2. \A i \in 1..Len(b) : b[i] \in Row
    OBVIOUS
  <2> QED BY <2>1, <2>2
<1>2. h.seq = n
  <2>1. h.seq \in 0..n /\ DOMAIN t = 1..n
    BY DEF HeadOf, ChainOK
  <2>2. h.seq + 1 \in Claimed(h, b)
    BY <1>1, <2>1 DEF Claimed
  <2>3. h.seq + 1 \notin 1..n
    BY <2>1, <2>2 DEF Unique
  <2> QED BY <2>1, <2>3
<1>3. DOMAIN u = 1..(n + Len(b))
  BY <1>1, <1>2 DEF Inserted, Claimed, ChainOK
<1>4. \A s \in 1..n : u[s] = t[s]
  BY <1>1, <1>2 DEF Inserted, Claimed, ChainOK
<1>5. \A i \in 1..Len(b) : u[n + i] = InsertParams(h, b, i)
  BY <1>1, <1>2 DEF Inserted, Claimed, ChainOK
<1>6. ASSUME NEW i \in 1..Len(b)
      PROVE  /\ u[n + i] \in StoredRow
             /\ u[n + i].row = b[i]
             /\ u[n + i].prev = RunningPrev(h, b, i - 1)
             /\ u[n + i].hash = RunningPrev(h, b, i)
             /\ u[n + i].hash = RowHash(n + i, u[n + i].row, u[n + i].prev)
  <2>1. u[n + i] = [row  |-> b[i],
                    prev |-> RunningPrev(h, b, i - 1),
                    hash |-> RowHash(n + i, b[i], RunningPrev(h, b, i - 1))]
    BY <1>2, <1>5 DEF InsertParams
  <2>2. /\ RunningPrev(h, b, i - 1) \in Digest
        /\ RunningPrev(h, b, i) \in Digest
        /\ RowHash(n + i, b[i], RunningPrev(h, b, i - 1))
             = RunningPrev(h, b, i)
    BY <1>2, RunningPrevStep
  <2> HIDE DEF u
  <2> QED BY <1>1, <2>1, <2>2 DEF StoredRow
<1>7. ASSUME NEW i \in 1..Len(b)
      PROVE  u[n + i].prev = HashAt(u, n + i - 1)
  <2>1. CASE i = 1
    <3>1. u[n + 1].prev = h.hash
      BY <1>6, <2>1, RunningPrevStep
    <3>2. h.hash = HashAt(t, n)
      BY <1>2 DEF HeadOf
    <3>3. HashAt(u, n) = HashAt(t, n)
      BY <1>4 DEF HashAt
    <3> QED BY <2>1, <3>1, <3>2, <3>3
  <2>2. CASE i # 1
    <3>1. i - 1 \in 1..Len(b) /\ n + i - 1 = n + (i - 1) /\ n + i - 1 # 0
      BY <2>2
    <3>2. u[n + (i - 1)].hash = RunningPrev(h, b, i - 1)
      BY <1>6, <3>1
    <3> QED BY <1>6, <3>1, <3>2 DEF HashAt
  <2> QED BY <2>1, <2>2
<1>8. ASSUME NEW s \in 1..(n + Len(b))
      PROVE  /\ u[s] \in StoredRow
             /\ u[s].prev = HashAt(u, s - 1)
             /\ u[s].hash = RowHash(s, u[s].row, u[s].prev)
  <2>1. CASE s <= n
    <3>1. s \in 1..n /\ (s - 1 = 0 \/ s - 1 \in 1..n)
      BY <2>1
    <3>2. HashAt(u, s - 1) = HashAt(t, s - 1)
      BY <1>4, <3>1 DEF HashAt
    <3>3. u[s] = t[s]
      BY <1>4, <3>1
    <3> HIDE DEF u
    <3> QED BY <3>1, <3>2, <3>3 DEF ChainOK
  <2>2. CASE s > n
    <3>1. s - n \in 1..Len(b) /\ s = n + (s - n)
      BY <1>1, <2>2
    <3> HIDE DEF u
    <3>2. PICK i \in 1..Len(b) : s = n + i
      BY <3>1
    <3> QED BY <1>6, <1>7, <3>2
  <2> QED BY <2>1, <2>2
<1>9. ChainOK(u, n + Len(b))
  BY <1>3, <1>8 DEF ChainOK
<1> QED BY <1>4, <1>6, <1>9 DEF Extends

-----------------------------------------------------------------------------
(***************************************************************************)
(* Types.  The only step that needs more than types is ReadHead: the head  *)
(* of a table is well defined because the table is a chain.                *)
(***************************************************************************)
LEMMA FreeType == Free \in WriterType
BY EmptySeq DEF Free, Writing, WriterType, WriteBy, Genesis, GenesisHash,
    ChainHead, Digest

LEMMA WritingType ==
    ASSUME NEW by \in WriteBy, NEW b \in Seq(Row)
    PROVE  Writing(by, b) \in WriterType
BY DEF Writing, WriterType, Genesis, GenesisHash, ChainHead, Digest

LEMMA WriterReads ==
    ASSUME NEW f \in WriterType, NEW h \in ChainHead
    PROVE  [f EXCEPT !.phase = "read", !.head = h] \in WriterType
<1>1. [f EXCEPT !.phase = "read"] \in WriterType
  BY DEF WriterType
<1>2. ASSUME NEW g \in WriterType
      PROVE  [g EXCEPT !.head = h] \in WriterType
  BY DEF WriterType
<1>3. [f EXCEPT !.phase = "read", !.head = h]
        = [[f EXCEPT !.phase = "read"] EXCEPT !.head = h]
  BY DEF WriterType
<1> QED BY <1>1, <1>2, <1>3

LEMMA WriterInserts ==
    ASSUME NEW f \in WriterType
    PROVE  [f EXCEPT !.phase = "done"] \in WriterType
BY DEF WriterType

LEMMA WriterRetries ==
    ASSUME NEW f \in WriterType
    PROVE  [f EXCEPT !.phase = "open", !.attempt = f.attempt + 1]
             \in WriterType
<1>1. [f EXCEPT !.phase = "open"] \in WriterType
  BY DEF WriterType
<1>2. ASSUME NEW g \in WriterType, NEW n \in Nat
      PROVE  [g EXCEPT !.attempt = n] \in WriterType
  BY DEF WriterType
<1>3. f.attempt + 1 \in Nat
  BY DEF WriterType
<1>4. [f EXCEPT !.phase = "open", !.attempt = f.attempt + 1]
        = [[f EXCEPT !.phase = "open"] EXCEPT !.attempt = f.attempt + 1]
  BY DEF WriterType
<1> QED BY <1>1, <1>2, <1>3, <1>4

LEMMA ProcessTypeStep ==
    ASSUME TypeOK, AuditChainHead(table) \in ChainHead, Next
    PROVE  ProcessType'
<1> USE DEF TypeOK, ProcessType, Lock
<1>1. ASSUME NEW r \in Row, NEW w \in Worker,
             LogAudit(r, w) \/ DetailTooLarge(r, w)
      PROVE  ProcessType'
  BY <1>1 DEF LogAudit, DetailTooLarge
<1>2. ASSUME NEW r \in Row, ChainAppend(r), at[r] \in Worker
      PROVE  ProcessType'
  <2>1. Append(pending[at[r]], r) \in Seq(Row)
    BY <1>2, AppendProperties
  <2>2. Writing("append", Append(pending[at[r]], r)) \in WriterType
    BY <2>1, WritingType DEF WriteBy
  <2>3. CASE /\ pending' = [pending EXCEPT ![at[r]] =
                              Append(pending[at[r]], r)]
             /\ UNCHANGED writer
    BY <1>2, <2>1, <2>3 DEF ChainAppend
  <2>4. CASE /\ pending' = [pending EXCEPT ![at[r]] = <<>>]
             /\ writer' = [writer EXCEPT ![at[r]]["chain"] =
                             Writing("append", Append(pending[at[r]], r))]
    <3>1. pending' \in [Worker -> Seq(Row)]
      BY <2>4, EmptySeq
    <3>2. writer' \in [Worker -> [Lock -> WriterType]]
      BY <1>2, <2>2, <2>4
    <3> QED BY <1>2, <3>1, <3>2 DEF ChainAppend
  <2> QED BY <1>2, <2>3, <2>4 DEF ChainAppend
<1>3. ASSUME NEW r \in Row, PerRowStart(r), at[r] \in Worker
      PROVE  ProcessType'
  <2>1. <<r>> \in Seq(Row)
    OBVIOUS
  <2>2. Writing("log_audit", <<r>>) \in WriterType
    BY <2>1, WritingType DEF WriteBy
  <2> QED BY <1>3, <2>2 DEF PerRowStart
<1>4. ASSUME NEW w \in Worker, NEW by \in {"loop", "stop"}, FlushNow(w, by)
      PROVE  /\ writer' \in [Worker -> [Lock -> WriterType]]
             /\ pending' \in [Worker -> Seq(Row)]
  <2>1. Writing(by, pending[w]) \in WriterType
    BY WritingType DEF WriteBy
  <2> QED BY <1>4, <2>1, EmptySeq DEF FlushNow
<1>5. ASSUME NEW w \in Worker, PeriodicFlush(w)
      PROVE  ProcessType'
  BY <1>4, <1>5 DEF PeriodicFlush
<1>6. ASSUME NEW w \in Worker, NEW l \in Lock, ReadHead(w, l)
      PROVE  ProcessType'
  <2>0. writer[w][l] \in WriterType
    OBVIOUS
  <2>1. [writer[w][l] EXCEPT !.phase = "read", !.head = AuditChainHead(table)]
          \in WriterType
    BY <2>0, WriterReads
  <2> QED BY <1>6, <2>1 DEF ReadHead
<1>7. ASSUME NEW w \in Worker, NEW l \in Lock, Insert(w, l)
      PROVE  ProcessType'
  <2>0. writer[w][l] \in WriterType
    OBVIOUS
  <2>1. [writer[w][l] EXCEPT !.phase = "done"] \in WriterType
    BY <2>0, WriterInserts
  <2> QED BY <1>7, <2>1 DEF Insert
<1>8. ASSUME NEW w \in Worker, NEW l \in Lock, Retry(w, l)
      PROVE  ProcessType'
  <2>0. writer[w][l] \in WriterType
    OBVIOUS
  <2>1. [writer[w][l] EXCEPT !.phase = "open",
                             !.attempt = writer[w][l].attempt + 1]
          \in WriterType
    BY <2>0, WriterRetries
  <2> QED BY <1>8, <2>1 DEF Retry
<1>9. ASSUME NEW w \in Worker, NEW l \in Lock, NEW a, Finish(w, l, a)
      PROVE  /\ writer' \in [Worker -> [Lock -> WriterType]]
             /\ stop' \in [Worker -> {"no", "draining", "stopped"}]
             /\ UNCHANGED <<durable, instance, pending, at>>
  BY <1>9, FreeType DEF Finish
<1>10. ASSUME NEW w \in Worker, NEW l \in Lock,
              Return(w, l) \/ DatabaseError(w, l)
       PROVE  ProcessType'
  BY <1>9, <1>10 DEF Return, DatabaseError
<1>11. ASSUME NEW w \in Worker, NEW l \in Lock, Exhausted(w, l)
       PROVE  ProcessType'
  <2>1. unhealthy' \in [Worker -> BOOLEAN]
    BY <1>11 DEF Exhausted
  <2> QED BY <1>9, <1>11, <2>1 DEF Exhausted
<1>12. ASSUME NEW w \in Worker, StopCancel(w)
       PROVE  ProcessType'
  BY <1>12, FreeType DEF StopCancel
<1>13. ASSUME NEW w \in Worker, StopDrain(w)
       PROVE  ProcessType'
  BY <1>4, <1>13 DEF StopDrain
<1>14. ASSUME NEW w \in Worker, NewProcess(w)
       PROVE  ProcessType'
  BY <1>14, FreeType, EmptySeq DEF NewProcess
<1>15. ASSUME NEW w \in Worker, WorkerStep(w)
       PROVE  ProcessType'
  BY <1>2, <1>3, <1>5, <1>6, <1>7, <1>8, <1>10, <1>11, <1>13, <1>15
     DEF WorkerStep
<1>16. CASE Idle
  BY <1>16 DEF Idle, vars
<1> QED
  BY <1>1, <1>10, <1>12, <1>14, <1>15, <1>16 DEF Next, Exit, Crash

LEMMA CallTypeStep ==
    ASSUME TypeOK, Next
    PROVE  CallType'
<1> USE DEF TypeOK, CallType, InCall, Answer
<1>1. ASSUME NEW r \in Row, NEW w \in Worker,
             LogAudit(r, w) \/ DetailTooLarge(r, w)
      PROVE  CallType'
  BY <1>1 DEF LogAudit, DetailTooLarge
<1>2. ASSUME NEW r \in Row, ChainAppend(r) \/ PerRowStart(r)
      PROVE  CallType'
  BY <1>2 DEF ChainAppend, PerRowStart
<1>3. ASSUME NEW w \in Worker,
             PeriodicFlush(w) \/ StopDrain(w) \/ StopCancel(w)
      PROVE  CallType'
  BY <1>3 DEF PeriodicFlush, StopDrain, StopCancel
<1>4. ASSUME NEW w \in Worker, NEW l \in Lock,
             ReadHead(w, l) \/ Insert(w, l) \/ Retry(w, l)
      PROVE  CallType'
  BY <1>4 DEF ReadHead, Insert, Retry
<1>5. ASSUME NEW w \in Worker, NEW l \in Lock, NEW a \in Answer, Finish(w, l, a)
      PROVE  CallType'
  BY <1>5 DEF Finish
<1>6. ASSUME NEW w \in Worker, NEW l \in Lock,
             Return(w, l) \/ Exhausted(w, l) \/ DatabaseError(w, l)
      PROVE  CallType'
  BY <1>5, <1>6 DEF Return, Exhausted, DatabaseError
<1>7. ASSUME NEW w \in Worker, NewProcess(w)
      PROVE  CallType'
  BY <1>7 DEF NewProcess
<1>8. CASE Idle
  BY <1>8 DEF Idle, vars
<1> QED
  BY <1>1, <1>2, <1>3, <1>4, <1>6, <1>7, <1>8
     DEF Next, WorkerStep, Exit, Crash

-----------------------------------------------------------------------------
(***************************************************************************)
(* The inductive invariant behind ChainVerifies.  A writer may hold a head *)
(* that is no longer the last row; what matters is that it is a row of the *)
(* chain, so that UNIQUE(chain_seq) refuses every batch hashed on top of   *)
(* it unless it is still the last.                                         *)
(***************************************************************************)
HeadsOK(n) ==
    \A w \in Worker, l \in Lock :
        writer[w][l].phase = "read" => HeadOf(writer[w][l].head, table, n)

ChainInv == \E n \in Nat : ChainOK(table, n) /\ HeadsOK(n)

\* A lock is held for a batch with at least one row.
BatchInv ==
    \A w \in Worker, l \in Lock :
        /\ writer[w][l].by # "none" => writer[w][l].batch # <<>>
        /\ writer[w][l].phase # "open" => writer[w][l].by # "none"

Inv == TypeOK /\ ChainInv /\ BatchInv

LEMMA BatchInvStep ==
    ASSUME TypeOK, BatchInv, Next
    PROVE  BatchInv'
<1> USE DEF TypeOK, ProcessType, Lock
<1> DEFINE Good(f) == /\ f.by # "none" => f.batch # <<>>
                      /\ f.phase # "open" => f.by # "none"
<1>1. Good(Free)
  BY DEF Free, Writing
<1>2. ASSUME NEW by, NEW b, b # <<>>
      PROVE  Good(Writing(by, b))
  BY <1>2 DEF Writing
<1>3. \A w \in Worker, l \in Lock : Good(writer[w][l])
  BY DEF BatchInv
<1>4. SUFFICES \A w \in Worker, l \in Lock : Good(writer'[w][l])
  BY DEF BatchInv
<1>5. ASSUME UNCHANGED writer
      PROVE  \A w \in Worker, l \in Lock : Good(writer'[w][l])
  BY <1>3, <1>5
<1>6. ASSUME NEW w \in Worker, NEW l \in Lock, NEW f, Good(f),
             writer' = [writer EXCEPT ![w][l] = f]
      PROVE  \A v \in Worker, k \in Lock : Good(writer'[v][k])
  <2> HIDE DEF Good
  <2> QED BY <1>3, <1>6
<1>7. ASSUME NEW r \in Row, ChainAppend(r), at[r] \in Worker
      PROVE  \A w \in Worker, l \in Lock : Good(writer'[w][l])
  <2>1. Append(pending[at[r]], r) # <<>>
    BY <1>7, AppendProperties
  <2>2. Good(Writing("append", Append(pending[at[r]], r)))
    BY <1>2, <2>1
  <2> HIDE DEF Good
  <2> QED BY <1>5, <1>6, <1>7, <2>2 DEF ChainAppend
<1>8. ASSUME NEW r \in Row, PerRowStart(r), at[r] \in Worker
      PROVE  \A w \in Worker, l \in Lock : Good(writer'[w][l])
  <2>1. Good(Writing("log_audit", <<r>>))
    BY <1>2
  <2> HIDE DEF Good
  <2> QED BY <1>6, <1>8, <2>1 DEF PerRowStart
<1>9. ASSUME NEW w \in Worker, NEW by, FlushNow(w, by)
      PROVE  \A v \in Worker, l \in Lock : Good(writer'[v][l])
  <2>1. Good(Writing(by, pending[w]))
    BY <1>2, <1>9 DEF FlushNow
  <2> HIDE DEF Good
  <2> QED BY <1>6, <1>9, <2>1 DEF FlushNow
<1>10. ASSUME NEW w \in Worker, NEW l \in Lock,
              ReadHead(w, l) \/ Insert(w, l) \/ Retry(w, l)
       PROVE  \A v \in Worker, k \in Lock : Good(writer'[v][k])
  <2> DEFINE f == writer[w][l]
  <2>1. f \in WriterType /\ Good(f)
    BY <1>3
  <2>2. CASE ReadHead(w, l)
    <3>1. Good([f EXCEPT !.phase = "read", !.head = AuditChainHead(table)])
      BY <2>1, <2>2 DEF ReadHead, LockFree, WriterType
    <3> HIDE DEF Good
    <3> QED BY <1>6, <2>2, <3>1 DEF ReadHead
  <2>3. CASE Insert(w, l)
    <3>1. Good([f EXCEPT !.phase = "done"])
      BY <2>1, <2>3 DEF Insert, WriterType
    <3> HIDE DEF Good
    <3> QED BY <1>6, <2>3, <3>1 DEF Insert
  <2>4. CASE Retry(w, l)
    <3>1. Good([f EXCEPT !.phase = "open", !.attempt = f.attempt + 1])
      BY <2>1, <2>4 DEF Retry, WriterType
    <3> HIDE DEF Good
    <3> QED BY <1>6, <2>4, <3>1 DEF Retry
  <2> QED BY <1>10, <2>2, <2>3, <2>4
<1>11. ASSUME NEW w \in Worker, NEW l \in Lock, NEW a, Finish(w, l, a)
       PROVE  \A v \in Worker, k \in Lock : Good(writer'[v][k])
  <2> HIDE DEF Good
  <2> QED BY <1>1, <1>6, <1>11 DEF Finish
<1>12. ASSUME NEW w \in Worker, StopCancel(w)
       PROVE  \A v \in Worker, k \in Lock : Good(writer'[v][k])
  <2>1. Good(IF writer[w]["chain"].by = "loop" THEN Free
             ELSE writer[w]["chain"])
    BY <1>1, <1>3
  <2> HIDE DEF Good
  <2> QED BY <1>6, <1>12, <2>1 DEF StopCancel
<1>13. ASSUME NEW w \in Worker, NewProcess(w)
       PROVE  \A v \in Worker, k \in Lock : Good(writer'[v][k])
  <2> HIDE DEF Good
  <2> QED BY <1>1, <1>3, <1>13 DEF NewProcess
<1> HIDE DEF Good
<1>14. CASE \E r \in Row, w \in Worker : LogAudit(r, w) \/ DetailTooLarge(r, w)
  BY <1>5, <1>14 DEF LogAudit, DetailTooLarge
<1>15. ASSUME NEW w \in Worker, PeriodicFlush(w) \/ StopDrain(w)
       PROVE  \A v \in Worker, k \in Lock : Good(writer'[v][k])
  BY <1>5, <1>9, <1>15 DEF PeriodicFlush, StopDrain
<1>16. ASSUME NEW w \in Worker, NEW l \in Lock,
              Return(w, l) \/ Exhausted(w, l) \/ DatabaseError(w, l)
       PROVE  \A v \in Worker, k \in Lock : Good(writer'[v][k])
  BY <1>11, <1>16 DEF Return, Exhausted, DatabaseError
<1>17. CASE Idle
  BY <1>5, <1>17 DEF Idle, vars
<1> QED
  BY <1>7, <1>8, <1>10, <1>12, <1>13, <1>14, <1>15, <1>16, <1>17
     DEF Next, WorkerStep, Exit, Crash

\* A step other than Insert leaves the table alone, and a writer that has a
\* head after it had it before or has just read it.
LEMMA QuietStep ==
    ASSUME TypeOK, Next,
           \A w \in Worker, l \in Lock : ~Insert(w, l)
    PROVE  /\ table' = table
           /\ \A w \in Worker, l \in Lock :
                 writer'[w][l].phase = "read" =>
                    \/ /\ writer[w][l].phase = "read"
                       /\ writer'[w][l].head = writer[w][l].head
                    \/ writer'[w][l].head = AuditChainHead(table)
<1> USE DEF TypeOK, ProcessType, Lock
<1> DEFINE Kept(g, f) ==
             g.phase = "read" => \/ f.phase = "read" /\ g.head = f.head
                                \/ g.head = AuditChainHead(table)
           Quiet == /\ table' = table
                    /\ \A w \in Worker, l \in Lock :
                          Kept(writer'[w][l], writer[w][l])
<1> SUFFICES Quiet
  OBVIOUS
<1>1. ASSUME NEW f PROVE Kept(f, f) /\ Kept(Free, f)
  BY DEF Free, Writing
<1>2. ASSUME NEW f, NEW by, NEW b PROVE Kept(Writing(by, b), f)
  BY DEF Writing
<1>3. ASSUME NEW w \in Worker, NEW l \in Lock, NEW g, Kept(g, writer[w][l]),
             writer' = [writer EXCEPT ![w][l] = g], table' = table
      PROVE  Quiet
  <2> HIDE DEF Kept
  <2> QED BY <1>1, <1>3
<1>4. ASSUME UNCHANGED <<table, writer>> PROVE Quiet
  <2> HIDE DEF Kept
  <2> QED BY <1>1, <1>4
<1>5. ASSUME NEW w \in Worker, NEW l \in Lock,
             ReadHead(w, l) \/ Retry(w, l)
      PROVE  Quiet
  <2> DEFINE f == writer[w][l]
  <2>1. f \in WriterType
    OBVIOUS
  <2>2. CASE ReadHead(w, l)
    <3>1. Kept([f EXCEPT !.phase = "read", !.head = AuditChainHead(table)], f)
      BY <2>1 DEF WriterType
    <3> HIDE DEF Kept, Quiet
    <3> QED BY <1>3, <2>2, <3>1 DEF ReadHead
  <2>3. CASE Retry(w, l)
    <3>1. Kept([f EXCEPT !.phase = "open", !.attempt = f.attempt + 1], f)
      BY <2>1 DEF WriterType
    <3> HIDE DEF Kept, Quiet
    <3> QED BY <1>3, <2>3, <3>1 DEF Retry
  <2> QED BY <1>5, <2>2, <2>3
<1>6. ASSUME NEW w \in Worker, StopCancel(w)
      PROVE  Quiet
  <2>1. Kept(IF writer[w]["chain"].by = "loop" THEN Free
             ELSE writer[w]["chain"], writer[w]["chain"])
    BY <1>1
  <2> HIDE DEF Kept, Quiet
  <2> QED BY <1>3, <1>6, <2>1 DEF StopCancel
<1>7. ASSUME NEW w \in Worker, NewProcess(w)
      PROVE  Quiet
  <2> HIDE DEF Kept
  <2> QED BY <1>1, <1>7 DEF NewProcess
<1> HIDE DEF Kept, Quiet
<1>8. ASSUME NEW w \in Worker, NEW l \in Lock,
             Return(w, l) \/ Exhausted(w, l) \/ DatabaseError(w, l)
      PROVE  Quiet
  BY <1>1, <1>3, <1>8 DEF Return, Exhausted, DatabaseError, Finish
<1>9. ASSUME NEW r \in Row, ChainAppend(r) \/ PerRowStart(r), at[r] \in Worker
      PROVE  Quiet
  <2>1. ASSUME NEW l \in Lock, NEW by, NEW b, table' = table,
               writer' = [writer EXCEPT ![at[r]][l] = Writing(by, b)]
        PROVE  Quiet
    BY <1>2, <1>3, <1>9, <2>1
  <2>2. CASE ChainAppend(r)
    BY <1>4, <2>1, <2>2 DEF ChainAppend
  <2>3. CASE PerRowStart(r)
    BY <2>1, <2>3 DEF PerRowStart
  <2> QED BY <1>9, <2>2, <2>3
<1>10. ASSUME NEW w \in Worker, PeriodicFlush(w) \/ StopDrain(w)
       PROVE  Quiet
  BY <1>2, <1>3, <1>4, <1>10 DEF PeriodicFlush, StopDrain, FlushNow
<1>11. CASE \E r \in Row, w \in Worker : LogAudit(r, w) \/ DetailTooLarge(r, w)
  BY <1>4, <1>11 DEF LogAudit, DetailTooLarge
<1>12. CASE Idle
  BY <1>4, <1>12 DEF Idle, vars
<1>13. ASSUME NEW w \in Worker, WorkerStep(w)
       PROVE  Quiet
  BY <1>5, <1>8, <1>9, <1>10, <1>13 DEF WorkerStep
<1>14. ASSUME NEW w \in Worker,
              \/ \E l \in Lock : DatabaseError(w, l)
              \/ StopCancel(w) \/ Exit(w) \/ Crash(w)
       PROVE  Quiet
  BY <1>6, <1>7, <1>8, <1>14 DEF Exit, Crash
<1> QED
  BY <1>11, <1>12, <1>13, <1>14 DEF Next

\* What an INSERT under the invariant does to the table.
LEMMA InsertStep ==
    ASSUME Inv, NEW w \in Worker, NEW l \in Lock, Insert(w, l),
           NEW n \in Nat, ChainOK(table, n), HeadsOK(n)
    PROVE  /\ ChainOK(table', n + Len(writer[w][l].batch))
           /\ \A s \in 1..n : table'[s] = table[s]
           /\ \A i \in 1..Len(writer[w][l].batch) :
                 table'[n + i].row = writer[w][l].batch[i]
           /\ Len(writer[w][l].batch) \in Nat
<1> DEFINE f == writer[w][l]
<1>1. f \in WriterType
  BY DEF Inv, TypeOK, ProcessType
<1>2. /\ f.head \in ChainHead
      /\ f.batch \in Seq(Row)
      /\ f.phase = "read"
      /\ f.batch # <<>>
      /\ HeadOf(f.head, table, n)
      /\ Unique(table, f.head, f.batch)
      /\ table' = Inserted(table, f.head, f.batch)
  BY <1>1 DEF WriterType, Insert, Inv, BatchInv, HeadsOK
<1> HIDE DEF f
<1>3. Extends(Inserted(table, f.head, f.batch), table, n, f.batch)
  BY <1>2, InsertKeepsChain
<1>4. Extends(table', table, n, f.batch)
  BY <1>2, <1>3
<1>5. Len(f.batch) \in Nat
  BY <1>2
<1> QED BY <1>4, <1>5 DEF Extends, f

LEMMA ChainInvStep ==
    ASSUME Inv, Next
    PROVE  ChainInv'
<1>1. PICK n \in Nat : ChainOK(table, n) /\ HeadsOK(n)
  BY DEF Inv, ChainInv
<1>2. CASE \A w \in Worker, l \in Lock : ~Insert(w, l)
  <2>1. /\ table' = table
        /\ \A w \in Worker, l \in Lock :
              writer'[w][l].phase = "read" =>
                 \/ /\ writer[w][l].phase = "read"
                    /\ writer'[w][l].head = writer[w][l].head
                 \/ writer'[w][l].head = AuditChainHead(table)
    BY <1>2, QuietStep DEF Inv
  <2>2. HeadOf(AuditChainHead(table), table, n)
    BY <1>1, HeadOfChain DEF HeadOf
  <2>3. HeadsOK(n)'
    BY <1>1, <2>1, <2>2 DEF HeadsOK
  <2>4. ChainOK(table', n)
    BY <1>1, <2>1
  <2> QED BY <2>3, <2>4 DEF ChainInv
<1>3. ASSUME NEW w \in Worker, NEW l \in Lock, Insert(w, l)
      PROVE  ChainInv'
  <2> DEFINE m == n + Len(writer[w][l].batch)
  <2>1. /\ ChainOK(table', m)
        /\ \A s \in 1..n : table'[s] = table[s]
        /\ m \in Nat /\ m >= n
    BY <1>1, <1>3, InsertStep
  <2>2. ASSUME NEW h, HeadOf(h, table, n)
        PROVE  HeadOf(h, table', m)
    BY <2>1, <2>2 DEF HeadOf, HashAt
  <2>3. writer' = [writer EXCEPT ![w][l] =
                     [writer[w][l] EXCEPT !.phase = "done"]]
    BY <1>3 DEF Insert
  <2>4. \A v \in Worker, k \in Lock :
           writer'[v][k].phase = "read" => writer'[v][k] = writer[v][k]
    BY <2>3 DEF Inv, TypeOK, ProcessType, WriterType
  <2>5. \A v \in Worker, k \in Lock :
           writer'[v][k].phase = "read" =>
              HeadOf(writer'[v][k].head, table', m)
    BY <1>1, <2>2, <2>4 DEF HeadsOK
  <2> HIDE DEF m
  <2> QED BY <2>1, <2>5 DEF ChainInv, HeadsOK
<1> QED BY <1>2, <1>3

LEMMA InitInv == Init => Inv
<1> SUFFICES ASSUME Init PROVE Inv
  OBVIOUS
<1>1. ProcessType
  BY FreeType, EmptySeq, ChainConstants DEF Init, ProcessType, Lock
<1>2. CallType
  BY DEF Init, CallType
<1>3. DOMAIN table = {}
  BY DEF Init
<1>4. TableType
  BY <1>3 DEF TableType
<1>5. \A w \in Worker, l \in Lock :
         writer[w][l].phase = "open" /\ writer[w][l].by = "none"
  BY DEF Init, Free, Writing
<1>6. ChainOK(table, 0) /\ HeadsOK(0)
  BY <1>3, <1>5 DEF ChainOK, HeadsOK
<1>7. BatchInv
  BY <1>5 DEF BatchInv
<1> QED BY <1>1, <1>2, <1>4, <1>6, <1>7 DEF Inv, TypeOK, ChainInv

LEMMA NextInv == Inv /\ [Next]_vars => Inv'
<1> SUFFICES ASSUME Inv, [Next]_vars PROVE Inv'
  OBVIOUS
<1>1. CASE Next
  <2>1. ChainInv' /\ BatchInv'
    BY <1>1, ChainInvStep, BatchInvStep DEF Inv
  <2>2. AuditChainHead(table) \in ChainHead
    BY HeadOfChain DEF Inv, ChainInv
  <2>3. ProcessType' /\ CallType'
    BY <1>1, <2>2, ProcessTypeStep, CallTypeStep DEF Inv
  <2>4. TableType'
    BY <2>1 DEF ChainInv, ChainOK, TableType
  <2> QED BY <2>1, <2>3, <2>4 DEF Inv, TypeOK
<1>2. CASE UNCHANGED vars
  BY <1>2 DEF vars, Inv, TypeOK, TableType, ProcessType, CallType, ChainInv,
              HeadsOK, BatchInv
<1> QED BY <1>1, <1>2

LEMMA InvAlways == Spec => []Inv
BY InitInv, NextInv, PTL DEF Spec

\* The state always has its types: in particular a chain head that a writer
\* reads is well defined, because the table never loses its last row.
THEOREM TypeCorrect == Spec => []TypeOK
<1>1. Inv => TypeOK
  BY DEF Inv
<1> QED BY <1>1, InvAlways, PTL

LEMMA ChainIsVerified == Inv => ChainVerifies
<1> SUFFICES ASSUME Inv, NEW start \in {1} \cup DOMAIN table
             PROVE  VerifyAuditChain(table, start) = 0
  BY DEF ChainVerifies
<1>1. PICK n \in Nat : ChainOK(table, n)
  BY DEF Inv, ChainInv
<1> DEFINE rows == {s \in DOMAIN table : s >= start}
           first == CHOOSE s \in rows : \A u \in rows : s <= u
<1>2. start \in Nat \ {0} /\ rows = start..n
  BY <1>1 DEF ChainOK
<1>3. \A s \in rows : first = start
  <2> SUFFICES ASSUME NEW s \in rows PROVE first = start
    OBVIOUS
  <2>1. start \in rows /\ \A u \in rows : start <= u
    BY <1>2
  <2>2. first \in rows /\ \A u \in rows : first <= u
    BY <2>1
  <2> QED BY <1>2, <2>1, <2>2
<1>4. \A s \in rows : ~(s # first /\ s - 1 \notin rows)
  BY <1>2, <1>3
<1>5. \A s \in rows : /\ s = 1 => table[s].prev = GenesisHash
                      /\ s # 1 => table[s].prev = table[s - 1].hash
                      /\ RowHash(s, table[s].row, table[s].prev)
                           = table[s].hash
  BY <1>1, <1>2 DEF ChainOK, HashAt
<1>6. \A s \in rows :
         ~(IF s = first THEN start = 1 /\ s = 1 /\ table[s].prev # GenesisHash
           ELSE s - 1 \in rows /\ table[s].prev # table[s - 1].hash)
  BY <1>2, <1>3, <1>5
<1> QED BY <1>4, <1>5, <1>6 DEF VerifyAuditChain

\* The rows on disk pass verify_audit_chain at all times, whatever number of
\* workers write and whichever faults, restarts and shutdowns happen.
THEOREM ChainAlwaysVerifies == Spec => []ChainVerifies
BY InvAlways, ChainIsVerified, PTL

-----------------------------------------------------------------------------
(***************************************************************************)
(* Durable mode.  Nothing ever enters the in-memory queue, and a per-row   *)
(* write that is about to return has its row in the table.                 *)
(***************************************************************************)
NoQueue ==
    /\ \A w \in Worker : /\ ~instance[w]
                         /\ pending[w] = <<>>
                         /\ writer[w]["chain"] = Free
    /\ \A r \in Row : req[r] # "append"

DoneIsRecorded ==
    \A w \in Worker : writer[w]["row"].phase = "done" =>
        \A i \in 1..Len(writer[w]["row"].batch) :
            Recorded(writer[w]["row"].batch[i])

OkIsRecorded == \A r \in Row : req[r] = "ok" => Recorded(r)

DurableInv == durable => NoQueue /\ DoneIsRecorded /\ OkIsRecorded

\* With audit_fail_deny no call returns without its row.
DenyInv == FailDeny => \A r \in Row : req[r] # "unrecorded"

\* Recorded, with the table as a parameter.
RecordedIn(t, r) == \E s \in DOMAIN t : t[s].row = r

\* The table is append-only, so a recorded row stays recorded.
LEMMA RecordedStays ==
    ASSUME Inv, Next, NEW r, RecordedIn(table, r)
    PROVE  RecordedIn(table', r)
<1>1. PICK n \in Nat : ChainOK(table, n) /\ HeadsOK(n)
  BY DEF Inv, ChainInv
<1>2. CASE \A w \in Worker, l \in Lock : ~Insert(w, l)
  BY <1>2, QuietStep DEF Inv, RecordedIn
<1>3. ASSUME NEW w \in Worker, NEW l \in Lock, Insert(w, l)
      PROVE  RecordedIn(table', r)
  <2> DEFINE k == Len(writer[w][l].batch)
  <2>1. /\ ChainOK(table', n + k)
        /\ \A s \in 1..n : table'[s] = table[s]
        /\ k \in Nat
    BY <1>1, <1>3, InsertStep
  <2> HIDE DEF k
  <2>2. DOMAIN table = 1..n /\ DOMAIN table' = 1..(n + k)
    BY <1>1, <2>1 DEF ChainOK
  <2>3. PICK s \in 1..n : table[s].row = r
    BY <2>2 DEF RecordedIn
  <2>4. s \in DOMAIN table' /\ table'[s].row = r
    BY <2>1, <2>2, <2>3
  <2> QED BY <2>4 DEF RecordedIn
<1> QED BY <1>2, <1>3

LEMMA NoQueueStep ==
    ASSUME TypeOK, BatchInv, durable, NoQueue, Next
    PROVE  NoQueue' /\ durable'
<1> USE DEF TypeOK, ProcessType, CallType, NoQueue
<1>1. ASSUME NEW r \in Row, NEW w \in Worker,
             LogAudit(r, w) \/ DetailTooLarge(r, w)
      PROVE  NoQueue' /\ durable'
  BY <1>1 DEF LogAudit, DetailTooLarge
<1>2. ASSUME NEW r \in Row, PerRowStart(r), at[r] \in Worker
      PROVE  NoQueue' /\ durable'
  BY <1>2 DEF PerRowStart, Lock
<1>3. ASSUME NEW r \in Row, ChainAppend(r)
      PROVE  NoQueue' /\ durable'
  BY <1>3 DEF ChainAppend
<1>4. ASSUME NEW w \in Worker, PeriodicFlush(w) \/ StopCancel(w) \/ StopDrain(w)
      PROVE  NoQueue' /\ durable'
  BY <1>4 DEF PeriodicFlush, StopCancel, StopDrain, FlushNow
<1>5. ASSUME NEW w \in Worker, NEW l \in Lock,
             \/ ReadHead(w, l) \/ Insert(w, l) \/ Retry(w, l)
             \/ Return(w, l) \/ Exhausted(w, l) \/ DatabaseError(w, l)
      PROVE  l = "row"
  <2>1. Free.by = "none" /\ Free.phase = "open"
    BY DEF Free, Writing
  <2> QED BY <1>5, <2>1, Zenon DEF Lock, ReadHead, LockFree, Insert, Retry,
       Conflict, Return, Exhausted, DatabaseError
<1>6. ASSUME NEW w \in Worker, NEW l \in Lock,
             ReadHead(w, l) \/ Insert(w, l) \/ Retry(w, l)
      PROVE  NoQueue' /\ durable'
  <2>1. l = "row" /\ UNCHANGED <<durable, instance, pending, req>>
    BY <1>5, <1>6, Zenon DEF ReadHead, Insert, Retry
  <2>2. PICK f : writer' = [writer EXCEPT ![w]["row"] = f]
    BY <1>6, <2>1 DEF ReadHead, Insert, Retry
  <2>3. \A v \in Worker : writer'[v]["chain"] = writer[v]["chain"]
    BY <2>2 DEF Lock
  <2> QED BY <2>1, <2>3, Zenon
<1>7. ASSUME NEW w \in Worker, NEW a \in Answer, Finish(w, "row", a)
      PROVE  NoQueue' /\ durable'
  <2>1. a # "append"
    BY DEF Answer
  <2> QED BY <1>7, <2>1 DEF Finish, Lock
<1>8. ASSUME NEW w \in Worker, NEW l \in Lock,
             Return(w, l) \/ Exhausted(w, l) \/ DatabaseError(w, l)
      PROVE  NoQueue' /\ durable'
  BY <1>5, <1>7, <1>8 DEF Return, Exhausted, DatabaseError, Answer
<1>9. ASSUME NEW w \in Worker, NewProcess(w)
      PROVE  NoQueue' /\ durable'
  BY <1>9 DEF NewProcess, Lock
<1>10. CASE Idle
  BY <1>10 DEF Idle, vars
<1>11. ASSUME NEW w \in Worker, WorkerStep(w)
       PROVE  NoQueue' /\ durable'
  BY <1>2, <1>3, <1>4, <1>6, <1>8, <1>11 DEF WorkerStep
<1>12. ASSUME NEW w \in Worker,
              \/ \E l \in Lock : DatabaseError(w, l)
              \/ StopCancel(w) \/ Exit(w) \/ Crash(w)
       PROVE  NoQueue' /\ durable'
  BY <1>4, <1>8, <1>9, <1>12 DEF Exit, Crash
<1> QED
  BY <1>1, <1>10, <1>11, <1>12 DEF Next

LEMMA DoneStep ==
    ASSUME Inv, DoneIsRecorded, Next
    PROVE  DoneIsRecorded'
<1> USE DEF Inv, TypeOK, ProcessType, Lock
<1> DEFINE OK(g) == g.phase = "done" =>
                \A i \in 1..Len(g.batch) : RecordedIn(table', g.batch[i])
           Goal == \A w \in Worker : OK(writer'[w]["row"])
<1> SUFFICES Goal
  BY DEF DoneIsRecorded, Recorded, RecordedIn
<1>1. \A w \in Worker : OK(writer[w]["row"])
  <2> TAKE w \in Worker
  <2>1. \A r : RecordedIn(table, r) => RecordedIn(table', r)
    BY RecordedStays
  <2>2. writer[w]["row"].phase = "done" =>
           \A i \in 1..Len(writer[w]["row"].batch) :
              RecordedIn(table, writer[w]["row"].batch[i])
    BY DEF DoneIsRecorded, Recorded, RecordedIn
  <2> QED BY <2>1, <2>2
<1>2. OK(Free) /\ \A by, b : OK(Writing(by, b))
  BY DEF Free, Writing
<1>3. ASSUME NEW w \in Worker, NEW l \in Lock, NEW g, l = "row" => OK(g),
             writer' = [writer EXCEPT ![w][l] = g]
      PROVE  Goal
  <2> HIDE DEF OK
  <2> QED BY <1>1, <1>3
<1>4. ASSUME UNCHANGED writer PROVE Goal
  <2> HIDE DEF OK
  <2> QED BY <1>1, <1>4
<1>5. ASSUME NEW w \in Worker, NEW l \in Lock, Insert(w, l)
      PROVE  Goal
  <2> DEFINE f == writer[w][l]
  <2>1. f \in WriterType
    OBVIOUS
  <2>2. PICK n \in Nat : ChainOK(table, n) /\ HeadsOK(n)
    BY DEF ChainInv
  <2>3. /\ ChainOK(table', n + Len(f.batch))
        /\ \A i \in 1..Len(f.batch) : table'[n + i].row = f.batch[i]
        /\ Len(f.batch) \in Nat
    BY <1>5, <2>2, InsertStep
  <2>4. ASSUME NEW i \in 1..Len(f.batch) PROVE RecordedIn(table', f.batch[i])
    <3>1. n + i \in DOMAIN table'
      BY <2>3 DEF ChainOK
    <3> QED BY <2>3, <3>1 DEF RecordedIn
  <2>5. [f EXCEPT !.phase = "done"].batch = f.batch
    BY <2>1 DEF WriterType
  <2>6. OK([f EXCEPT !.phase = "done"])
    BY <2>4, <2>5
  <2> HIDE DEF OK, Goal
  <2> QED BY <1>3, <1>5, <2>6 DEF Insert
<1>6. ASSUME NEW w \in Worker, NEW l \in Lock, ReadHead(w, l) \/ Retry(w, l)
      PROVE  Goal
  <2> DEFINE f == writer[w][l]
  <2>1. f \in WriterType
    OBVIOUS
  <2>2. /\ OK([f EXCEPT !.phase = "read", !.head = AuditChainHead(table)])
        /\ OK([f EXCEPT !.phase = "open", !.attempt = f.attempt + 1])
    BY <2>1 DEF WriterType
  <2> HIDE DEF OK, Goal
  <2> QED BY <1>3, <1>6, <2>2 DEF ReadHead, Retry
<1>7. ASSUME NEW w \in Worker, NewProcess(w)
      PROVE  Goal
  <2> HIDE DEF OK
  <2> QED BY <1>1, <1>2, <1>7 DEF NewProcess
<1> HIDE DEF OK, Goal
<1>8. ASSUME NEW w \in Worker, NEW l \in Lock,
             Return(w, l) \/ Exhausted(w, l) \/ DatabaseError(w, l)
      PROVE  Goal
  BY <1>2, <1>3, <1>8 DEF Return, Exhausted, DatabaseError, Finish
<1>9. ASSUME NEW r \in Row, ChainAppend(r) \/ PerRowStart(r), at[r] \in Worker
      PROVE  Goal
  <2>1. ASSUME NEW l \in Lock, NEW by, NEW b,
               writer' = [writer EXCEPT ![at[r]][l] = Writing(by, b)]
        PROVE  Goal
    BY <1>2, <1>3, <1>9, <2>1
  <2>2. CASE ChainAppend(r)
    BY <1>4, <2>1, <2>2 DEF ChainAppend
  <2>3. CASE PerRowStart(r)
    BY <2>1, <2>3 DEF PerRowStart
  <2> QED BY <1>9, <2>2, <2>3
<1>10. ASSUME NEW w \in Worker,
              PeriodicFlush(w) \/ StopDrain(w) \/ StopCancel(w)
       PROVE  Goal
  BY <1>3, <1>4, <1>10 DEF PeriodicFlush, StopDrain, FlushNow, StopCancel
<1>11. CASE \E r \in Row, w \in Worker : LogAudit(r, w) \/ DetailTooLarge(r, w)
  BY <1>4, <1>11 DEF LogAudit, DetailTooLarge
<1>12. CASE Idle
  BY <1>4, <1>12 DEF Idle, vars
<1>13. ASSUME NEW w \in Worker, WorkerStep(w)
       PROVE  Goal
  BY <1>5, <1>6, <1>8, <1>9, <1>10, <1>13 DEF WorkerStep
<1>14. ASSUME NEW w \in Worker,
              \/ \E l \in Lock : DatabaseError(w, l)
              \/ StopCancel(w) \/ Exit(w) \/ Crash(w)
       PROVE  Goal
  BY <1>7, <1>8, <1>10, <1>14 DEF Exit, Crash
<1> QED
  BY <1>11, <1>12, <1>13, <1>14 DEF Next

LEMMA DurableAckStep ==
    ASSUME Inv, NoQueue, DoneIsRecorded, Next,
           \A r \in Row : req[r] = "ok" => Recorded(r)
    PROVE  \A r \in Row : req'[r] = "ok" => RecordedIn(table', r)
<1> DEFINE Goal == \A r \in Row : req'[r] = "ok" => RecordedIn(table', r)
<1>0. \A r : RecordedIn(table, r) => RecordedIn(table', r)
  BY RecordedStays
<1>1. \A r \in Row : req[r] = "ok" => RecordedIn(table', r)
  BY <1>0 DEF Recorded, RecordedIn
<1>2. ASSUME \A r \in Row : req'[r] = "ok" => req[r] = "ok"
      PROVE  Goal
  BY <1>1, <1>2
<1> USE DEF Inv, TypeOK, CallType, ProcessType
<1>3. ASSUME NEW r \in Row, NEW w \in Worker,
             LogAudit(r, w) \/ DetailTooLarge(r, w)
      PROVE  Goal
  BY <1>2, <1>3 DEF LogAudit, DetailTooLarge
<1>4. ASSUME NEW r \in Row, ChainAppend(r) \/ PerRowStart(r)
      PROVE  Goal
  BY <1>2, <1>4 DEF ChainAppend, PerRowStart, NoQueue
<1>5. ASSUME NEW w \in Worker,
             PeriodicFlush(w) \/ StopDrain(w) \/ StopCancel(w)
      PROVE  Goal
  BY <1>2, <1>5 DEF PeriodicFlush, StopDrain, StopCancel
<1>6. ASSUME NEW w \in Worker, NEW l \in Lock,
             ReadHead(w, l) \/ Insert(w, l) \/ Retry(w, l)
      PROVE  Goal
  BY <1>2, <1>6 DEF ReadHead, Insert, Retry
<1>7. ASSUME NEW w \in Worker, NEW l \in Lock, NEW a, a # "ok", Finish(w, l, a)
      PROVE  Goal
  BY <1>2, <1>7 DEF Finish
<1>8. ASSUME NEW w \in Worker, NEW l \in Lock,
             Exhausted(w, l) \/ DatabaseError(w, l)
      PROVE  Goal
  BY <1>7, <1>8 DEF Exhausted, DatabaseError
<1>9. ASSUME NEW w \in Worker, NEW l \in Lock, Return(w, l)
      PROVE  Goal
  <2> DEFINE f == writer[w]["row"]
  <2>1. l = "row" /\ f.phase = "done"
    <3>1. Free.phase = "open"
      BY DEF Free, Writing
    <3> QED BY <1>9, <3>1 DEF Return, NoQueue, Lock
  <2>2. f \in WriterType /\ f.batch # <<>>
    BY <2>1 DEF BatchInv, Lock
  <2>3. f.batch \in Seq(Row)
    BY <2>2 DEF WriterType
  <2>4. Len(f.batch) \in 1..Len(f.batch)
    BY <2>2, <2>3, EmptySeq
  <2>5. RecordedIn(table, Caller(f.batch))
    BY <2>1, <2>4 DEF DoneIsRecorded, Caller, Recorded, RecordedIn
  <2>6. RecordedIn(table', Caller(f.batch))
    BY <1>0, <2>5
  <2>7. req' = req \/ req' = [req EXCEPT ![Caller(f.batch)] = "ok"]
    BY <1>9, <2>1 DEF Return, Finish
  <2> QED BY <1>1, <2>6, <2>7
<1>10. ASSUME NEW w \in Worker, NewProcess(w)
       PROVE  Goal
  BY <1>2, <1>10 DEF NewProcess
<1>11. CASE Idle
  BY <1>2, <1>11 DEF Idle, vars
<1> HIDE DEF Goal
<1>12. ASSUME NEW w \in Worker, WorkerStep(w)
       PROVE  Goal
  BY <1>4, <1>5, <1>6, <1>8, <1>9, <1>12 DEF WorkerStep
<1>13. ASSUME NEW w \in Worker,
              \/ \E l \in Lock : DatabaseError(w, l)
              \/ StopCancel(w) \/ Exit(w) \/ Crash(w)
       PROVE  Goal
  BY <1>5, <1>8, <1>10, <1>13 DEF Exit, Crash
<1>14. Goal
  BY <1>3, <1>11, <1>12, <1>13 DEF Next, Goal
<1> QED BY <1>14 DEF Goal

\* The durability mode is a deployment setting that no step changes.
LEMMA ModeIsFixed == ASSUME Next PROVE durable' = durable
<1>1. ASSUME NEW w, WorkerStep(w) PROVE durable' = durable
  BY <1>1, Zenon DEF WorkerStep, ChainAppend, PerRowStart, PeriodicFlush, ReadHead,
     Insert, Retry, Return, Exhausted, Finish, StopDrain
<1>2. ASSUME NEW w, \/ \E l \in Lock : DatabaseError(w, l)
                    \/ StopCancel(w) \/ Exit(w) \/ Crash(w)
      PROVE  durable' = durable
  BY <1>2 DEF DatabaseError, Finish, StopCancel, Exit, Crash, NewProcess
<1>3. ASSUME NEW r, NEW w, LogAudit(r, w) \/ DetailTooLarge(r, w)
      PROVE  durable' = durable
  BY <1>3 DEF LogAudit, DetailTooLarge
<1>4. CASE Idle
  BY <1>4 DEF Idle, vars
<1> QED BY <1>1, <1>2, <1>3, <1>4, Zenon DEF Next

LEMMA DenyStep == ASSUME Inv, DenyInv, Next PROVE DenyInv'
<1> SUFFICES ASSUME FailDeny, \A r \in Row : req[r] # "unrecorded"
             PROVE  \A r \in Row : req'[r] # "unrecorded"
  BY DEF DenyInv
<1> DEFINE Goal == \A r \in Row : req'[r] # "unrecorded"
<1> USE DEF Inv, TypeOK, CallType
<1>1. ASSUME NEW r \in Row, NEW w \in Worker,
             LogAudit(r, w) \/ DetailTooLarge(r, w)
      PROVE  Goal
  BY <1>1 DEF LogAudit, DetailTooLarge
<1>2. ASSUME NEW r \in Row, ChainAppend(r) \/ PerRowStart(r)
      PROVE  Goal
  BY <1>2 DEF ChainAppend, PerRowStart
<1>3. ASSUME NEW w \in Worker,
             PeriodicFlush(w) \/ StopDrain(w) \/ StopCancel(w)
      PROVE  Goal
  BY <1>3 DEF PeriodicFlush, StopDrain, StopCancel
<1>4. ASSUME NEW w \in Worker, NEW l \in Lock,
             ReadHead(w, l) \/ Insert(w, l) \/ Retry(w, l)
      PROVE  Goal
  BY <1>4 DEF ReadHead, Insert, Retry
<1>5. ASSUME NEW w \in Worker, NEW l \in Lock, NEW a, a # "unrecorded", Finish(w, l, a)
      PROVE  Goal
  BY <1>5 DEF Finish
<1>6. ASSUME NEW w \in Worker, NEW l \in Lock,
             Return(w, l) \/ Exhausted(w, l) \/ DatabaseError(w, l)
      PROVE  Goal
  BY <1>5, <1>6 DEF Return, Exhausted, DatabaseError
<1>7. ASSUME NEW w \in Worker, NewProcess(w)
      PROVE  Goal
  BY <1>7 DEF NewProcess
<1>8. CASE Idle
  BY <1>8 DEF Idle, vars
<1> HIDE DEF Goal
<1>9. ASSUME NEW w \in Worker, WorkerStep(w)
      PROVE  Goal
  BY <1>2, <1>3, <1>4, <1>6, <1>9 DEF WorkerStep
<1>10. ASSUME NEW w \in Worker,
              \/ \E l \in Lock : DatabaseError(w, l)
              \/ StopCancel(w) \/ Exit(w) \/ Crash(w)
       PROVE  Goal
  BY <1>3, <1>6, <1>7, <1>10 DEF Exit, Crash
<1>11. Goal
  BY <1>1, <1>8, <1>9, <1>10 DEF Next, Goal
<1> QED BY <1>11 DEF Goal

LEMMA DurableInvAlways == Spec => [](DurableInv /\ DenyInv)
<1>1. Init => DurableInv /\ DenyInv
  <2> SUFFICES ASSUME Init PROVE DurableInv /\ DenyInv
    OBVIOUS
  <2>1. Free.phase = "open"
    BY DEF Free, Writing
  <2>2. durable => NoQueue
    BY DEF Init, NoQueue, Lock
  <2>3. DoneIsRecorded
    BY <2>1 DEF Init, DoneIsRecorded, Lock
  <2>4. OkIsRecorded /\ DenyInv
    BY DEF Init, OkIsRecorded, DenyInv
  <2> QED BY <2>2, <2>3, <2>4 DEF DurableInv
<1>2. Inv /\ DurableInv /\ DenyInv /\ [Next]_vars => DurableInv' /\ DenyInv'
  <2> SUFFICES ASSUME Inv, DurableInv, DenyInv, [Next]_vars PROVE DurableInv' /\ DenyInv'
    OBVIOUS
  <2>1. CASE Next /\ durable
    <3>1. NoQueue /\ DoneIsRecorded /\ \A r \in Row : req[r] = "ok" => Recorded(r)
      BY <2>1 DEF DurableInv, OkIsRecorded
    <3>2. NoQueue' /\ DoneIsRecorded'
      BY <2>1, <3>1, NoQueueStep, DoneStep DEF Inv
    <3>3. OkIsRecorded'
      BY <2>1, <3>1, DurableAckStep DEF OkIsRecorded, Recorded, RecordedIn
    <3> QED BY <2>1, <3>2, <3>3, DenyStep DEF DurableInv
  <2>2. CASE Next /\ ~durable
    BY <2>2, ModeIsFixed, DenyStep DEF DurableInv
  <2>3. CASE UNCHANGED vars
    BY <2>3 DEF vars, DurableInv, NoQueue, DoneIsRecorded, OkIsRecorded, Recorded, DenyInv
  <2> QED BY <2>1, <2>2, <2>3
<1> QED BY <1>1, <1>2, InvAlways, PTL DEF Spec

\* In durable mode every log_audit() call that returned has its row on disk, at
\* every later moment and through every fault of the model, unless it failed
\* open: its attempts ran out and audit_fail_deny is off.
THEOREM DurableAlwaysAck == Spec => []DurableAck
<1>1. DurableInv /\ DenyInv => DurableAck
  BY DEF DurableInv, OkIsRecorded, DenyInv, DurableAck, Returned, FailedOpen
<1> QED BY <1>1, DurableInvAlways, PTL

\* With audit_fail_deny on there is no exception: in durable mode every
\* log_audit() call that returned at all has its row on disk.
THEOREM DenyAlwaysAcks ==
    ASSUME FailDeny
    PROVE  Spec => [](durable => \A r \in Row : Returned(r) => Recorded(r))
<1>1. DurableAck => (durable => \A r \in Row : Returned(r) => Recorded(r))
  BY DEF DurableAck, FailedOpen
<1> QED BY <1>1, DurableAlwaysAck, PTL

-----------------------------------------------------------------------------
(***************************************************************************)
(* Where each audit row is, for any number of workers and rows: the proofs *)
(* that the table only grows at its end and holds no row twice, that a     *)
(* crash loses fewer than batch_size answered rows of a worker, and that   *)
(* under contention alone no row is lost unnoticed and no refused row is   *)
(* on disk.                                                                *)
(***************************************************************************)

(***************************************************************************)
(* The inductive invariant: a row is in one queue, or in one batch, or in  *)
(* the table, or in none; the state of its call says in which it may be.   *)
(***************************************************************************)

\* The call of the i-th row of the batch of write g.
CallOf(g, i) ==
    IF g.by = "append" /\ i = Len(g.batch) THEN "flushing"
    ELSE IF g.by = "log_audit" THEN "writing" ELSE "ok"

\* Queue p of worker w, for the calls rq served at a and the table t.
QueueOK(w, p, rq, a, t) ==
    /\ Len(p) < BatchSize
    /\ \A i \in 1..Len(p) : a[p[i]] = w /\ rq[p[i]] = "ok" /\ ~RecordedIn(t, p[i])
    /\ \A i, j \in 1..Len(p) : p[i] = p[j] => i = j

\* Who writes under which lock, and how much.
WriteSize(l, g) ==
    /\ g.by = "none" => g.batch = <<>>
    /\ l = "row" => g.by \in {"none", "log_audit"}
    /\ l = "chain" => /\ g.by # "log_audit" /\ Len(g.batch) <= BatchSize
                      /\ g.by # "append" => Len(g.batch) < BatchSize

\* Write g of worker w under lock l: committed as a whole or not at all.
WriteOK(w, l, g, rq, a, t) ==
    /\ WriteSize(l, g)
    /\ \A i \in 1..Len(g.batch) :
          /\ a[g.batch[i]] = w /\ rq[g.batch[i]] = CallOf(g, i)
          /\ RecordedIn(t, g.batch[i]) <=> g.phase = "done"
    /\ \A i, j \in 1..Len(g.batch) : g.batch[i] = g.batch[j] => i = j

PlacesOf(w, p, g, rq, a, t) ==
    /\ QueueOK(w, p, rq, a, t)
    /\ g["chain"].by # "none" => p = <<>>
    /\ \A l \in Lock : WriteOK(w, l, g[l], rq, a, t)

Places == \A w \in Worker : PlacesOf(w, pending[w], writer[w], req, at, table)

Fresh == {"new", "append", "per_row"}

FreshOnes ==
    \A r \in Row : /\ req[r] # "new" => at[r] \in Worker
                   /\ req[r] \in Fresh => ~RecordedIn(table, r)

TableOnce == \A s, u \in DOMAIN table : table[s].row = table[u].row => s = u

RowsInv == Places /\ FreshOnes /\ TableOnce

-----------------------------------------------------------------------------
(***************************************************************************)
(* Facts about queues and batches.                                         *)
(***************************************************************************)

\* A place is as good as before when nothing has happened to its rows.
LEMMA QueueKept ==
    ASSUME NEW w, NEW p, NEW rq, NEW a, NEW t, QueueOK(w, p, rq, a, t),
           NEW rq2, NEW a2, NEW t2,
           \A i \in 1..Len(p) : /\ rq2[p[i]] = rq[p[i]] /\ a2[p[i]] = a[p[i]]
                                /\ RecordedIn(t2, p[i]) <=> RecordedIn(t, p[i])
    PROVE  QueueOK(w, p, rq2, a2, t2)
BY DEF QueueOK

LEMMA WriteKept ==
    ASSUME NEW w, NEW l, NEW g, NEW rq, NEW a, NEW t, WriteOK(w, l, g, rq, a, t),
           NEW rq2, NEW a2, NEW t2,
           \A i \in 1..Len(g.batch) :
              /\ rq2[g.batch[i]] = rq[g.batch[i]] /\ a2[g.batch[i]] = a[g.batch[i]]
              /\ RecordedIn(t2, g.batch[i]) <=> RecordedIn(t, g.batch[i])
    PROVE  WriteOK(w, l, g, rq2, a2, t2)
BY DEF WriteOK

\* The calls of the rows under each lock.
LEMMA CallOfLock ==
    ASSUME NEW l \in Lock, NEW g, WriteSize(l, g), NEW i \in 1..Len(g.batch)
    PROVE  /\ CallOf(g, i) \in {"ok", "flushing", "writing"}
           /\ l = "row" => CallOf(g, i) = "writing"
           /\ l = "chain" => CallOf(g, i) \in {"ok", "flushing"}
<1>1. g.by = "none" => Len(g.batch) = 0
  BY DEF WriteSize
<1>2. g.by # "none"
  BY <1>1
<1> QED BY <1>2 DEF WriteSize, CallOf, Lock

LEMMA EmptyQueue == \A w, rq, a, t : QueueOK(w, <<>>, rq, a, t)
BY ChainConstants DEF QueueOK

LEMMA FreeWrite == \A w, rq, a, t : \A l \in Lock : WriteOK(w, l, Free, rq, a, t)
<1>1. Free.by = "none" /\ Free.batch = <<>> /\ Len(Free.batch) = 0
  BY DEF Free, Writing
<1>2. \A l \in Lock : WriteSize(l, Free)
  BY <1>1, ChainConstants DEF WriteSize
<1> QED BY <1>1, <1>2 DEF WriteOK

LEMMA PendingType ==
    ASSUME Inv, NEW w \in Worker
    PROVE  pending[w] \in Seq(Row)
BY DEF Inv, TypeOK, ProcessType

LEMMA BatchType ==
    ASSUME Inv, NEW w \in Worker, NEW l \in Lock
    PROVE  /\ writer[w] \in [Lock -> WriterType] /\ writer[w][l] \in WriterType
           /\ writer[w][l].batch \in Seq(Row)
           /\ writer[w][l].phase \in {"open", "read", "done"}
           /\ writer[w][l].by \in WriteBy
BY DEF Inv, TypeOK, ProcessType, WriterType

\* What the invariant says of one worker.
LEMMA PlacesAt ==
    ASSUME Inv, RowsInv, NEW w \in Worker
    PROVE  /\ PlacesOf(w, pending[w], writer[w], req, at, table)
           /\ QueueOK(w, pending[w], req, at, table)
           /\ writer[w]["chain"].by # "none" => pending[w] = <<>>
           /\ \A l \in Lock : WriteOK(w, l, writer[w][l], req, at, table)
           /\ \A i \in 1..Len(pending[w]) :
                 /\ pending[w][i] \in Row /\ req[pending[w][i]] = "ok"
                 /\ at[pending[w][i]] = w
           /\ \A l \in Lock : \A i \in 1..Len(writer[w][l].batch) :
                 /\ writer[w][l].batch[i] \in Row /\ at[writer[w][l].batch[i]] = w
                 /\ req[writer[w][l].batch[i]] = CallOf(writer[w][l], i)
                 /\ req[writer[w][l].batch[i]] \in {"ok", "flushing", "writing"}
                 /\ l = "row" => req[writer[w][l].batch[i]] = "writing"
                 /\ l = "chain" => req[writer[w][l].batch[i]] \in {"ok", "flushing"}
<1>1. PlacesOf(w, pending[w], writer[w], req, at, table)
  BY DEF RowsInv, Places
<1>2. /\ QueueOK(w, pending[w], req, at, table)
      /\ writer[w]["chain"].by # "none" => pending[w] = <<>>
      /\ \A l \in Lock : WriteOK(w, l, writer[w][l], req, at, table)
  BY <1>1 DEF PlacesOf
<1>3. \A i \in 1..Len(pending[w]) : /\ pending[w][i] \in Row /\ req[pending[w][i]] = "ok"
                                    /\ at[pending[w][i]] = w
  BY <1>2, PendingType DEF QueueOK
<1>4. ASSUME NEW l \in Lock, NEW i \in 1..Len(writer[w][l].batch)
      PROVE  /\ writer[w][l].batch[i] \in Row /\ at[writer[w][l].batch[i]] = w
             /\ req[writer[w][l].batch[i]] = CallOf(writer[w][l], i)
             /\ req[writer[w][l].batch[i]] \in {"ok", "flushing", "writing"}
             /\ l = "row" => req[writer[w][l].batch[i]] = "writing"
             /\ l = "chain" => req[writer[w][l].batch[i]] \in {"ok", "flushing"}
  <2>1. writer[w][l].batch[i] \in Row
    BY BatchType
  <2>2. /\ WriteSize(l, writer[w][l]) /\ at[writer[w][l].batch[i]] = w
        /\ req[writer[w][l].batch[i]] = CallOf(writer[w][l], i)
    BY <1>2 DEF WriteOK
  <2> QED BY <2>1, <2>2, CallOfLock
<1> QED BY <1>1, <1>2, <1>3, <1>4

\* Nothing happens to calls and table.
LEMMA SameKept ==
    ASSUME Inv, RowsInv, req' = req, at' = at, table' = table
    PROVE  /\ \A v \in Worker : PlacesOf(v, pending[v], writer[v], req', at', table')
           /\ FreshOnes' /\ TableOnce'
BY DEF RowsInv, Places, FreshOnes, TableOnce

\* A call that has not reached a queue or a batch goes on.
LEMMA FreshKept ==
    ASSUME Inv, RowsInv, NEW r \in Row, req[r] \in Fresh, table' = table,
           \A q \in Row : q # r => req'[q] = req[q] /\ at'[q] = at[q]
    PROVE  /\ \A v \in Worker : PlacesOf(v, pending[v], writer[v], req', at', table')
           /\ \A v \in Worker : \A i \in 1..Len(pending[v]) : pending[v][i] # r
           /\ ~RecordedIn(table, r)
           /\ TableOnce'
<1>1. ASSUME NEW v \in Worker
      PROVE  /\ PlacesOf(v, pending[v], writer[v], req', at', table')
             /\ \A i \in 1..Len(pending[v]) : pending[v][i] # r
  <2>1. \A i \in 1..Len(pending[v]) : pending[v][i] \in Row /\ pending[v][i] # r
    BY PlacesAt DEF Fresh
  <2>2. QueueOK(v, pending[v], req', at', table')
    BY <2>1, PlacesAt, QueueKept
  <2>3. ASSUME NEW l \in Lock
        PROVE  WriteOK(v, l, writer[v][l], req', at', table')
    <3>1. \A i \in 1..Len(writer[v][l].batch) :
            writer[v][l].batch[i] \in Row /\ writer[v][l].batch[i] # r
      BY PlacesAt DEF Fresh
    <3>2. WriteOK(v, l, writer[v][l], req, at, table)
      BY PlacesAt
    <3> QED BY <3>1, <3>2, WriteKept
  <2>4. writer[v]["chain"].by # "none" => pending[v] = <<>>
    BY PlacesAt
  <2> QED BY <2>1, <2>2, <2>3, <2>4 DEF PlacesOf
<1>2. ~RecordedIn(table, r) /\ TableOnce'
  BY DEF RowsInv, FreshOnes, TableOnce
<1> QED BY <1>1, <1>2

\* A worker's places change, the others stay.
LEMMA OneWorkerPlaces ==
    ASSUME NEW w \in Worker,
           \A v \in Worker : v # w => pending'[v] = pending[v] /\ writer'[v] = writer[v],
           \A v \in Worker : v # w => PlacesOf(v, pending[v], writer[v], req', at', table'),
           PlacesOf(w, pending'[w], writer'[w], req', at', table')
    PROVE  Places'
BY DEF Places

-----------------------------------------------------------------------------
(***************************************************************************)
(* Steps.                                                                  *)
(***************************************************************************)

LEMMA LogRows ==
    ASSUME Inv, RowsInv, NEW r \in Row, NEW w \in Worker, LogAudit(r, w) \/ DetailTooLarge(r, w)
    PROVE  RowsInv'
<1> USE DEF Inv, TypeOK, CallType
<1>1. /\ req[r] = "new" /\ table' = table /\ pending' = pending /\ writer' = writer
      /\ at' = [at EXCEPT ![r] = w] /\ \E x : req' = [req EXCEPT ![r] = x]
  BY DEF LogAudit, DetailTooLarge
<1>2. \A q \in Row : q # r => req'[q] = req[q] /\ at'[q] = at[q]
  BY <1>1
<1>3. /\ \A v \in Worker : PlacesOf(v, pending[v], writer[v], req', at', table')
      /\ ~RecordedIn(table, r) /\ TableOnce'
  BY <1>1, <1>2, FreshKept DEF Fresh
<1>4. FreshOnes'
  BY <1>1, <1>2, <1>3 DEF RowsInv, FreshOnes
<1> QED BY <1>1, <1>3, <1>4 DEF RowsInv, Places

LEMMA AppendRows ==
    ASSUME Inv, RowsInv, NEW r \in Row, ChainAppend(r)
    PROVE  RowsInv'
<1> DEFINE w == at[r]
<1>0. req \in [Row -> {"new"} \cup InCall \cup Answer] /\ pending \in [Worker -> Seq(Row)]
  BY DEF Inv, TypeOK, CallType, ProcessType
<1>1. /\ req[r] = "append" /\ LockFree(w, "chain") /\ table' = table /\ at' = at
      /\ \E x \in {"ok", "flushing"} : req' = [req EXCEPT ![r] = x]
  BY DEF ChainAppend
<1>2. w \in Worker
  BY <1>1 DEF RowsInv, FreshOnes
<1> HIDE DEF w
<1>3. \A q \in Row : q # r => req'[q] = req[q] /\ at'[q] = at[q]
  BY <1>0, <1>1
<1>4. /\ \A v \in Worker : PlacesOf(v, pending[v], writer[v], req', at', table')
      /\ \A i \in 1..Len(pending[w]) : pending[w][i] # r
      /\ ~RecordedIn(table, r) /\ TableOnce'
  BY <1>1, <1>2, <1>3, FreshKept DEF Fresh
<1>5. FreshOnes'
  BY <1>0, <1>1, <1>2, <1>3 DEF RowsInv, FreshOnes, Fresh, w
<1>6. PICK p \in Seq(Row) : p = pending[w]
  BY <1>2, PendingType
<1>7. PICK s : s = Append(p, r)
  OBVIOUS
<1>8. /\ QueueOK(w, p, req', at', table') /\ ~RecordedIn(table', r) /\ at'[r] = w
      /\ \A i \in 1..Len(p) : p[i] # r
  BY <1>1, <1>2, <1>4, <1>6 DEF PlacesOf, w
<1>9. /\ s \in Seq(Row) /\ Len(s) = Len(p) + 1 /\ Len(p) \in Nat /\ Len(p) < BatchSize
      /\ s # <<>> /\ s[Len(s)] = r
      /\ \A i \in 1..Len(s) : i # Len(s) => req'[s[i]] = "ok"
      /\ \A i \in 1..Len(s) : at'[s[i]] = w /\ ~RecordedIn(table', s[i])
      /\ \A i, j \in 1..Len(s) : s[i] = s[j] => i = j
  <2>1. /\ s \in Seq(Row) /\ Len(s) = Len(p) + 1 /\ s[Len(p) + 1] = r /\ Len(p) \in Nat
        /\ \A i \in 1..Len(p) : s[i] = p[i]
    BY <1>6, <1>7
  <2>2. s # <<>> /\ \A i \in 1..Len(s) : i = Len(s) \/ i \in 1..Len(p)
    BY <2>1
  <2>3. PICK rq, a, t : rq = req' /\ a = at' /\ t = table'
    OBVIOUS
  <2>4. /\ Len(p) < BatchSize /\ ~RecordedIn(t, r) /\ a[r] = w
        /\ \A i \in 1..Len(p) : /\ p[i] # r /\ a[p[i]] = w /\ rq[p[i]] = "ok"
                                /\ ~RecordedIn(t, p[i])
        /\ \A i, j \in 1..Len(p) : p[i] = p[j] => i = j
    BY <1>8, <2>3 DEF QueueOK
  <2>5. \A i \in 1..Len(s) : i # Len(s) => rq[s[i]] = "ok"
    BY <2>1, <2>2, <2>4
  <2>6. \A i \in 1..Len(s) : a[s[i]] = w /\ ~RecordedIn(t, s[i])
    BY <2>1, <2>2, <2>4
  <2>7. \A i, j \in 1..Len(s) : s[i] = s[j] => i = j
    BY <2>1, <2>2, <2>4
  <2> QED BY <2>1, <2>2, <2>3, <2>4, <2>5, <2>6, <2>7
<1>10. writer[w] \in [Lock -> WriterType] /\ writer \in [Worker -> [Lock -> WriterType]]
  BY <1>2, BatchType DEF Inv, TypeOK, ProcessType
<1>11. CASE /\ Len(s) < BatchSize /\ pending' = [pending EXCEPT ![w] = s]
            /\ req' = [req EXCEPT ![r] = "ok"] /\ UNCHANGED writer
  <2>1. pending'[w] = s /\ \A v \in Worker : v # w => pending'[v] = pending[v]
    BY <1>0, <1>2, <1>11
  <2>2. req'[s[Len(s)]] = "ok"
    BY <1>0, <1>9, <1>11
  <2>3. QueueOK(w, s, req', at', table')
    BY <1>9, <1>11, <2>2 DEF QueueOK
  <2>4. writer[w]["chain"].by = "none" /\ \A l \in Lock : WriteOK(w, l, writer[w][l], req', at', table')
    BY <1>1, <1>2, <1>4 DEF LockFree, PlacesOf
  <2>5. PlacesOf(w, pending'[w], writer'[w], req', at', table')
    BY <1>11, <2>1, <2>3, <2>4 DEF PlacesOf
  <2>6. Places'
    BY <1>2, <1>4, <1>11, <2>1, <2>5, OneWorkerPlaces
  <2> QED BY <1>4, <1>5, <2>6 DEF RowsInv
<1>12. CASE /\ Len(s) >= BatchSize /\ pending' = [pending EXCEPT ![w] = <<>>]
            /\ writer' = [writer EXCEPT ![w]["chain"] = Writing("append", s)]
            /\ req' = [req EXCEPT ![r] = "flushing"]
  <2>1. PICK g : g = Writing("append", s)
    OBVIOUS
  <2>2. g.by = "append" /\ g.batch = s /\ g.phase = "open"
    BY <2>1 DEF Writing
  <2>3. /\ pending'[w] = <<>> /\ writer'[w]["chain"] = g /\ writer'[w]["row"] = writer[w]["row"]
        /\ \A v \in Worker : v # w => pending'[v] = pending[v] /\ writer'[v] = writer[v]
    BY <1>0, <1>2, <1>10, <1>12, <2>1 DEF Lock
  <2>4. Len(s) <= BatchSize
    BY <1>9, ChainConstants
  <2>5. req'[s[Len(s)]] = "flushing"
    BY <1>0, <1>9, <1>12
  <2>6. \A i \in 1..Len(s) : req'[s[i]] = CallOf(g, i)
    BY <1>9, <2>2, <2>5 DEF CallOf
  <2>7. WriteSize("chain", g)
    BY <2>2, <2>4 DEF WriteSize
  <2>8. WriteOK(w, "chain", g, req', at', table')
    BY <1>9, <2>2, <2>6, <2>7 DEF WriteOK
  <2>9. WriteOK(w, "row", writer[w]["row"], req', at', table')
    BY <1>2, <1>4 DEF PlacesOf, Lock
  <2>10. PlacesOf(w, pending'[w], writer'[w], req', at', table')
    BY <2>3, <2>8, <2>9, EmptyQueue DEF PlacesOf, Lock
  <2>11. Places'
    BY <1>2, <1>4, <2>3, <2>10, OneWorkerPlaces
  <2> QED BY <1>4, <1>5, <2>11 DEF RowsInv
<1> QED BY <1>6, <1>7, <1>11, <1>12 DEF ChainAppend, w

\* The rows of a write are in no other place.
LEMMA Apart ==
    ASSUME Inv, RowsInv, NEW w \in Worker, NEW l \in Lock,
           NEW i \in 1..Len(writer[w][l].batch), NEW x, x = writer[w][l].batch[i]
    PROVE  /\ x \in Row /\ req[x] \notin Fresh
           /\ \A v \in Worker : \A j \in 1..Len(pending[v]) : pending[v][j] # x
           /\ \A v \in Worker : \A k \in Lock : v # w \/ k # l =>
                 \A j \in 1..Len(writer[v][k].batch) : writer[v][k].batch[j] # x
<1>1. /\ x \in Row /\ at[x] = w /\ req[x] \in {"ok", "flushing", "writing"}
      /\ l = "row" => req[x] = "writing"
      /\ l = "chain" => req[x] \in {"ok", "flushing"}
  BY PlacesAt
<1>2. l \in {"chain", "row"}
  BY DEF Lock
<1>3. l = "chain" => writer[w]["chain"].by # "none"
  <2>1. WriteSize(l, writer[w][l])
    BY PlacesAt DEF WriteOK
  <2>2. writer[w][l].by = "none" => Len(writer[w][l].batch) = 0
    BY <2>1 DEF WriteSize
  <2> QED BY <2>2
<1>4. ASSUME NEW v \in Worker, NEW j \in 1..Len(pending[v]) PROVE pending[v][j] # x
  <2>1. at[pending[v][j]] = v /\ req[pending[v][j]] = "ok"
    BY PlacesAt
  <2>2. CASE l = "chain" /\ v = w
    BY <1>3, <2>2, PlacesAt
  <2> QED BY <1>1, <1>2, <2>1, <2>2
<1>5. ASSUME NEW v \in Worker, NEW k \in Lock, v # w \/ k # l,
             NEW j \in 1..Len(writer[v][k].batch)
      PROVE  writer[v][k].batch[j] # x
  <2>1. /\ at[writer[v][k].batch[j]] = v
        /\ k = "row" => req[writer[v][k].batch[j]] = "writing"
        /\ k = "chain" => req[writer[v][k].batch[j]] \in {"ok", "flushing"}
    BY PlacesAt
  <2> QED BY <1>1, <1>2, <1>5, <2>1 DEF Lock
<1> QED BY <1>1, <1>4, <1>5 DEF Fresh

\* A step that touches only the rows T leaves the places without them as they were.
LEMMA UntouchedPlaces ==
    ASSUME Inv, RowsInv, NEW T,
           \A q \in Row : q \notin T => /\ req'[q] = req[q] /\ at'[q] = at[q]
                                        /\ RecordedIn(table', q) <=> RecordedIn(table, q)
    PROVE  /\ \A v \in Worker : (\A j \in 1..Len(pending[v]) : pending[v][j] \notin T)
                 => QueueOK(v, pending[v], req', at', table')
           /\ \A v \in Worker : \A k \in Lock :
                 (\A j \in 1..Len(writer[v][k].batch) : writer[v][k].batch[j] \notin T)
                    => WriteOK(v, k, writer[v][k], req', at', table')
<1>1. ASSUME NEW v \in Worker, \A j \in 1..Len(pending[v]) : pending[v][j] \notin T
      PROVE  QueueOK(v, pending[v], req', at', table')
  <2>1. \A j \in 1..Len(pending[v]) : pending[v][j] \in Row
    BY PlacesAt
  <2>2. QueueOK(v, pending[v], req, at, table)
    BY PlacesAt
  <2> QED BY <1>1, <2>1, <2>2, QueueKept
<1>2. ASSUME NEW v \in Worker, NEW k \in Lock,
             \A j \in 1..Len(writer[v][k].batch) : writer[v][k].batch[j] \notin T
      PROVE  WriteOK(v, k, writer[v][k], req', at', table')
  <2>1. \A j \in 1..Len(writer[v][k].batch) : writer[v][k].batch[j] \in Row
    BY PlacesAt
  <2>2. WriteOK(v, k, writer[v][k], req, at, table)
    BY PlacesAt
  <2> QED BY <1>2, <2>1, <2>2, WriteKept
<1> QED BY <1>1, <1>2

\* A step on the write under one lock of one worker that touches only the
\* rows T of that write.
LEMMA OneWritePlaces ==
    ASSUME Inv, RowsInv, NEW w \in Worker, NEW l \in Lock, NEW g, NEW T,
           writer' = [writer EXCEPT ![w][l] = g], pending' = pending,
           \A x \in T : \E i \in 1..Len(writer[w][l].batch) : x = writer[w][l].batch[i],
           \A q \in Row : q \notin T => /\ req'[q] = req[q] /\ at'[q] = at[q]
                                        /\ RecordedIn(table', q) <=> RecordedIn(table, q),
           g.by # "none" => writer[w][l].by # "none",
           WriteOK(w, l, g, req', at', table')
    PROVE  Places'
<1>1. writer \in [Worker -> [Lock -> WriterType]]
  BY DEF Inv, TypeOK, ProcessType
<1>2. /\ writer'[w][l] = g /\ \A k \in Lock : k # l => writer'[w][k] = writer[w][k]
      /\ \A v \in Worker : v # w => writer'[v] = writer[v]
  BY <1>1
<1>3. ASSUME NEW v \in Worker
      PROVE  /\ QueueOK(v, pending[v], req', at', table')
             /\ \A k \in Lock : v # w \/ k # l => WriteOK(v, k, writer[v][k], req', at', table')
  <2>1. \A j \in 1..Len(pending[v]) : pending[v][j] \notin T
    BY Apart
  <2>2. ASSUME NEW k \in Lock, v # w \/ k # l
        PROVE  \A j \in 1..Len(writer[v][k].batch) : writer[v][k].batch[j] \notin T
    BY <2>2, Apart
  <2> QED BY <2>1, <2>2, UntouchedPlaces
<1>4. \A v \in Worker : writer[v]["chain"].by # "none" => pending[v] = <<>>
  BY PlacesAt
<1>5. ASSUME NEW v \in Worker
      PROVE  PlacesOf(v, pending'[v], writer'[v], req', at', table')
  <2>1. writer'[v]["chain"].by # "none" => pending[v] = <<>>
    BY <1>2, <1>4 DEF Lock
  <2>2. \A k \in Lock : WriteOK(v, k, writer'[v][k], req', at', table')
    BY <1>2, <1>3
  <2> QED BY <1>3, <2>1, <2>2 DEF PlacesOf
<1> QED BY <1>5 DEF Places

LEMMA ReadRows ==
    ASSUME Inv, RowsInv, NEW w \in Worker, NEW l \in Lock, ReadHead(w, l) \/ Retry(w, l)
    PROVE  RowsInv'
<1> DEFINE f == writer[w][l]
<1>1. f \in WriterType
  BY BatchType
<1>2. PICK g : /\ writer' = [writer EXCEPT ![w][l] = g]
               /\ g.by = f.by /\ g.batch = f.batch /\ g.phase # "done" /\ f.phase # "done"
  <2>1. CASE ReadHead(w, l)
    <3> DEFINE g == [f EXCEPT !.phase = "read", !.head = AuditChainHead(table)]
    <3>1. g.by = f.by /\ g.batch = f.batch /\ g.phase = "read"
      BY <1>1 DEF WriterType
    <3>2. writer' = [writer EXCEPT ![w][l] = g] /\ f.phase = "open"
      BY <2>1 DEF ReadHead
    <3> HIDE DEF g, f
    <3> QED BY <3>1, <3>2
  <2>2. CASE Retry(w, l)
    <3> DEFINE g == [f EXCEPT !.phase = "open", !.attempt = f.attempt + 1]
    <3>1. g.by = f.by /\ g.batch = f.batch /\ g.phase = "open"
      BY <1>1 DEF WriterType
    <3>2. writer' = [writer EXCEPT ![w][l] = g] /\ f.phase = "read"
      BY <2>2 DEF Retry, Conflict
    <3> HIDE DEF g, f
    <3> QED BY <3>1, <3>2
  <2> QED BY <2>1, <2>2
<1>3. req' = req /\ at' = at /\ table' = table /\ pending' = pending
  BY DEF ReadHead, Retry
<1>4. WriteOK(w, l, f, req, at, table)
  BY PlacesAt
<1>5. WriteOK(w, l, g, req, at, table)
  BY <1>2, <1>4 DEF WriteOK, WriteSize, CallOf
<1>6. WriteOK(w, l, g, req', at', table')
  BY <1>3, <1>5
<1>7. PICK T : T = {}
  OBVIOUS
<1>8. /\ \A x \in T : \E i \in 1..Len(writer[w][l].batch) : x = writer[w][l].batch[i]
      /\ \A q \in Row : q \notin T => /\ req'[q] = req[q] /\ at'[q] = at[q]
                                      /\ RecordedIn(table', q) <=> RecordedIn(table, q)
      /\ g.by # "none" => writer[w][l].by # "none"
  BY <1>2, <1>3, <1>7
<1>9. Places'
  BY <1>2, <1>3, <1>6, <1>8, OneWritePlaces
<1> QED BY <1>3, <1>9, SameKept DEF RowsInv

\* An INSERT records the rows of its batch and no other.
LEMMA InsertRecords ==
    ASSUME Inv, NEW w \in Worker, NEW l \in Lock, Insert(w, l),
           NEW b \in Seq(Row), b = writer[w][l].batch, NEW q
    PROVE  RecordedIn(table', q) <=> RecordedIn(table, q) \/ \E i \in 1..Len(b) : q = b[i]
<1>1. PICK n \in Nat : ChainOK(table, n) /\ HeadsOK(n)
  BY DEF Inv, ChainInv
<1>2. /\ DOMAIN table = 1..n /\ DOMAIN table' = 1..(n + Len(b)) /\ Len(b) \in Nat
      /\ \A s \in 1..n : table'[s].row = table[s].row
      /\ \A i \in 1..Len(b) : table'[n + i].row = b[i]
  BY <1>1, InsertStep DEF ChainOK
<1>3. ASSUME NEW s \in 1..(n + Len(b)), table'[s].row = q
      PROVE  RecordedIn(table, q) \/ \E i \in 1..Len(b) : q = b[i]
  <2>1. CASE s \in 1..n
    BY <1>2, <1>3, <2>1 DEF RecordedIn
  <2>2. CASE s \notin 1..n
    <3>1. s - n \in 1..Len(b) /\ s = n + (s - n)
      BY <1>2, <2>2
    <3> QED BY <1>2, <1>3, <3>1
  <2> QED BY <2>1, <2>2
<1>4. ASSUME NEW s \in 1..n, table[s].row = q
      PROVE  RecordedIn(table', q)
  BY <1>2, <1>4 DEF RecordedIn
<1>5. ASSUME NEW i \in 1..Len(b), q = b[i]
      PROVE  RecordedIn(table', q)
  <2>1. n + i \in 1..(n + Len(b)) /\ table'[n + i].row = q
    BY <1>2, <1>5
  <2> QED BY <1>2, <2>1 DEF RecordedIn
<1> QED BY <1>2, <1>3, <1>4, <1>5 DEF RecordedIn

LEMMA InsertRows ==
    ASSUME Inv, RowsInv, NEW w \in Worker, NEW l \in Lock, Insert(w, l)
    PROVE  RowsInv'
<1>0. PICK b \in Seq(Row) : b = writer[w][l].batch
  BY BatchType
<1>1. PICK g : /\ writer' = [writer EXCEPT ![w][l] = g] /\ writer[w][l].phase = "read"
               /\ g.by = writer[w][l].by /\ g.batch = b /\ g.phase = "done"
  <2> DEFINE g == [writer[w][l] EXCEPT !.phase = "done"]
  <2>1. g.by = writer[w][l].by /\ g.batch = writer[w][l].batch /\ g.phase = "done"
    BY BatchType DEF WriterType
  <2>2. writer' = [writer EXCEPT ![w][l] = g] /\ writer[w][l].phase = "read"
    BY DEF Insert
  <2> HIDE DEF g
  <2> QED BY <1>0, <2>1, <2>2
<1>2. req' = req /\ at' = at /\ pending' = pending
  BY DEF Insert
<1>3. PICK n \in Nat : ChainOK(table, n) /\ HeadsOK(n)
  BY DEF Inv, ChainInv
<1>4. /\ DOMAIN table = 1..n /\ DOMAIN table' = 1..(n + Len(b)) /\ Len(b) \in Nat
      /\ \A s \in 1..n : table'[s].row = table[s].row
      /\ \A i \in 1..Len(b) : table'[n + i].row = b[i]
  BY <1>0, <1>3, InsertStep DEF ChainOK
<1>5. \A s \in 1..(n + Len(b)) : s \in 1..n \/ \E i \in 1..Len(b) : s = n + i
  <2> TAKE s \in 1..(n + Len(b))
  <2>1. s \notin 1..n => s - n \in 1..Len(b) /\ s = n + (s - n)
    BY <1>4
  <2> QED BY <2>1
<1>6. \A i \in 1..Len(b) : n + i \in 1..(n + Len(b)) /\ n + i \notin 1..n
  BY <1>4
<1>8. PICK T : T = {b[i] : i \in 1..Len(b)}
  OBVIOUS
<1>9. \A q : RecordedIn(table', q) <=> RecordedIn(table, q) \/ q \in T
  BY <1>0, <1>8, InsertRecords
<1>10. WriteOK(w, l, writer[w][l], req, at, table)
  BY PlacesAt
<1>11. /\ \A i \in 1..Len(b) : ~RecordedIn(table, b[i])
       /\ \A i, j \in 1..Len(b) : b[i] = b[j] => i = j
  BY <1>0, <1>1, <1>10 DEF WriteOK
<1>12. TableOnce'
  <2>1. \A s, u \in 1..n : table'[s].row = table'[u].row => s = u
    BY <1>4 DEF RowsInv, TableOnce
  <2>2. ASSUME NEW s \in 1..n, NEW i \in 1..Len(b)
        PROVE  table'[s].row # table'[n + i].row
    <3>1. table'[s].row = table[s].row /\ s \in DOMAIN table /\ table'[n + i].row = b[i]
      BY <1>4
    <3> QED BY <1>11, <3>1 DEF RecordedIn
  <2>3. \A i, j \in 1..Len(b) : table'[n + i].row = table'[n + j].row => i = j
    BY <1>4, <1>11
  <2>4. ASSUME NEW s \in 1..(n + Len(b)), NEW u \in 1..(n + Len(b)),
               table'[s].row = table'[u].row
        PROVE  s = u
    <3>1. CASE s \in 1..n /\ u \in 1..n
      BY <2>1, <2>4, <3>1
    <3>2. CASE s \in 1..n /\ u \notin 1..n
      BY <1>5, <2>2, <2>4, <3>2
    <3>3. CASE s \notin 1..n /\ u \in 1..n
      BY <1>5, <2>2, <2>4, <3>3
    <3>4. CASE s \notin 1..n /\ u \notin 1..n
      BY <1>5, <2>3, <2>4, <3>4
    <3> QED BY <3>1, <3>2, <3>3, <3>4
  <2> QED BY <1>4, <2>4 DEF TableOnce
<1>13. WriteOK(w, l, g, req', at', table')
  <2>1. WriteOK(w, l, g, req, at, table')
    <3>1. \A i \in 1..Len(b) : RecordedIn(table', b[i])
      BY <1>8, <1>9
    <3>2. WriteSize(l, g)
      BY <1>0, <1>1, <1>10 DEF WriteOK, WriteSize
    <3>3. \A i \in 1..Len(b) : at[b[i]] = w /\ req[b[i]] = CallOf(g, i)
      BY <1>0, <1>1, <1>10 DEF WriteOK, CallOf
    <3> QED BY <1>1, <1>11, <3>1, <3>2, <3>3 DEF WriteOK
  <2> QED BY <1>2, <2>1
<1>14. /\ \A x \in T : \E i \in 1..Len(writer[w][l].batch) : x = writer[w][l].batch[i]
       /\ \A q \in Row : q \notin T => /\ req'[q] = req[q] /\ at'[q] = at[q]
                                       /\ RecordedIn(table', q) <=> RecordedIn(table, q)
       /\ g.by # "none" => writer[w][l].by # "none"
  BY <1>0, <1>1, <1>2, <1>8, <1>9
<1>15. Places'
  BY <1>1, <1>2, <1>13, <1>14, OneWritePlaces
<1>16. \A x \in T : req[x] \notin Fresh
  BY <1>14, Apart
<1>17. \A r \in Row : req'[r] \in Fresh => ~RecordedIn(table', r)
  BY <1>2, <1>9, <1>16 DEF RowsInv, FreshOnes
<1>18. FreshOnes'
  BY <1>2, <1>17 DEF RowsInv, FreshOnes
<1> QED BY <1>12, <1>15, <1>18 DEF RowsInv

\* However a write ends, its rows have left the memory of the worker.
LEMMA FinishRows ==
    ASSUME Inv, RowsInv, NEW w \in Worker, NEW l \in Lock, NEW a \in Answer,
           Finish(w, l, a), table' = table
    PROVE  RowsInv'
<1>0. /\ writer' = [writer EXCEPT ![w][l] = Free] /\ pending' = pending /\ at' = at
      /\ req' = IF writer[w][l].by \in {"append", "log_audit"}
                THEN [req EXCEPT ![Caller(writer[w][l].batch)] = a] ELSE req
  BY DEF Finish
<1>1. PICK T : T = IF writer[w][l].by \in {"append", "log_audit"}
                   THEN {Caller(writer[w][l].batch)} ELSE {}
  OBVIOUS
<1>2. req \in [Row -> {"new"} \cup InCall \cup Answer]
  BY DEF Inv, TypeOK, CallType
<1>3. \A x \in T : \E i \in 1..Len(writer[w][l].batch) : x = writer[w][l].batch[i]
  <2> TAKE x \in T
  <2>1. x = Caller(writer[w][l].batch) /\ writer[w][l].by # "none"
    BY <1>1
  <2>2. writer[w][l].batch # <<>> /\ writer[w][l].batch \in Seq(Row)
    BY <2>1, BatchType DEF Inv, BatchInv
  <2>3. Len(writer[w][l].batch) \in 1..Len(writer[w][l].batch)
    BY <2>2, EmptySeq
  <2> QED BY <2>1, <2>3 DEF Caller
<1>4. \A q \in Row : q \notin T => /\ req'[q] = req[q] /\ at'[q] = at[q]
                                   /\ RecordedIn(table', q) <=> RecordedIn(table, q)
  BY <1>0, <1>1, <1>2
<1>5. PICK g : g = Free
  OBVIOUS
<1>6. /\ WriteOK(w, l, g, req', at', table')
      /\ g.by # "none" => writer[w][l].by # "none"
      /\ writer' = [writer EXCEPT ![w][l] = g]
  BY <1>0, <1>5, FreeWrite DEF Free, Writing
<1>7. Places'
  <2>1. pending' = pending
    BY <1>0
  <2> QED BY <1>3, <1>4, <1>6, <2>1, OneWritePlaces
<1>8. \A x \in T : x \in Row /\ req[x] \notin Fresh
  BY <1>3, Apart
<1>9. \A r \in Row : (req'[r] \in Fresh => req[r] \in Fresh) /\ (req'[r] # "new" => req[r] # "new")
  <2> TAKE r \in Row
  <2>1. CASE r \in T
    <3>1. req'[r] = a
      BY <1>0, <1>1, <1>2, <2>1
    <3> QED BY <1>8, <2>1, <3>1 DEF Answer, Fresh
  <2> QED BY <1>4, <2>1
<1>10. FreshOnes'
  BY <1>0, <1>9 DEF RowsInv, FreshOnes
<1> QED BY <1>7, <1>10 DEF RowsInv, TableOnce

\* The queue becomes the batch of a flush.
LEMMA FlushRows ==
    ASSUME Inv, RowsInv, NEW w \in Worker, NEW by \in {"loop", "stop"}, FlushNow(w, by),
           req' = req, at' = at, table' = table
    PROVE  RowsInv'
<1>1. PICK p \in Seq(Row) : p = pending[w]
  BY PendingType
<1>2. PICK g : g = Writing(by, p)
  OBVIOUS
<1>3. g.by = by /\ g.batch = p /\ g.phase = "open"
  BY <1>2 DEF Writing
<1>4. /\ pending \in [Worker -> Seq(Row)] /\ writer \in [Worker -> [Lock -> WriterType]]
      /\ writer[w] \in [Lock -> WriterType]
  BY DEF Inv, TypeOK, ProcessType
<1>5. /\ pending'[w] = <<>> /\ writer'[w]["chain"] = g /\ writer'[w]["row"] = writer[w]["row"]
      /\ \A v \in Worker : v # w => pending'[v] = pending[v] /\ writer'[v] = writer[v]
  BY <1>1, <1>2, <1>4 DEF FlushNow, Lock
<1>6. QueueOK(w, p, req, at, table) /\ WriteOK(w, "row", writer[w]["row"], req, at, table)
  BY <1>1, PlacesAt DEF Lock
<1>7. WriteSize("chain", g)
  BY <1>1, <1>3, <1>6, ChainConstants DEF WriteSize, QueueOK
<1>8. WriteOK(w, "chain", g, req, at, table)
  BY <1>3, <1>6, <1>7 DEF WriteOK, QueueOK, CallOf
<1>9. PlacesOf(w, pending'[w], writer'[w], req', at', table')
  BY <1>5, <1>6, <1>8, EmptyQueue DEF PlacesOf, Lock
<1>10. Places'
  BY <1>5, <1>9, SameKept, OneWorkerPlaces
<1> QED BY <1>10, SameKept DEF RowsInv

LEMMA PerRowRows ==
    ASSUME Inv, RowsInv, NEW r \in Row, PerRowStart(r)
    PROVE  RowsInv'
<1> DEFINE w == at[r]
<1>0. req \in [Row -> {"new"} \cup InCall \cup Answer]
  BY DEF Inv, TypeOK, CallType
<1>1. /\ req[r] = "per_row" /\ table' = table /\ at' = at /\ pending' = pending
      /\ req' = [req EXCEPT ![r] = "writing"] /\ req'[r] = "writing"
      /\ writer' = [writer EXCEPT ![w]["row"] = Writing("log_audit", <<r>>)]
  BY <1>0 DEF PerRowStart
<1>2. w \in Worker /\ at'[r] = w
  BY <1>1 DEF RowsInv, FreshOnes
<1> HIDE DEF w
<1>3. \A q \in Row : q # r => req'[q] = req[q] /\ at'[q] = at[q]
  BY <1>0, <1>1
<1>4. /\ \A v \in Worker : PlacesOf(v, pending[v], writer[v], req', at', table')
      /\ ~RecordedIn(table, r) /\ TableOnce'
  BY <1>1, <1>3, FreshKept DEF Fresh
<1>5. FreshOnes'
  BY <1>1, <1>2, <1>3 DEF RowsInv, FreshOnes, Fresh, w
<1>6. PICK g : g = Writing("log_audit", <<r>>)
  OBVIOUS
<1>7. g.by = "log_audit" /\ g.batch = <<r>> /\ g.phase = "open"
  BY <1>6 DEF Writing
<1>8. Len(g.batch) = 1 /\ g.batch[1] = r /\ \A i \in 1..Len(g.batch) : i = 1
  BY <1>7
<1>9. WriteSize("row", g)
  BY <1>7 DEF WriteSize
<1>10. \A i \in 1..Len(g.batch) : CallOf(g, i) = "writing"
  BY <1>7 DEF CallOf
<1>11. WriteOK(w, "row", g, req', at', table')
  BY <1>1, <1>2, <1>4, <1>7, <1>8, <1>9, <1>10 DEF WriteOK
<1>12. writer \in [Worker -> [Lock -> WriterType]] /\ writer[w] \in [Lock -> WriterType]
  BY <1>2 DEF Inv, TypeOK, ProcessType
<1>13. /\ writer'[w]["row"] = g /\ writer'[w]["chain"] = writer[w]["chain"]
       /\ \A v \in Worker : v # w => writer'[v] = writer[v]
  BY <1>1, <1>2, <1>6, <1>12 DEF Lock
<1>14. PlacesOf(w, pending'[w], writer'[w], req', at', table')
  BY <1>1, <1>2, <1>4, <1>11, <1>13 DEF PlacesOf, Lock
<1>15. Places'
  BY <1>1, <1>2, <1>4, <1>13, <1>14, OneWorkerPlaces
<1> QED BY <1>4, <1>5, <1>15 DEF RowsInv

LEMMA CancelRows ==
    ASSUME Inv, RowsInv, NEW w \in Worker, StopCancel(w)
    PROVE  RowsInv'
<1>1. req' = req /\ at' = at /\ table' = table /\ pending' = pending
  BY DEF StopCancel
<1>2. writer \in [Worker -> [Lock -> WriterType]] /\ writer[w] \in [Lock -> WriterType]
  BY DEF Inv, TypeOK, ProcessType
<1>3. PICK g : g = IF writer[w]["chain"].by = "loop" THEN Free ELSE writer[w]["chain"]
  OBVIOUS
<1>4. /\ writer'[w]["chain"] = g /\ writer'[w]["row"] = writer[w]["row"]
      /\ \A v \in Worker : v # w => writer'[v] = writer[v]
  BY <1>2, <1>3 DEF StopCancel, Lock
<1>5. /\ WriteOK(w, "chain", g, req, at, table) /\ WriteOK(w, "row", writer[w]["row"], req, at, table)
      /\ QueueOK(w, pending[w], req, at, table)
  BY <1>3, PlacesAt, FreeWrite DEF Lock
<1>6. g.by # "none" => pending[w] = <<>>
  BY <1>3, PlacesAt DEF Free, Writing
<1>7. PlacesOf(w, pending'[w], writer'[w], req', at', table')
  BY <1>1, <1>4, <1>5, <1>6 DEF PlacesOf, Lock
<1>8. Places'
  BY <1>1, <1>4, <1>7, SameKept, OneWorkerPlaces
<1> QED BY <1>1, <1>8, SameKept DEF RowsInv

\* The memory of a fresh process is empty, and its calls have failed.
LEMMA RestartRows ==
    ASSUME Inv, RowsInv, NEW w \in Worker, NewProcess(w)
    PROVE  RowsInv'
<1>0. /\ table' = table /\ at' = at /\ pending' = [pending EXCEPT ![w] = <<>>]
      /\ writer' = [writer EXCEPT ![w] = [l \in Lock |-> Free]]
      /\ \A q \in Row : req'[q] = IF at[q] = w /\ req[q] \in {"append", "flushing", "per_row", "writing"}
                                  THEN "error" ELSE req[q]
  BY DEF NewProcess
<1>1. pending \in [Worker -> Seq(Row)] /\ writer \in [Worker -> [Lock -> WriterType]]
  BY DEF Inv, TypeOK, ProcessType
<1>2. PICK T : T = {q \in Row : at[q] = w}
  OBVIOUS
<1>3. \A q \in Row : q \notin T => /\ req'[q] = req[q] /\ at'[q] = at[q]
                                   /\ RecordedIn(table', q) <=> RecordedIn(table, q)
  BY <1>0, <1>2
<1>4. ASSUME NEW v \in Worker, v # w
      PROVE  PlacesOf(v, pending[v], writer[v], req', at', table')
  <2>1. \A j \in 1..Len(pending[v]) : pending[v][j] \notin T
    BY <1>2, <1>4, PlacesAt
  <2>2. \A k \in Lock : \A j \in 1..Len(writer[v][k].batch) : writer[v][k].batch[j] \notin T
    BY <1>2, <1>4, PlacesAt
  <2>3. writer[v]["chain"].by # "none" => pending[v] = <<>>
    BY PlacesAt
  <2> QED BY <1>3, <2>1, <2>2, <2>3, UntouchedPlaces DEF PlacesOf
<1>5. /\ pending'[w] = <<>> /\ \A l \in Lock : writer'[w][l] = Free
      /\ \A v \in Worker : v # w => pending'[v] = pending[v] /\ writer'[v] = writer[v]
  BY <1>0, <1>1
<1>6. PlacesOf(w, pending'[w], writer'[w], req', at', table')
  BY <1>5, EmptyQueue, FreeWrite DEF PlacesOf, Lock
<1>7. Places'
  BY <1>4, <1>5, <1>6, OneWorkerPlaces
<1>8. FreshOnes'
  BY <1>0 DEF RowsInv, FreshOnes, Fresh
<1> QED BY <1>0, <1>7, <1>8 DEF RowsInv, TableOnce

LEMMA RowsNext ==
    ASSUME Inv, RowsInv, Next
    PROVE  RowsInv'
<1>1. ASSUME NEW w \in Worker, NEW l \in Lock,
             Return(w, l) \/ Exhausted(w, l) \/ DatabaseError(w, l)
      PROVE  RowsInv'
  <2>1. \E a \in Answer : Finish(w, l, a)
    BY <1>1 DEF Return, Exhausted, DatabaseError, Answer
  <2>2. table' = table
    BY <1>1 DEF Return, Exhausted, DatabaseError
  <2> QED BY <2>1, <2>2, FinishRows
<1>2. ASSUME NEW w \in Worker, PeriodicFlush(w) \/ StopDrain(w)
      PROVE  RowsInv'
  <2>1. req' = req /\ at' = at /\ table' = table
    BY <1>2 DEF PeriodicFlush, StopDrain
  <2>2. CASE \E by \in {"loop", "stop"} : FlushNow(w, by)
    BY <2>1, <2>2, FlushRows
  <2>3. CASE pending' = pending /\ writer' = writer
    BY <2>1, <2>3, SameKept DEF RowsInv, Places
  <2> QED BY <1>2, <2>2, <2>3 DEF PeriodicFlush, StopDrain
<1>3. ASSUME NEW w \in Worker, WorkerStep(w)
      PROVE  RowsInv'
  BY <1>1, <1>2, <1>3, AppendRows, PerRowRows, ReadRows, InsertRows DEF WorkerStep
<1>4. ASSUME NEW w \in Worker,
             \/ \E l \in Lock : DatabaseError(w, l)
             \/ StopCancel(w) \/ Exit(w) \/ Crash(w)
      PROVE  RowsInv'
  BY <1>1, <1>4, CancelRows, RestartRows DEF Exit, Crash
<1>5. CASE Idle
  BY <1>5 DEF Idle, vars, RowsInv, Places, FreshOnes, TableOnce
<1> QED BY <1>3, <1>4, <1>5, LogRows DEF Next

LEMMA RowsInit == Init => RowsInv
<1> SUFFICES ASSUME Init PROVE RowsInv
  OBVIOUS
<1>1. DOMAIN table = {}
  BY DEF Init
<1>2. ASSUME NEW w \in Worker PROVE PlacesOf(w, pending[w], writer[w], req, at, table)
  <2>1. pending[w] = <<>> /\ \A l \in Lock : writer[w][l] = Free
    BY DEF Init
  <2> QED BY <2>1, EmptyQueue, FreeWrite DEF PlacesOf
<1>3. FreshOnes /\ TableOnce
  BY <1>1 DEF Init, FreshOnes, TableOnce, RecordedIn
<1> QED BY <1>2, <1>3 DEF RowsInv, Places

LEMMA RowsAlways == Spec => [](Inv /\ RowsInv)
<1>1. Inv /\ RowsInv /\ [Next]_vars => RowsInv'
  <2> SUFFICES ASSUME Inv, RowsInv, [Next]_vars PROVE RowsInv'
    OBVIOUS
  <2>1. CASE UNCHANGED vars
    BY <2>1 DEF vars, RowsInv, Places, FreshOnes, TableOnce
  <2> QED BY <2>1, RowsNext
<1> QED BY <1>1, RowsInit, InvAlways, PTL DEF Spec

-----------------------------------------------------------------------------
(***************************************************************************)
(* The append-only log.                                                    *)
(***************************************************************************)
LEMMA Prefix ==
    ASSUME NEW S, NEW n \in Nat, NEW k \in Nat \ {0}, NEW p \in [1..n -> S],
           NEW q \in [1..(n + k) -> S], \A s \in 1..n : q[s] = p[s]
    PROVE  /\ q \in Seq(S) /\ Len(p) = n /\ Len(q) = n + k
           /\ SubSeq(q, 1, Len(p)) = p
<1>1. p \in Seq(S) /\ q \in Seq(S) /\ Len(p) = n /\ Len(q) = n + k
  OBVIOUS
<1>2. SubSeq(q, 1, n) \in Seq(S) /\ Len(SubSeq(q, 1, n)) = n
  BY <1>1, SubSeqProperties
<1>3. \A i \in 1..n : SubSeq(q, 1, n)[i] = p[i]
  BY <1>1, SubSeqProperties
<1>4. SubSeq(q, 1, n) = p
  BY <1>1, <1>2, <1>3, SeqEqual
<1> QED BY <1>1, <1>4

LEMMA InsertAppends ==
    ASSUME Inv, RowsInv, RowsInv', NEW w \in Worker, NEW l \in Lock, Insert(w, l)
    PROVE  Log!AppendBatch
<1>1. PICK n \in Nat : ChainOK(table, n) /\ HeadsOK(n)
  BY DEF Inv, ChainInv
<1>2. PICK k \in Nat \ {0} : k = Len(writer[w][l].batch)
  <2>1. writer[w][l].batch # <<>> /\ writer[w][l].batch \in Seq(Row)
    BY BatchType DEF Inv, BatchInv, Insert
  <2> QED BY <2>1, EmptySeq
<1>3. ChainOK(table', n + k) /\ \A s \in 1..n : table'[s] = table[s]
  BY <1>1, <1>2, InsertStep
<1>4. PICK p, q : p = RowLog /\ q = RowLog'
  OBVIOUS
<1>5. p \in [1..n -> Row] /\ \A s \in 1..n : p[s] = table[s].row
  BY <1>1, <1>4 DEF RowLog, ChainOK, StoredRow
<1>6. q \in [1..(n + k) -> Row] /\ \A s \in 1..(n + k) : q[s] = table'[s].row
  BY <1>3, <1>4 DEF RowLog, ChainOK, StoredRow
<1>7. \A s \in 1..n : q[s] = p[s]
  BY <1>3, <1>5, <1>6
<1>8. /\ q \in Seq(Row) /\ Len(p) = n /\ Len(q) = n + k
      /\ SubSeq(q, 1, Len(p)) = p
  BY <1>5, <1>6, <1>7, Prefix
<1>9. \A i, j \in DOMAIN q : q[i] = q[j] => i = j
  BY <1>3, <1>6 DEF RowsInv, TableOnce, ChainOK
<1> QED BY <1>4, <1>8, <1>9 DEF Log!AppendBatch, Log!Once

\* The workers implement the append-only log of AuditLog: each commit adds a
\* whole batch of rows that were not there behind the last row, for any number
\* of workers and through every fault.
THEOREM ImplementsLog == Spec => AppendsOnly
<1>1. Init => Log!Init
  <2> SUFFICES ASSUME Init PROVE RowLog = <<>>
    BY DEF Log!Init
  <2>1. DOMAIN table = {}
    BY DEF Init
  <2>2. RowLog \in [1..0 -> Row]
    BY <2>1 DEF RowLog
  <2>3. RowLog \in Seq(Row) /\ Len(RowLog) = 0
    BY <2>2
  <2> QED BY <2>3, EmptySeq
<1>2. Inv /\ RowsInv /\ RowsInv' /\ [Next]_vars => [Log!AppendBatch]_RowLog
  <2> SUFFICES ASSUME Inv, RowsInv, RowsInv', [Next]_vars
               PROVE  Log!AppendBatch \/ RowLog' = RowLog
    OBVIOUS
  <2>1. CASE Next /\ \A w \in Worker, l \in Lock : ~Insert(w, l)
    BY <2>1, QuietStep DEF Inv, RowLog
  <2>2. CASE \E w \in Worker, l \in Lock : Insert(w, l)
    BY <2>2, InsertAppends
  <2>3. CASE UNCHANGED vars
    BY <2>3 DEF vars, RowLog
  <2> QED BY <2>1, <2>2, <2>3
<1> QED BY <1>1, <1>2, RowsAlways, PTL DEF Spec, AppendsOnly, Log!Spec

-----------------------------------------------------------------------------
(***************************************************************************)
(* The crash-loss window.                                                  *)
(***************************************************************************)

\* A set that is listed in k places has at most k elements.
LEMMA Listed ==
    ASSUME NEW b, NEW k \in Nat, NEW S, \A x \in S : \E i \in 1..k : x = b[i]
    PROVE  Cardinality(S) \in Nat /\ Cardinality(S) <= k
<1> DEFINE f == [x \in S |-> CHOOSE i \in 1..k : x = b[i]]
<1>1. \A x \in S : f[x] \in 1..k /\ x = b[f[x]]
  OBVIOUS
<1>2. f \in [S -> 1..k]
  BY <1>1
<1> HIDE DEF f
<1>3. f \in Injection(S, 1..k)
  BY <1>1, <1>2 DEF Injection, IsInjective
<1>4. IsFiniteSet(1..k) /\ Cardinality(1..k) = k
  BY FS_Interval
<1>5. IsFiniteSet(S) /\ Cardinality(S) <= k
  BY <1>3, <1>4, FS_Injection
<1> QED BY <1>5, FS_CardinalityType

LEMMA WindowBounded == Inv /\ RowsInv => CrashWindow
<1> SUFFICES ASSUME Inv, RowsInv, NEW w \in Worker
             PROVE  Cardinality({r \in InMemory(w) : req[r] = "ok" /\ ~Recorded(r)}) < BatchSize
  BY DEF CrashWindow
<1>1. PICK S : S = {r \in InMemory(w) : req[r] = "ok" /\ ~Recorded(r)}
  OBVIOUS
<1>2. PICK p \in Seq(Row) : p = pending[w]
  BY PendingType
<1>3. PICK b \in Seq(Row) : b = writer[w]["chain"].batch
  BY BatchType DEF Lock
<1>4. Len(p) < BatchSize /\ Len(b) \in Nat /\ Len(p) \in Nat /\ BatchSize \in Nat \ {0}
  BY <1>2, <1>3, PlacesAt, ChainConstants DEF QueueOK
<1>5. WriteSize("chain", writer[w]["chain"])
  BY PlacesAt DEF WriteOK, Lock
<1>6. ASSUME NEW x \in S
      PROVE  \/ \E i \in 1..Len(p) : x = p[i]
             \/ \E i \in 1..Len(b) : x = b[i]
  <2>1. x \in InMemory(w) /\ req[x] = "ok"
    BY <1>1
  <2>2. ASSUME NEW i \in 1..Len(writer[w]["row"].batch) PROVE writer[w]["row"].batch[i] # x
    BY <2>1, PlacesAt DEF Lock
  <2>3. writer[w]["row"].batch \in Seq(Row)
    BY BatchType DEF Lock
  <2>4. DOMAIN p = 1..Len(p) /\ DOMAIN b = 1..Len(b)
        /\ DOMAIN writer[w]["row"].batch = 1..Len(writer[w]["row"].batch)
    BY <2>3
  <2> QED BY <1>2, <1>3, <2>1, <2>2, <2>4 DEF InMemory, Lock
<1>7. CASE writer[w]["chain"].by = "none"
  <2>1. Len(b) = 0
    BY <1>3, <1>5, <1>7 DEF WriteSize
  <2>2. \A x \in S : \E i \in 1..Len(p) : x = p[i]
    BY <1>6, <2>1
  <2>3. Cardinality(S) <= Len(p) /\ Cardinality(S) \in Nat
    BY <1>4, <2>2, Listed
  <2> QED BY <1>1, <1>4, <2>3
<1>8. CASE writer[w]["chain"].by # "none"
  <2>1. p = <<>>
    BY <1>2, <1>8, PlacesAt
  <2>2. \A x \in S : \E i \in 1..Len(b) : x = b[i]
    BY <1>6, <2>1
  <2>3. CASE writer[w]["chain"].by # "append"
    <3>1. Len(b) < BatchSize
      BY <1>3, <1>5, <2>3 DEF WriteSize
    <3>2. Cardinality(S) <= Len(b) /\ Cardinality(S) \in Nat
      BY <1>4, <2>2, Listed
    <3> QED BY <1>1, <1>4, <3>1, <3>2
  <2>4. CASE writer[w]["chain"].by = "append"
    <3>1. Len(b) <= BatchSize
      BY <1>3, <1>5 DEF WriteSize
    <3>2. Len(b) # 0
      BY <1>3, <1>8, EmptySeq DEF Inv, BatchInv, Lock
    <3>3. req[b[Len(b)]] = "flushing"
      <4>1. Len(b) \in 1..Len(writer[w]["chain"].batch)
        BY <1>3, <1>4, <3>2
      <4>2. CallOf(writer[w]["chain"], Len(b)) = "flushing"
        BY <1>3, <2>4 DEF CallOf
      <4>3. req[writer[w]["chain"].batch[Len(b)]] = CallOf(writer[w]["chain"], Len(b))
        BY <4>1, PlacesAt DEF Lock
      <4> QED BY <1>3, <4>2, <4>3
    <3>4. \A x \in S : req[x] = "ok"
      BY <1>1
    <3>5. PICK k \in Nat : k = Len(b) - 1
      BY <1>4, <3>2
    <3>6. \A x \in S : \E i \in 1..k : x = b[i]
      BY <1>4, <2>2, <3>3, <3>4, <3>5
    <3>7. Cardinality(S) <= k /\ Cardinality(S) \in Nat
      BY <3>6, Listed
    <3> QED BY <1>1, <1>4, <3>1, <3>5, <3>7
  <2> QED BY <2>3, <2>4
<1> QED BY <1>7, <1>8

\* A crash loses fewer than batch_size answered rows of a worker, whatever the
\* batch size and however flushes, drains and failures interleave.
THEOREM CrashWindowHolds == Spec => []CrashWindow
BY WindowBounded, RowsAlways, PTL

-----------------------------------------------------------------------------
(***************************************************************************)
(* Contention alone: no crash, no shutdown and no other database error.    *)
(***************************************************************************)
NotStopping ==
    \A w \in Worker : stop[w] = "no" /\ \A l \in Lock : writer[w][l].by # "stop"

CalmNext ==
    \/ \E r \in Row, w \in Worker : LogAudit(r, w) \/ DetailTooLarge(r, w)
    \/ \E r \in Row : at[r] \in Worker /\ (ChainAppend(r) \/ PerRowStart(r))
    \/ \E w \in Worker : PeriodicFlush(w)
    \/ \E w \in Worker, l \in Lock :
          ReadHead(w, l) \/ Insert(w, l) \/ Retry(w, l) \/ Return(w, l) \/ Exhausted(w, l)
    \/ Idle

LEMMA CalmStep ==
    ASSUME Faults = {}, Inv, NotStopping, Next
    PROVE  CalmNext /\ NotStopping'
<1>0. stop \in [Worker -> {"no", "draining", "stopped"}] /\ writer \in [Worker -> [Lock -> WriterType]]
  BY DEF Inv, TypeOK, ProcessType
<1>1. ASSUME NEW w \in Worker
      PROVE  /\ ~StopCancel(w) /\ ~Exit(w) /\ ~Crash(w) /\ ~StopDrain(w)
             /\ \A l \in Lock : ~DatabaseError(w, l)
  BY DEF StopCancel, Exit, Crash, StopDrain, DatabaseError, NotStopping
<1>2. CalmNext
  BY <1>1, Zenon DEF Next, WorkerStep, CalmNext
<1>3. ASSUME NEW w \in Worker, NEW l \in Lock, NEW g, g.by # "stop",
             writer' = [writer EXCEPT ![w][l] = g], stop' = stop
      PROVE  NotStopping'
  BY <1>0, <1>3 DEF NotStopping
<1>4. ASSUME writer' = writer, stop' = stop PROVE NotStopping'
  BY <1>4 DEF NotStopping
<1>5. ASSUME NEW r \in Row, at[r] \in Worker, ChainAppend(r) \/ PerRowStart(r)
      PROVE  NotStopping'
  <2>1. \A b : Writing("append", b).by = "append" /\ Writing("log_audit", b).by = "log_audit"
    BY DEF Writing
  <2>2. "chain" \in Lock /\ "row" \in Lock
    BY DEF Lock
  <2> QED BY <1>3, <1>4, <1>5, <2>1, <2>2 DEF ChainAppend, PerRowStart
<1>6. ASSUME NEW w \in Worker, PeriodicFlush(w) PROVE NotStopping'
  <2>1. Writing("loop", pending[w]).by = "loop" /\ "chain" \in Lock
    BY DEF Writing, Lock
  <2> QED BY <1>3, <1>6, <2>1 DEF PeriodicFlush, FlushNow
<1>7. ASSUME NEW w \in Worker, NEW l \in Lock, ReadHead(w, l) \/ Insert(w, l) \/ Retry(w, l)
      PROVE  NotStopping'
  <2> DEFINE f == writer[w][l]
  <2>1. f \in WriterType /\ f.by # "stop"
    BY <1>0 DEF NotStopping
  <2>2. /\ [f EXCEPT !.phase = "read", !.head = AuditChainHead(table)].by = f.by
        /\ [f EXCEPT !.phase = "open", !.attempt = f.attempt + 1].by = f.by
        /\ [f EXCEPT !.phase = "done"].by = f.by
    BY <2>1 DEF WriterType
  <2> QED BY <1>3, <1>7, <2>1, <2>2 DEF ReadHead, Insert, Retry
<1>8. ASSUME NEW w \in Worker, NEW l \in Lock, Return(w, l) \/ Exhausted(w, l)
      PROVE  NotStopping'
  <2>1. Free.by # "stop" /\ writer[w][l].by # "stop"
    BY DEF Free, Writing, NotStopping
  <2> QED BY <1>3, <1>8, <2>1 DEF Return, Exhausted, Finish
<1>9. ASSUME NEW r \in Row, NEW w \in Worker, LogAudit(r, w) \/ DetailTooLarge(r, w)
      PROVE  NotStopping'
  BY <1>4, <1>9 DEF LogAudit, DetailTooLarge
<1>10. CASE Idle
  <2>1. writer' = writer /\ stop' = stop
    BY <1>10 DEF Idle, vars
  <2> QED BY <1>2, <1>4, <2>1
<1> QED BY <1>2, <1>5, <1>6, <1>7, <1>8, <1>9, <1>10 DEF CalmNext

\* How the calls and the table move under contention alone.
LEMMA FinishCall ==
    ASSUME Inv, RowsInv, NEW w \in Worker, NEW l \in Lock, NEW a, Finish(w, l, a),
           writer[w][l].phase # "open"
    PROVE  /\ \/ writer[w][l].by \in {"loop", "stop"} /\ req' = req
              \/ /\ writer[w][l].by \in {"append", "log_audit"}
                 /\ \E i \in 1..Len(writer[w][l].batch) :
                       /\ writer[w][l].batch[i] \in Row
                       /\ req[writer[w][l].batch[i]] \in {"flushing", "writing"}
                       /\ at[writer[w][l].batch[i]] = w
                       /\ req' = [req EXCEPT ![writer[w][l].batch[i]] = a]
           /\ writer' = [writer EXCEPT ![w][l] = Free] /\ pending' = pending /\ at' = at
<1>1. writer[w][l].by \in WriteBy /\ writer[w][l].by # "none" /\ writer[w][l].batch \in Seq(Row)
  BY BatchType DEF Inv, BatchInv
<1>2. PICK i : i = Len(writer[w][l].batch)
  OBVIOUS
<1>3. i \in 1..Len(writer[w][l].batch)
  BY <1>1, <1>2, EmptySeq DEF Inv, BatchInv
<1>4. /\ writer[w][l].batch[i] \in Row /\ at[writer[w][l].batch[i]] = w
      /\ req[writer[w][l].batch[i]] = CallOf(writer[w][l], i)
  BY <1>3, PlacesAt
<1>5. writer[w][l].by \in {"append", "log_audit"} => CallOf(writer[w][l], i) \in {"flushing", "writing"}
  BY <1>2 DEF CallOf
<1>6. Caller(writer[w][l].batch) = writer[w][l].batch[i]
  BY <1>2 DEF Caller
<1>7. CASE writer[w][l].by \in {"append", "log_audit"}
  BY <1>3, <1>4, <1>5, <1>6, <1>7 DEF Finish
<1>8. CASE writer[w][l].by \notin {"append", "log_audit"}
  BY <1>1, <1>8 DEF Finish, WriteBy
<1> QED BY <1>7, <1>8

LEMMA RefusedStep ==
    ASSUME Inv, RowsInv, RefusedRowAbsent, CalmNext
    PROVE  RefusedRowAbsent'
<1> DEFINE No(r) == req'[r] \in {"error", "refused"} => ~RecordedIn(table', r)
<1> SUFFICES \A r \in Row : No(r)
  BY DEF RefusedRowAbsent, Recorded, RecordedIn
<1>0. req \in [Row -> {"new"} \cup InCall \cup Answer]
  BY DEF Inv, TypeOK, CallType
<1>1. \A r \in Row : req[r] \in {"error", "refused"} => ~RecordedIn(table, r)
  BY DEF RefusedRowAbsent, Recorded, RecordedIn
<1>2. ASSUME NEW r \in Row, NEW w \in Worker, LogAudit(r, w) \/ DetailTooLarge(r, w)
      PROVE  \A q \in Row : No(q)
  <2>1. table' = table /\ \A q \in Row : q # r => req'[q] = req[q]
    BY <1>0, <1>2 DEF LogAudit, DetailTooLarge
  <2>2. ~RecordedIn(table, r)
    BY <1>2 DEF LogAudit, DetailTooLarge, RowsInv, FreshOnes, Fresh
  <2> QED BY <1>1, <2>1, <2>2
<1>3. ASSUME NEW r \in Row, ChainAppend(r) \/ PerRowStart(r)
      PROVE  \A q \in Row : No(q)
  <2>1. /\ table' = table /\ \A q \in Row : q # r => req'[q] = req[q]
        /\ req'[r] \in {"ok", "flushing", "writing"}
    BY <1>0, <1>3 DEF ChainAppend, PerRowStart
  <2> QED BY <1>1, <2>1
<1>4. ASSUME table' = table, req' = req PROVE \A q \in Row : No(q)
  BY <1>1, <1>4
<1>5. ASSUME NEW w \in Worker, NEW l \in Lock, Insert(w, l)
      PROVE  \A q \in Row : No(q)
  <2>1. PICK b \in Seq(Row) : b = writer[w][l].batch
    BY BatchType
  <2>2. \A q : RecordedIn(table', q) => RecordedIn(table, q) \/ \E i \in 1..Len(b) : q = b[i]
    BY <1>5, <2>1, InsertRecords
  <2>3. \A i \in 1..Len(b) : req[b[i]] \in {"ok", "flushing", "writing"}
    BY <2>1, PlacesAt
  <2>4. req' = req
    BY <1>5 DEF Insert
  <2> QED BY <1>1, <2>2, <2>3, <2>4
<1>6. ASSUME NEW w \in Worker, NEW l \in Lock, Return(w, l)
      PROVE  \A q \in Row : No(q)
  <2>1. table' = table /\ Finish(w, l, "ok") /\ writer[w][l].phase # "open"
    BY <1>6 DEF Return
  <2>2. req' = req \/ \E x \in Row : req' = [req EXCEPT ![x] = "ok"]
    BY <2>1, FinishCall
  <2> QED BY <1>0, <1>1, <2>1, <2>2
<1>7. ASSUME NEW w \in Worker, NEW l \in Lock, Exhausted(w, l)
      PROVE  \A q \in Row : No(q)
  <2>1. PICK a : table' = table /\ Finish(w, l, a) /\ writer[w][l].phase = "read"
    BY <1>7 DEF Exhausted, Conflict
  <2>2. \A i \in 1..Len(writer[w][l].batch) : ~RecordedIn(table, writer[w][l].batch[i])
    BY <2>1, PlacesAt DEF WriteOK
  <2>3. req' = req \/ \E x \in Row : ~RecordedIn(table, x) /\ req' = [req EXCEPT ![x] = a]
    BY <2>1, <2>2, FinishCall
  <2> QED BY <1>0, <1>1, <2>1, <2>3
<1> HIDE DEF No
<1>8. CASE \E w \in Worker : PeriodicFlush(w)
  BY <1>4, <1>8 DEF PeriodicFlush
<1>9. CASE \E w \in Worker, l \in Lock : ReadHead(w, l) \/ Retry(w, l)
  BY <1>4, <1>9 DEF ReadHead, Retry
<1>10. CASE Idle
  BY <1>4, <1>10 DEF Idle, vars
<1> QED BY <1>2, <1>3, <1>5, <1>6, <1>7, <1>8, <1>9, <1>10, Zenon DEF CalmNext

\* Under contention alone, for any number of workers and rows, a call that was
\* refused or answered with an error has left no row in the table.
THEOREM RefusedStaysAbsent == ASSUME Faults = {} PROVE Spec => []RefusedRowAbsent
<1>1. Init => NotStopping /\ RefusedRowAbsent
  BY DEF Init, NotStopping, RefusedRowAbsent, Recorded, Free, Writing
<1>2. Inv /\ RowsInv /\ NotStopping /\ RefusedRowAbsent /\ [Next]_vars
        => (NotStopping /\ RefusedRowAbsent)'
  <2> SUFFICES ASSUME Inv, RowsInv, NotStopping, RefusedRowAbsent, [Next]_vars
               PROVE  (NotStopping /\ RefusedRowAbsent)'
    OBVIOUS
  <2>1. CASE UNCHANGED vars
    BY <2>1 DEF vars, NotStopping, RefusedRowAbsent, Recorded
  <2> QED BY <2>1, CalmStep, RefusedStep
<1> QED BY <1>1, <1>2, RowsAlways, PTL DEF Spec

-----------------------------------------------------------------------------
(***************************************************************************)
(* No row is lost unnoticed under contention alone.                        *)
(***************************************************************************)

\* Row q is in the queue p or in one of the batches of g.
HeldIn(p, g, q) ==
    \/ \E i \in 1..Len(p) : p[i] = q
    \/ \E l \in Lock : \E i \in 1..Len(g[l].batch) : g[l].batch[i] = q

\* Every answered row is on disk, in memory, or its loss has been noticed.
Accounted(r) ==
    \/ RecordedIn(table, r)
    \/ HeldIn(pending[at[r]], writer[at[r]], r)
    \/ Noticed(at[r])

AllAccounted == \A r \in Row : req[r] = "ok" => Accounted(r)

LEMMA HeldIsInMemory ==
    ASSUME Inv, NEW w \in Worker, NEW q \in Row
    PROVE  q \in InMemory(w) <=> HeldIn(pending[w], writer[w], q)
<1>1. pending[w] \in Seq(Row) /\ \A l \in Lock : writer[w][l].batch \in Seq(Row)
  BY PendingType, BatchType
<1>2. /\ DOMAIN pending[w] = 1..Len(pending[w])
      /\ \A l \in Lock : DOMAIN writer[w][l].batch = 1..Len(writer[w][l].batch)
  BY <1>1
<1> QED BY <1>2 DEF InMemory, HeldIn

LEMMA AccountedIsNoticed == Inv /\ RowsInv /\ AllAccounted => LossIsNoticed
<1> SUFFICES ASSUME Inv, RowsInv, AllAccounted, NEW r \in Row, Lost(r) PROVE Noticed(at[r])
  BY DEF LossIsNoticed
<1>1. req[r] = "ok" /\ ~RecordedIn(table, r) /\ r \notin InMemory(at[r])
  BY DEF Lost, Recorded, RecordedIn
<1>2. at[r] \in Worker
  BY <1>1 DEF RowsInv, FreshOnes
<1> QED BY <1>1, <1>2, HeldIsInMemory DEF AllAccounted, Accounted

\* A worker that has noticed a loss stays noticed.
LEMMA NoticedStays ==
    ASSUME Inv, RowsInv, CalmNext, NEW w \in Worker, Noticed(w)
    PROVE  Noticed(w)'
<1>0. /\ req \in [Row -> {"new"} \cup InCall \cup Answer]
      /\ at \in [Row -> Worker \cup {NoWorker}] /\ unhealthy \in [Worker -> BOOLEAN]
  BY DEF Inv, TypeOK, ProcessType, CallType
<1>1. ASSUME unhealthy[w] => unhealthy'[w],
             \A q \in Row : req[q] = "error" => req'[q] = "error" /\ at'[q] = at[q]
      PROVE  Noticed(w)'
  BY <1>1 DEF Noticed
<1>2. ASSUME NEW v \in Worker, NEW l \in Lock, NEW a, Finish(v, l, a), writer[v][l].phase # "open"
      PROVE  \A q \in Row : req[q] = "error" => req'[q] = "error" /\ at'[q] = at[q]
  <2>1. /\ at' = at
        /\ req' = req \/ \E x \in Row : req[x] # "error" /\ req' = [req EXCEPT ![x] = a]
    BY <1>2, FinishCall
  <2> QED BY <1>0, <2>1
<1>3. CASE \E r \in Row, v \in Worker : LogAudit(r, v) \/ DetailTooLarge(r, v)
  BY <1>0, <1>1, <1>3 DEF LogAudit, DetailTooLarge
<1>4. CASE \E r \in Row : ChainAppend(r) \/ PerRowStart(r)
  BY <1>0, <1>1, <1>4 DEF ChainAppend, PerRowStart
<1>5. ASSUME UNCHANGED <<req, at, unhealthy>> PROVE Noticed(w)'
  BY <1>5 DEF Noticed
<1>6. CASE \E v \in Worker : PeriodicFlush(v)
  BY <1>5, <1>6 DEF PeriodicFlush
<1>7. CASE \E v \in Worker, l \in Lock : ReadHead(v, l) \/ Insert(v, l) \/ Retry(v, l)
  BY <1>5, <1>7 DEF ReadHead, Insert, Retry
<1>8. ASSUME NEW v \in Worker, NEW l \in Lock, Return(v, l) PROVE Noticed(w)'
  <2>1. Finish(v, l, "ok") /\ writer[v][l].phase # "open" /\ unhealthy' = unhealthy
    BY <1>8 DEF Return
  <2> QED BY <1>1, <1>2, <2>1
<1>9. ASSUME NEW v \in Worker, NEW l \in Lock, Exhausted(v, l) PROVE Noticed(w)'
  <2>1. PICK a : Finish(v, l, a) /\ writer[v][l].phase # "open"
    BY <1>9 DEF Exhausted, Conflict
  <2>2. unhealthy[w] => unhealthy'[w]
    BY <1>0, <1>9 DEF Exhausted
  <2> QED BY <1>1, <1>2, <2>1, <2>2
<1>10. CASE Idle
  <2>1. UNCHANGED <<req, at, unhealthy>>
    BY <1>10 DEF Idle, vars
  <2> QED BY <1>5, <2>1
<1> QED BY <1>3, <1>4, <1>6, <1>7, <1>8, <1>9, <1>10 DEF CalmNext

\* A write that is about to return has its rows on disk.
LEMMA DoneRecorded ==
    ASSUME Inv, RowsInv, NEW w \in Worker, NEW l \in Lock, writer[w][l].phase = "done"
    PROVE  \A i \in 1..Len(writer[w][l].batch) : RecordedIn(table, writer[w][l].batch[i])
BY PlacesAt DEF WriteOK

LEMMA FreeHoldsNothing ==
    ASSUME Inv, RowsInv, NEW w \in Worker, NEW l \in Lock, LockFree(w, l)
    PROVE  Len(writer[w][l].batch) = 0
BY PlacesAt DEF WriteOK, WriteSize, LockFree

\* The queue moves to another queue or batch that has all its rows.
LEMMA QueueMoves ==
    ASSUME NEW p, NEW g, NEW p2, NEW g2, NEW s, NEW q, HeldIn(p, g, q),
           Len(g["chain"].batch) = 0, g2["row"] = g["row"],
           p2 = s \/ g2["chain"].batch = s,
           \A i \in 1..Len(p) : \E j \in 1..Len(s) : s[j] = p[i]
    PROVE  HeldIn(p2, g2, q)
<1>1. CASE \E i \in 1..Len(p) : p[i] = q
  <2>1. PICK j \in 1..Len(s) : s[j] = q
    BY <1>1
  <2> QED BY <2>1 DEF HeldIn, Lock
<1>2. CASE \E i \in 1..Len(g["row"].batch) : g["row"].batch[i] = q
  BY <1>2 DEF HeldIn, Lock
<1> QED BY <1>1, <1>2 DEF HeldIn, Lock

LEMMA AccountedStep ==
    ASSUME FailDeny = TRUE, BackgroundFailDeny = TRUE, Inv, RowsInv, AllAccounted, CalmNext, Next
    PROVE  AllAccounted'
<1> DEFINE Good(r) == req'[r] = "ok" => Accounted(r)'
<1>0. /\ req \in [Row -> {"new"} \cup InCall \cup Answer]
      /\ at \in [Row -> Worker \cup {NoWorker}] /\ unhealthy \in [Worker -> BOOLEAN]
      /\ pending \in [Worker -> Seq(Row)] /\ writer \in [Worker -> [Lock -> WriterType]]
  BY DEF Inv, TypeOK, ProcessType, CallType
<1>1. \A r : RecordedIn(table, r) => RecordedIn(table', r)
  BY RecordedStays
<1>2. \A w \in Worker : Noticed(w) => Noticed(w)'
  BY NoticedStays
\* A row that was answered before is still accounted for if it has not left
\* the memory of its worker.
<1>3. ASSUME NEW r \in Row, req[r] = "ok", at'[r] = at[r],
             HeldIn(pending[at[r]], writer[at[r]], r) =>
                \/ HeldIn(pending'[at[r]], writer'[at[r]], r)
                \/ RecordedIn(table', r) \/ Noticed(at[r])'
      PROVE  Good(r)
  <2>1. at[r] \in Worker
    BY <1>3 DEF RowsInv, FreshOnes
  <2>2. PICK w \in Worker : w = at[r] /\ w = at'[r]
    BY <1>3, <2>1
  <2>3. RecordedIn(table, r) \/ HeldIn(pending[w], writer[w], r) \/ Noticed(w)
    BY <1>3, <2>2 DEF AllAccounted, Accounted
  <2>4. Noticed(at[r])' <=> Noticed(w)'
    BY <2>2 DEF Noticed
  <2>5. RecordedIn(table', r) \/ HeldIn(pending'[w], writer'[w], r) \/ Noticed(w)'
    BY <1>1, <1>2, <1>3, <2>2, <2>3, <2>4
  <2>6. Accounted(r)' <=> RecordedIn(table', r) \/ HeldIn(pending'[w], writer'[w], r) \/ Noticed(w)'
    BY <2>2 DEF Accounted, Noticed
  <2> QED BY <2>5, <2>6
<1>4. ASSUME UNCHANGED <<pending, writer>>, \A r \in Row : req'[r] = "ok" => req[r] = "ok" /\ at'[r] = at[r]
      PROVE  \A r \in Row : Good(r)
  BY <1>3, <1>4
<1>5. ASSUME NEW x \in Row, at[x] \in Worker, ChainAppend(x) PROVE \A r \in Row : Good(r)
  <2>1. PICK w \in Worker : w = at[x]
    BY <1>5
  <2>2. PICK p \in Seq(Row) : p = pending[w]
    BY PendingType
  <2>3. PICK s : s = Append(p, x)
    OBVIOUS
  <2>4. /\ \A i \in 1..Len(p) : i \in 1..Len(s) /\ s[i] = p[i]
        /\ Len(s) \in 1..Len(s) /\ s[Len(s)] = x
    BY <2>2, <2>3
  <2>5. Len(writer[w]["chain"].batch) = 0
    BY <1>5, <2>1, FreeHoldsNothing DEF ChainAppend, Lock
  <2>6. /\ at' = at /\ \A v \in Worker : v # w => pending'[v] = pending[v] /\ writer'[v] = writer[v]
        /\ writer'[w]["row"] = writer[w]["row"]
        /\ \A q \in Row : q # x => req'[q] = req[q]
    BY <1>0, <1>5, <2>1 DEF ChainAppend, Lock
  <2>7. \/ req'[x] = "ok" /\ pending'[w] = s
        \/ req'[x] = "flushing" /\ writer'[w]["chain"].batch = s
    BY <1>0, <1>5, <2>1, <2>2, <2>3 DEF ChainAppend, Lock, Writing
  <2>8. Good(x)
    <3>1. SUFFICES ASSUME req'[x] = "ok" PROVE Accounted(x)'
      OBVIOUS
    <3>2. pending'[w] = s
      BY <2>7, <3>1
    <3>3. HeldIn(pending'[w], writer'[w], x)
      BY <2>4, <3>2 DEF HeldIn
    <3> QED BY <2>1, <2>6, <3>3 DEF Accounted
  <2>9. ASSUME NEW r \in Row, r # x PROVE Good(r)
    <3>1. CASE req[r] = "ok" /\ at[r] = w
      <4>1. HeldIn(pending[w], writer[w], r) => HeldIn(pending'[w], writer'[w], r)
        <5> SUFFICES ASSUME HeldIn(pending[w], writer[w], r) PROVE HeldIn(pending'[w], writer'[w], r)
          OBVIOUS
        <5>1. PICK p2, g, g2 : p2 = pending'[w] /\ g = writer[w] /\ g2 = writer'[w]
          OBVIOUS
        <5>2. /\ HeldIn(p, g, r) /\ Len(g["chain"].batch) = 0 /\ g2["row"] = g["row"]
              /\ p2 = s \/ g2["chain"].batch = s
              /\ \A i \in 1..Len(p) : \E j \in 1..Len(s) : s[j] = p[i]
          BY <2>2, <2>4, <2>5, <2>6, <2>7, <5>1
        <5>3. HeldIn(p2, g2, r)
          BY <5>2, QueueMoves
        <5> QED BY <5>1, <5>3
      <4> QED BY <1>3, <2>6, <3>1, <4>1
    <3>2. CASE req[r] = "ok" /\ at[r] # w
      <4>1. at[r] \in Worker
        BY <3>2 DEF RowsInv, FreshOnes
      <4> QED BY <1>3, <2>6, <3>2, <4>1
    <3>3. CASE req[r] # "ok"
      BY <2>6, <2>9, <3>3
    <3> QED BY <3>1, <3>2, <3>3
  <2> QED BY <2>8, <2>9
<1>6. ASSUME NEW x \in Row, at[x] \in Worker, PerRowStart(x) PROVE \A r \in Row : Good(r)
  <2>1. PICK w \in Worker : w = at[x]
    BY <1>6
  <2>2. Len(writer[w]["row"].batch) = 0
    BY <1>6, <2>1, FreeHoldsNothing DEF PerRowStart, Lock
  <2>3. /\ at' = at /\ pending' = pending /\ writer'[w]["chain"] = writer[w]["chain"]
        /\ \A v \in Worker : v # w => writer'[v] = writer[v]
        /\ \A q \in Row : req'[q] = "ok" => req[q] = "ok"
    BY <1>0, <1>6, <2>1 DEF PerRowStart, Lock
  <2>4. ASSUME NEW v \in Worker, NEW q, HeldIn(pending[v], writer[v], q)
        PROVE  HeldIn(pending'[v], writer'[v], q)
    <3>1. CASE v = w
      BY <2>2, <2>3, <2>4, <3>1 DEF HeldIn, Lock
    <3> QED BY <2>3, <2>4, <3>1
  <2>5. ASSUME NEW r \in Row, req'[r] = "ok" PROVE Good(r)
    <3>1. req[r] = "ok" /\ at[r] \in Worker
      BY <2>3, <2>5 DEF RowsInv, FreshOnes
    <3> QED BY <1>3, <2>3, <2>4, <3>1
  <2> QED BY <2>5
<1>7. ASSUME NEW w \in Worker, PeriodicFlush(w) PROVE \A r \in Row : Good(r)
  <2>1. Len(writer[w]["chain"].batch) = 0
    BY <1>7, FreeHoldsNothing DEF PeriodicFlush, FlushNow, Lock
  <2>2. /\ at' = at /\ req' = req /\ writer'[w]["row"] = writer[w]["row"]
        /\ writer'[w]["chain"].batch = pending[w]
        /\ \A v \in Worker : v # w => pending'[v] = pending[v] /\ writer'[v] = writer[v]
    BY <1>0, <1>7 DEF PeriodicFlush, FlushNow, Lock, Writing
  <2>3. ASSUME NEW v \in Worker, NEW q, HeldIn(pending[v], writer[v], q)
        PROVE  HeldIn(pending'[v], writer'[v], q)
    <3>1. CASE v = w
      <4>1. PICK p, p2, g, g2 : p = pending[w] /\ p2 = pending'[w] /\ g = writer[w] /\ g2 = writer'[w]
        OBVIOUS
      <4>2. /\ HeldIn(p, g, q) /\ Len(g["chain"].batch) = 0 /\ g2["row"] = g["row"]
            /\ p2 = p \/ g2["chain"].batch = p
            /\ \A i \in 1..Len(p) : \E j \in 1..Len(p) : p[j] = p[i]
        BY <2>1, <2>2, <2>3, <3>1, <4>1
      <4>3. HeldIn(p2, g2, q)
        BY <4>2, QueueMoves
      <4> QED BY <3>1, <4>1, <4>3
    <3> QED BY <2>2, <2>3, <3>1
  <2>4. ASSUME NEW r \in Row, req'[r] = "ok" PROVE Good(r)
    <3>1. req[r] = "ok" /\ at[r] \in Worker
      BY <2>2, <2>4 DEF RowsInv, FreshOnes
    <3> QED BY <1>3, <2>2, <2>3, <3>1
  <2> QED BY <2>4
<1>8. ASSUME NEW w \in Worker, NEW l \in Lock, ReadHead(w, l) \/ Insert(w, l) \/ Retry(w, l)
      PROVE  \A r \in Row : Good(r)
  <2>1. at' = at /\ req' = req /\ pending' = pending
    BY <1>8 DEF ReadHead, Insert, Retry
  <2> DEFINE f == writer[w][l]
  <2>2. f \in WriterType
    BY BatchType
  <2>3. /\ [f EXCEPT !.phase = "read", !.head = AuditChainHead(table)].batch = f.batch
        /\ [f EXCEPT !.phase = "open", !.attempt = f.attempt + 1].batch = f.batch
        /\ [f EXCEPT !.phase = "done"].batch = f.batch
    BY <2>2 DEF WriterType
  <2>4. PICK g : writer' = [writer EXCEPT ![w][l] = g] /\ g.batch = writer[w][l].batch
    BY <1>8, <2>3 DEF ReadHead, Insert, Retry
  <2> HIDE DEF f
  <2>5. \A v \in Worker, k \in Lock : writer'[v][k].batch = writer[v][k].batch
    BY <1>0, <2>4
  <2>6. ASSUME NEW v \in Worker, NEW q, HeldIn(pending[v], writer[v], q)
        PROVE  HeldIn(pending'[v], writer'[v], q)
    BY <2>1, <2>5, <2>6 DEF HeldIn
  <2>7. ASSUME NEW r \in Row, req'[r] = "ok" PROVE Good(r)
    <3>1. req[r] = "ok" /\ at[r] \in Worker
      BY <2>1, <2>7 DEF RowsInv, FreshOnes
    <3> QED BY <1>3, <2>1, <2>6, <3>1
  <2> QED BY <2>7
\* The rows of the other lock and of the other workers stay where they are.
<1>9. ASSUME NEW w \in Worker, NEW l \in Lock, NEW a, Finish(w, l, a), writer[w][l].phase # "open",
             NEW v \in Worker, NEW q, HeldIn(pending[v], writer[v], q)
      PROVE  \/ HeldIn(pending'[v], writer'[v], q)
             \/ v = w /\ \E i \in 1..Len(writer[w][l].batch) : writer[w][l].batch[i] = q
  <2>1. pending' = pending /\ writer' = [writer EXCEPT ![w][l] = Free]
    BY <1>9, FinishCall
  <2>2. \A k \in Lock : v # w \/ k # l => writer'[v][k] = writer[v][k]
    BY <1>0, <2>1
  <2> QED BY <1>9, <2>1, <2>2 DEF HeldIn
<1>10. ASSUME NEW w \in Worker, NEW l \in Lock, Return(w, l) PROVE \A r \in Row : Good(r)
  <2>1. Finish(w, l, "ok") /\ writer[w][l].phase = "done" /\ table' = table
    BY <1>10 DEF Return
  <2>2. \A i \in 1..Len(writer[w][l].batch) : RecordedIn(table', writer[w][l].batch[i])
    BY <2>1, DoneRecorded
  <2>3. /\ at' = at
        /\ \A r \in Row : req'[r] # req[r] => RecordedIn(table', r)
    BY <1>0, <2>1, <2>2, FinishCall
  <2>4. ASSUME NEW r \in Row, req'[r] = "ok" PROVE Good(r)
    <3>1. CASE req'[r] # req[r]
      BY <2>3, <3>1 DEF Accounted
    <3>2. CASE req'[r] = req[r]
      <4>1. req[r] = "ok" /\ at[r] \in Worker
        BY <2>4, <3>2 DEF RowsInv, FreshOnes
      <4>2. HeldIn(pending[at[r]], writer[at[r]], r) =>
               HeldIn(pending'[at[r]], writer'[at[r]], r) \/ RecordedIn(table', r)
        <5>1. PICK v \in Worker : v = at[r]
          BY <4>1
        <5>2. Finish(w, l, "ok") /\ writer[w][l].phase # "open"
          BY <2>1
        <5>3. ASSUME HeldIn(pending[v], writer[v], r)
              PROVE  HeldIn(pending'[v], writer'[v], r) \/ RecordedIn(table', r)
          <6>1. \/ HeldIn(pending'[v], writer'[v], r)
                \/ v = w /\ \E i \in 1..Len(writer[w][l].batch) : writer[w][l].batch[i] = r
            BY <1>9, <5>2, <5>3
          <6> QED BY <2>2, <6>1
        <5> QED BY <5>1, <5>3
      <4> QED BY <1>3, <2>3, <4>1, <4>2
    <3> QED BY <3>1, <3>2
  <2> QED BY <2>4
<1>11. ASSUME NEW w \in Worker, NEW l \in Lock, Exhausted(w, l) PROVE \A r \in Row : Good(r)
  <2>1. /\ Finish(w, l, "error") /\ writer[w][l].phase = "read" /\ table' = table
        /\ unhealthy' = [unhealthy EXCEPT ![w] = @ \/ (writer[w][l].by \in {"loop", "stop"})]
    BY <1>11 DEF Exhausted, Conflict
  <2>2. at' = at /\ \A r \in Row : req'[r] = "ok" => req[r] = "ok"
    <3>1. at' = at /\ (req' = req \/ \E x \in Row : req' = [req EXCEPT ![x] = "error"])
      BY <2>1, FinishCall
    <3> QED BY <1>0, <3>1
  <2>3. Noticed(w)'
    <3>1. CASE writer[w][l].by \in {"loop", "stop"}
      BY <1>0, <2>1, <3>1 DEF Noticed
    <3>2. CASE writer[w][l].by \notin {"loop", "stop"}
      <4>1. \E x \in Row : at[x] = w /\ req' = [req EXCEPT ![x] = "error"]
        BY <2>1, <3>2, FinishCall
      <4>2. \E x \in Row : at'[x] = w /\ req'[x] = "error"
        BY <1>0, <2>2, <4>1
      <4> QED BY <4>2 DEF Noticed
    <3> QED BY <3>1, <3>2
  <2>4. ASSUME NEW r \in Row, req'[r] = "ok" PROVE Good(r)
    <3>1. req[r] = "ok" /\ at[r] \in Worker
      BY <2>2, <2>4 DEF RowsInv, FreshOnes
    <3>2. CASE at[r] = w
      <4>1. Noticed(at[r])'
        BY <2>2, <2>3, <3>2 DEF Noticed
      <4> QED BY <4>1 DEF Accounted
    <3>3. CASE at[r] # w
      <4>1. HeldIn(pending[at[r]], writer[at[r]], r) => HeldIn(pending'[at[r]], writer'[at[r]], r)
        BY <1>9, <2>1, <3>1, <3>3
      <4> QED BY <1>3, <2>2, <3>1, <4>1
    <3> QED BY <3>2, <3>3
  <2> QED BY <2>4
<1>12. CASE \E r \in Row, w \in Worker : LogAudit(r, w) \/ DetailTooLarge(r, w)
  <2>1. /\ UNCHANGED <<pending, writer>>
        /\ \A r \in Row : req'[r] = "ok" => req[r] = "ok" /\ at'[r] = at[r]
    BY <1>0, <1>12 DEF LogAudit, DetailTooLarge
  <2>2. \A r \in Row : Good(r)
    BY <1>4, <2>1
  <2> QED BY <2>2 DEF AllAccounted
<1>13. CASE Idle
  <2>1. /\ UNCHANGED <<pending, writer>>
        /\ \A r \in Row : req'[r] = "ok" => req[r] = "ok" /\ at'[r] = at[r]
    BY <1>13 DEF Idle, vars
  <2>2. \A r \in Row : Good(r)
    BY <1>4, <2>1
  <2> QED BY <2>2 DEF AllAccounted
<1> QED BY <1>5, <1>6, <1>7, <1>8, <1>10, <1>11, <1>12, <1>13 DEF CalmNext, AllAccounted

\* Under contention alone, when the failure settings are at "deny", a worker
\* that has dropped a row it had answered for is out of rotation or has
\* answered one of its calls with an error.
THEOREM NoUnnoticedLoss ==
    ASSUME Faults = {}, FailDeny = TRUE, BackgroundFailDeny = TRUE
    PROVE  Spec => []LossIsNoticed
<1>1. Init => NotStopping /\ AllAccounted
  BY DEF Init, NotStopping, AllAccounted, Free, Writing
<1>2. Inv /\ RowsInv /\ NotStopping /\ AllAccounted /\ [Next]_vars
        => (NotStopping /\ AllAccounted)'
  <2> SUFFICES ASSUME Inv, RowsInv, NotStopping, AllAccounted, [Next]_vars
               PROVE  (NotStopping /\ AllAccounted)'
    OBVIOUS
  <2>1. CASE UNCHANGED vars
    BY <2>1 DEF vars, NotStopping, AllAccounted, Accounted, Noticed
  <2> QED BY <2>1, CalmStep, AccountedStep
<1> QED BY <1>1, <1>2, RowsAlways, AccountedIsNoticed, PTL DEF Spec
=============================================================================
