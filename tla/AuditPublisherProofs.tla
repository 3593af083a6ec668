------------------------ MODULE AuditPublisherProofs ------------------------
(***************************************************************************)
(* Proofs about LocalAudit and AuditPublisher.  For any number of workers, *)
(* orgs, events, retries and failures: types, the chains verify, ids of an *)
(* org follow its chain_seq.  With one org behind the cursor: nothing is   *)
(* skipped, and the Court holds a prefix of the chain.                     *)
(***************************************************************************)
EXTENDS AuditPublisher, FiniteSetTheorems, WellFoundedInduction, NaturalsInduction, TLAPS

-----------------------------------------------------------------------------
(***************************************************************************)
(* The inductive invariant of append_local_audit.  The head an append has  *)
(* read may be stale, but it is a row of the chain (HeadsRead); the        *)
(* INSERT finds (org, seq) free only when it is the last one, and blocks   *)
(* every other INSERT of that seq until the commit (InsertedLast).         *)
(***************************************************************************)

IdsHandedOut == \A i \in DOMAIN rows : 1 <= i /\ i < nextId

\* chain_seq of an org runs from 1 without holes.
SeqsFilled ==
    \A i \in DOMAIN rows : \A k \in 1..rows[i].seq :
        \E j \in DOMAIN rows : rows[j].org = rows[i].org /\ rows[j].seq = k

RowsLinked ==
    \A i \in DOMAIN rows :
        /\ rows[i].hash = EntryHash(rows[i].seq, rows[i].event, rows[i].previous)
        /\ rows[i].seq = 1 => rows[i].previous = NoHash
        /\ \A j \in DOMAIN rows :
              rows[j].org = rows[i].org /\ rows[i].seq = rows[j].seq + 1
                  => rows[i].previous = rows[j].hash

\* h is the head an empty chain has, or a row of o.
WasHead(o, h) ==
    \/ h.seq = 0 /\ h.hash = NoHash
    \/ \E i \in DOMAIN rows : rows[i].org = o /\ rows[i].seq = h.seq /\ rows[i].hash = h.hash

HeadsRead ==
    \A w \in Worker, o \in Org : writer[w][o].phase # "open" =>
        /\ writer[w][o].event \in Event
        /\ WasHead(o, writer[w][o].head)

InsertedLast ==
    \A w \in Worker, o \in Org : writer[w][o].phase = "inserted" =>
        /\ 1 <= writer[w][o].id /\ writer[w][o].id < nextId
        /\ writer[w][o].id \notin DOMAIN rows
        /\ \A i \in DOMAIN rows : rows[i].org = o =>
              rows[i].seq <= writer[w][o].head.seq /\ i < writer[w][o].id

\* Uncommitted rows: one of an org, each with an id of its own.
InsertedApart ==
    \A w, v \in Worker, o, p \in Org :
        /\ writer[w][o].phase = "inserted"
        /\ writer[v][p].phase = "inserted"
        /\ w # v \/ o # p
        => o # p /\ writer[w][o].id # writer[v][p].id

ChainInv ==
    LocalTypeOK /\ IdsHandedOut /\ OrgIdsInOrder /\ SeqsFilled /\ RowsLinked

WritersInv == HeadsRead /\ InsertedLast /\ InsertedApart

LocalInv == ChainInv /\ WritersInv

-----------------------------------------------------------------------------
(***************************************************************************)
(* The inductive invariant of the publisher, when one org is behind the    *)
(* cursor.  The ids of a batch leave no id out above the cursor            *)
(* (BatchesClosed) and stay so, since later rows have larger ids.          *)
(***************************************************************************)

OneOrg == \A o, p \in Org : o = p

\* The cursor and max_id_acked are ids of rows.
CursorIsRow == cursor \in {0} \cup DOMAIN rows /\ tick.acked \in {0} \cup DOMAIN rows

AckedDelivered == \A i \in DOMAIN rows : i <= tick.acked => AtCourt(i)

BatchesClosed ==
    \A b \in tick.batches : \A i \in b.ids, j \in DOMAIN rows :
        cursor < j /\ j < i => j \in b.ids

DeliveryInv == NothingSkipped /\ AckedDelivered /\ BatchesClosed /\ ReplicaIsPrefix

PubInv == LocalInv /\ TypeOK /\ CursorIsRow

-----------------------------------------------------------------------------
(***************************************************************************)
(* Facts about ids, digests and records.                                   *)
(***************************************************************************)

\* A bounded set of ids has a largest one.
LEMMA LargestId ==
    ASSUME NEW n \in Nat, NEW S, S \subseteq 0..n, S # {}
    PROVE  \E m \in S : \A i \in S : i <= m
<1> DEFINE T == {n - i : i \in S}
<1>1. T \subseteq Nat /\ T # {}
  <2>1. \A i \in S : i \in 0..n /\ n - i \in Nat
    OBVIOUS
  <2>2. PICK i \in S : TRUE
    OBVIOUS
  <2>3. n - i \in T
    BY <2>2
  <2> QED BY <2>1, <2>3
<1>2. PICK x \in T : \A y \in T : ~(<<y, x>> \in OpToRel(<, Nat))
  BY <1>1, NatLessThanWellFounded, WFMin
<1>3. \A y \in T : ~(y < x)
  BY <1>1, <1>2 DEF OpToRel
<1>4. PICK i \in S : x = n - i
  OBVIOUS
<1>5. \A j \in S : j <= i
  BY <1>3, <1>4
<1> QED BY <1>5

LEMMA HashType ==
    ASSUME NEW seq \in Nat, NEW event \in Event, NEW previous \in EventHash
    PROVE  EntryHash(seq, event, previous) \in EventHash
BY DEF EntryHash, EventHash

LEMMA NoHeadType == NoHead \in OrgHeadType /\ NoHead.seq = 0 /\ NoHead.hash = NoHash
BY DEF NoHead, OrgHeadType, NoHash, EventHash

LEMMA RowFields ==
    ASSUME LocalTypeOK, NEW i \in DOMAIN rows
    PROVE  /\ i \in Nat /\ rows[i] \in LocalRow
           /\ rows[i].org \in Org /\ rows[i].seq \in Nat /\ rows[i].seq >= 1
           /\ rows[i].event \in Event
           /\ rows[i].previous \in EventHash /\ rows[i].hash \in EventHash
BY DEF LocalTypeOK, LocalRow

LEMMA WriterFields ==
    ASSUME LocalTypeOK, NEW w \in Worker, NEW o \in Org
    PROVE  /\ writer[w][o] \in WriterState
           /\ writer[w][o].event \in Event \cup {NoEvent}
           /\ writer[w][o].attempt \in 0..(MaxRetries - 1)
           /\ writer[w][o].phase \in {"open", "read", "inserted"}
           /\ writer[w][o].head \in OrgHeadType
           /\ writer[w][o].head.seq \in Nat /\ writer[w][o].head.hash \in EventHash
           /\ writer[w][o].id \in Nat
<1>1. writer[w][o] \in WriterState
  BY DEF LocalTypeOK
<1>2. writer[w][o].head \in OrgHeadType
  BY <1>1 DEF WriterState
<1>3. writer[w][o].head.seq \in Nat /\ writer[w][o].head.hash \in EventHash
  BY <1>2 DEF OrgHeadType
<1> QED BY <1>1, <1>2, <1>3 DEF WriterState

\* The updates of an append in progress.
LEMMA SetEvent ==
    ASSUME NEW f \in WriterState, NEW e \in Event, NEW x, x = [f EXCEPT !.event = e]
    PROVE  x \in WriterState /\ x.phase = f.phase
BY DEF WriterState

LEMMA SetAttempt ==
    ASSUME NEW f \in WriterState, f.attempt + 1 < MaxRetries, NEW x,
           x = [f EXCEPT !.phase = "open", !.attempt = f.attempt + 1]
    PROVE  x \in WriterState /\ x.phase = "open"
<1>1. f.attempt + 1 \in 0..(MaxRetries - 1)
  BY LocalAuditConstants DEF WriterState
<1> QED BY <1>1 DEF WriterState

LEMMA IdlingState == Idling \in WriterState /\ Idling.phase = "open"
<1>1. 0 \in 0..(MaxRetries - 1)
  BY LocalAuditConstants
<1> QED BY <1>1, NoHeadType DEF Idling, WriterState

\* The head that is read is the last row of the org.
LEMMA OrgHeadIsLast ==
    ASSUME ChainInv, NEW o \in Org
    PROVE  OrgHead(o) \in OrgHeadType /\ WasHead(o, OrgHead(o))
<1>0. LocalTypeOK /\ nextId \in Nat
  BY DEF ChainInv, LocalTypeOK
<1>1. CASE OrgIds(o) = {}
  <2>1. OrgHead(o) = NoHead
    BY <1>1 DEF OrgHead
  <2> QED BY <2>1, NoHeadType DEF WasHead
<1>2. CASE OrgIds(o) # {}
  <2>1. OrgIds(o) \subseteq 0..nextId
    BY <1>0, RowFields DEF OrgIds, ChainInv, IdsHandedOut
  <2>2. PICK m \in OrgIds(o) : \A i \in OrgIds(o) : i <= m
    BY <1>0, <1>2, <2>1, LargestId
  <2>3. \A i \in OrgIds(o) : rows[i].seq <= rows[m].seq
    <3> SUFFICES ASSUME NEW i \in OrgIds(o)
                 PROVE  rows[i].seq <= rows[m].seq
      OBVIOUS
    <3>1. /\ i \in DOMAIN rows /\ m \in DOMAIN rows /\ rows[i].org = rows[m].org
          /\ i \in Nat /\ m \in Nat /\ rows[i].seq \in Nat /\ rows[m].seq \in Nat
      BY <1>0, RowFields DEF OrgIds
    <3>2. m < i <=> rows[m].seq < rows[i].seq
      BY <3>1 DEF ChainInv, OrgIdsInOrder
    <3> QED BY <2>2, <3>1, <3>2
  <2>4. PICK last \in OrgIds(o) : OrgHead(o) = [seq |-> rows[last].seq, hash |-> rows[last].hash]
    BY <1>2, <2>3 DEF OrgHead
  <2>5. last \in DOMAIN rows /\ rows[last].org = o
    BY DEF OrgIds
  <2>6. rows[last].seq \in Nat /\ rows[last].hash \in EventHash
    BY <1>0, <2>5, RowFields
  <2>7. OrgHead(o).seq = rows[last].seq /\ OrgHead(o).hash = rows[last].hash
    BY <2>4
  <2> QED BY <2>4, <2>5, <2>6, <2>7 DEF OrgHeadType, WasHead
<1> QED BY <1>1, <1>2

\* A head whose next seq is free is the last one.
LEMMA FreeSeqIsLast ==
    ASSUME ChainInv, NEW w \in Worker, NEW o \in Org, ~SeqTaken(w, o)
    PROVE  \A i \in DOMAIN rows : rows[i].org = o => rows[i].seq <= writer[w][o].head.seq
<1> SUFFICES ASSUME NEW i \in DOMAIN rows, rows[i].org = o,
                    ~(rows[i].seq <= writer[w][o].head.seq)
             PROVE  FALSE
  OBVIOUS
<1>1. LocalTypeOK
  BY DEF ChainInv
<1>2. rows[i].seq \in Nat /\ writer[w][o].head.seq \in Nat
  BY <1>1, RowFields, WriterFields
<1>3. writer[w][o].head.seq + 1 \in 1..rows[i].seq
  BY <1>2
<1>4. PICK j \in DOMAIN rows : rows[j].org = o /\ rows[j].seq = writer[w][o].head.seq + 1
  BY <1>3 DEF ChainInv, SeqsFilled
<1> QED BY <1>4 DEF SeqTaken, OrgIds

-----------------------------------------------------------------------------
(***************************************************************************)
(* Steps of append_local_audit.                                            *)
(***************************************************************************)

\* Committed rows stay, ids may be used up: the chains are as they were.
LEMMA ChainSame ==
    ASSUME ChainInv, rows' = rows, nextId' \in {nextId, nextId + 1},
           writer' \in [Worker -> [Org -> WriterState]], call' \in [Event -> Outcome]
    PROVE  ChainInv'
<1>0. LocalTypeOK
  BY DEF ChainInv
<1>1. nextId \in Nat \ {0} /\ nextId' \in Nat \ {0} /\ nextId <= nextId'
  BY <1>0 DEF LocalTypeOK
<1>2. LocalTypeOK'
  BY <1>0, <1>1 DEF LocalTypeOK
<1>3. IdsHandedOut'
  BY <1>0, <1>1, RowFields DEF ChainInv, IdsHandedOut
<1>4. OrgIdsInOrder' /\ SeqsFilled' /\ RowsLinked'
  BY DEF ChainInv, OrgIdsInOrder, SeqsFilled, RowsLinked
<1> QED BY <1>2, <1>3, <1>4 DEF ChainInv

\* An append opens a transaction, waits for one, or is over.
LEMMA OpenStep ==
    ASSUME LocalInv, NEW w \in Worker, NEW o \in Org, NEW x \in WriterState,
           x.phase = "open", writer' = [writer EXCEPT ![w][o] = x],
           rows' = rows, nextId' \in {nextId, nextId + 1}, call' \in [Event -> Outcome]
    PROVE  LocalInv'
<1>0. LocalTypeOK /\ ChainInv /\ WritersInv
  BY DEF LocalInv, ChainInv
<1>1. /\ writer' \in [Worker -> [Org -> WriterState]] /\ writer'[w][o] = x
      /\ \A v \in Worker, p \in Org : v # w \/ p # o => writer'[v][p] = writer[v][p]
  BY <1>0 DEF LocalTypeOK
<1>2. ChainInv'
  BY <1>0, <1>1, ChainSame
<1>3. \A v \in Worker, p \in Org :
        writer'[v][p].phase # "open" => writer'[v][p] = writer[v][p]
  BY <1>1
<1>4. HeadsRead'
  BY <1>0, <1>3 DEF WritersInv, HeadsRead, WasHead
<1>5. nextId \in Nat /\ nextId' \in Nat /\ nextId <= nextId'
  BY <1>0 DEF LocalTypeOK
<1>6. InsertedLast'
  BY <1>0, <1>3, <1>5, WriterFields DEF WritersInv, InsertedLast
<1>7. InsertedApart'
  BY <1>0, <1>3 DEF WritersInv, InsertedApart
<1> QED BY <1>2, <1>4, <1>6, <1>7 DEF LocalInv, WritersInv

LEMMA TakeLockStep ==
    ASSUME LocalInv, NEW e \in Event, NEW w \in Worker, NEW o \in Org, TakeLock(e, w, o)
    PROVE  LocalInv'
<1>0. PICK x : x = [Idling EXCEPT !.event = e]
  OBVIOUS
<1>1. x \in WriterState /\ x.phase = "open"
  BY <1>0, IdlingState, SetEvent
<1>2. call' \in [Event -> Outcome]
  BY DEF TakeLock, LocalInv, ChainInv, LocalTypeOK, Outcome
<1>3. writer' = [writer EXCEPT ![w][o] = x] /\ rows' = rows /\ nextId' = nextId
  BY <1>0 DEF TakeLock
<1> QED BY <1>1, <1>2, <1>3, OpenStep

LEMMA RollBackStep ==
    ASSUME LocalInv, NEW w \in Worker, NEW o \in Org, RollBack(w, o)
    PROVE  LocalInv'
<1>1. call' \in [Event -> Outcome]
  BY DEF RollBack, LocalInv, ChainInv, LocalTypeOK, Outcome
<1>2. writer' = [writer EXCEPT ![w][o] = Idling] /\ rows' = rows /\ nextId' = nextId
  BY DEF RollBack
<1> QED BY <1>1, <1>2, IdlingState, OpenStep

LEMMA CollideStep ==
    ASSUME LocalInv, NEW w \in Worker, NEW o \in Org, Collide(w, o)
    PROVE  LocalInv'
<1>0. LocalTypeOK /\ call \in [Event -> Outcome]
  BY DEF LocalInv, ChainInv, LocalTypeOK
<1>1. PICK f \in WriterState : f = writer[w][o]
  BY <1>0, WriterFields
<1>2. rows' = rows /\ nextId' = nextId + 1
  BY DEF Collide
<1>3. CASE /\ f.attempt + 1 < MaxRetries
           /\ writer' = [writer EXCEPT ![w][o] =
                 [f EXCEPT !.phase = "open", !.attempt = f.attempt + 1]]
           /\ UNCHANGED call
  <2>1. PICK x : x = [f EXCEPT !.phase = "open", !.attempt = f.attempt + 1]
    OBVIOUS
  <2>2. x \in WriterState /\ x.phase = "open"
    BY <1>3, <2>1, SetAttempt
  <2>3. writer' = [writer EXCEPT ![w][o] = x] /\ call' \in [Event -> Outcome]
    BY <1>0, <1>3, <2>1
  <2> QED BY <1>2, <2>2, <2>3, OpenStep
<1>4. CASE /\ writer' = [writer EXCEPT ![w][o] = Idling]
           /\ call' = [call EXCEPT ![f.event] = "error"]
  <2>1. call' \in [Event -> Outcome]
    BY <1>0, <1>4 DEF Outcome
  <2> QED BY <1>2, <1>4, <2>1, IdlingState, OpenStep
<1> QED BY <1>1, <1>3, <1>4 DEF Collide

LEMMA ReadHeadStep ==
    ASSUME LocalInv, NEW w \in Worker, NEW o \in Org, ReadOrgHead(w, o)
    PROVE  LocalInv'
<1>0. LocalTypeOK /\ ChainInv /\ WritersInv /\ call \in [Event -> Outcome]
  BY DEF LocalInv, ChainInv, LocalTypeOK
<1>1. PICK f \in WriterState : f = writer[w][o]
  BY <1>0, WriterFields
<1>2. PICK h \in OrgHeadType : h = OrgHead(o) /\ WasHead(o, h)
  BY <1>0, OrgHeadIsLast
<1>3. /\ f.event # NoEvent /\ rows' = rows /\ nextId' = nextId /\ call' = call
      /\ writer' = [writer EXCEPT ![w][o] = [f EXCEPT !.phase = "read", !.head = h]]
  BY <1>1, <1>2 DEF ReadOrgHead
<1>4. PICK x : x = [f EXCEPT !.phase = "read", !.head = h]
  OBVIOUS
<1>4a. x \in WriterState /\ x.phase = "read" /\ x.head = h /\ x.event = f.event
  BY <1>4 DEF WriterState
<1>4b. f.event \in Event
  BY <1>3 DEF WriterState
<1>5. /\ writer' \in [Worker -> [Org -> WriterState]] /\ writer'[w][o] = x
      /\ \A v \in Worker, p \in Org : v # w \/ p # o => writer'[v][p] = writer[v][p]
  BY <1>0, <1>3, <1>4, <1>4a DEF LocalTypeOK
<1>6. ChainInv'
  BY <1>0, <1>3, <1>5, ChainSame
<1>7. \A v \in Worker, p \in Org :
        writer'[v][p].phase = "inserted" => writer'[v][p] = writer[v][p]
  BY <1>4a, <1>5
<1>8. HeadsRead'
  <2> SUFFICES ASSUME NEW v \in Worker, NEW p \in Org, writer'[v][p].phase # "open"
               PROVE  writer'[v][p].event \in Event /\ WasHead(p, writer[v][p].head)'
    BY DEF HeadsRead
  <2>2. CASE v = w /\ p = o
    BY <1>2, <1>3, <1>4a, <1>4b, <1>5, <2>2 DEF WasHead
  <2>3. CASE v # w \/ p # o
    BY <1>0, <1>3, <1>5, <2>3 DEF WritersInv, HeadsRead, WasHead
  <2> QED BY <2>2, <2>3
<1>9. InsertedLast' /\ InsertedApart'
  BY <1>0, <1>3, <1>7 DEF WritersInv, InsertedLast, InsertedApart
<1> QED BY <1>6, <1>8, <1>9 DEF LocalInv, WritersInv

LEMMA InsertStep ==
    ASSUME LocalInv, NEW w \in Worker, NEW o \in Org, InsertRow(w, o)
    PROVE  LocalInv'
<1>0. /\ LocalTypeOK /\ ChainInv /\ WritersInv
      /\ call \in [Event -> Outcome] /\ nextId \in Nat \ {0}
  BY DEF LocalInv, ChainInv, LocalTypeOK
<1>1. PICK f \in WriterState : f = writer[w][o]
  BY <1>0, WriterFields
<1>2. /\ f.phase = "read" /\ ~MustWait(w, o) /\ ~SeqTaken(w, o)
      /\ rows' = rows /\ nextId' = nextId + 1 /\ call' = call
      /\ writer' = [writer EXCEPT ![w][o] = [f EXCEPT !.phase = "inserted", !.id = nextId]]
  BY <1>1 DEF InsertRow
<1>2a. PICK x : x = [f EXCEPT !.phase = "inserted", !.id = nextId]
  OBVIOUS
<1>3. /\ x \in WriterState /\ x.phase = "inserted" /\ x.head = f.head
      /\ x.event = f.event /\ x.id = nextId
  BY <1>0, <1>2a DEF WriterState
<1>4. /\ writer' \in [Worker -> [Org -> WriterState]] /\ writer'[w][o] = x
      /\ \A v \in Worker, p \in Org : v # w \/ p # o => writer'[v][p] = writer[v][p]
  BY <1>0, <1>2, <1>2a, <1>3 DEF LocalTypeOK
<1>5. ChainInv'
  BY <1>0, <1>2, <1>4, ChainSame
<1>6. HeadsRead'
  <2> SUFFICES ASSUME NEW v \in Worker, NEW p \in Org, writer'[v][p].phase # "open"
               PROVE  writer'[v][p].event \in Event /\ WasHead(p, writer[v][p].head)'
    BY DEF HeadsRead
  <2>1. CASE v = w /\ p = o
    BY <1>0, <1>1, <1>2, <1>3, <1>4, <2>1 DEF WritersInv, HeadsRead, WasHead
  <2>2. CASE v # w \/ p # o
    BY <1>0, <1>2, <1>4, <2>2 DEF WritersInv, HeadsRead, WasHead
  <2> QED BY <2>1, <2>2
<1>7. \A i \in DOMAIN rows : rows[i].org = o => rows[i].seq <= f.head.seq
  BY <1>0, <1>1, <1>2, FreeSeqIsLast
<1>8. InsertedLast'
  <2> SUFFICES ASSUME NEW v \in Worker, NEW p \in Org, writer'[v][p].phase = "inserted"
               PROVE  /\ 1 <= writer'[v][p].id /\ writer'[v][p].id < nextId'
                      /\ writer'[v][p].id \notin DOMAIN rows'
                      /\ \A i \in DOMAIN rows' : rows'[i].org = p =>
                            rows'[i].seq <= writer'[v][p].head.seq /\ i < writer'[v][p].id
    BY DEF InsertedLast
  <2>1. CASE v = w /\ p = o
    <3>1. writer'[v][p].id = nextId /\ writer'[v][p].head = f.head
      BY <1>3, <1>4, <2>1
    <3>2. \A i \in DOMAIN rows : i < nextId /\ i \in Nat
      BY <1>0, RowFields DEF ChainInv, IdsHandedOut
    <3> QED BY <1>0, <1>2, <1>7, <2>1, <3>1, <3>2
  <2>2. CASE v # w \/ p # o
    <3>1. writer'[v][p] = writer[v][p] /\ writer[v][p].phase = "inserted"
      BY <1>4, <2>2
    <3>2. /\ 1 <= writer[v][p].id /\ writer[v][p].id < nextId
          /\ writer[v][p].id \notin DOMAIN rows
          /\ \A i \in DOMAIN rows : rows[i].org = p =>
                rows[i].seq <= writer[v][p].head.seq /\ i < writer[v][p].id
      BY <1>0, <3>1 DEF WritersInv, InsertedLast
    <3>3. writer[v][p].id \in Nat
      BY <1>0, WriterFields
    <3>4. writer[v][p].id < nextId + 1
      BY <1>0, <3>2, <3>3
    <3> QED BY <1>2, <3>1, <3>2, <3>4
  <2> QED BY <2>1, <2>2
<1>9. \A v \in Worker, p \in Org :
        (v # w \/ p # o) /\ writer[v][p].phase = "inserted" =>
            p # o /\ writer[v][p].id # nextId
  <2> SUFFICES ASSUME NEW v \in Worker, NEW p \in Org, v # w \/ p # o,
                      writer[v][p].phase = "inserted"
               PROVE  p # o /\ writer[v][p].id # nextId
    OBVIOUS
  <2>1. writer[v][p].id \in Nat /\ writer[v][p].id < nextId
    BY <1>0, WriterFields DEF WritersInv, InsertedLast
  <2>2. ASSUME p = o
        PROVE  FALSE
    <3>1. writer[v][o].head.seq \in Nat /\ f.head.seq \in Nat
      BY <1>0, <1>1, WriterFields
    <3>2. \A i \in DOMAIN rows : rows[i].org = o => rows[i].seq <= writer[v][o].head.seq
      BY <1>0, <2>2 DEF WritersInv, InsertedLast
    <3>3. WasHead(o, f.head) /\ WasHead(o, writer[v][o].head)
      BY <1>0, <1>1, <1>2, <2>2 DEF WritersInv, HeadsRead
    <3>4. f.head.seq <= writer[v][o].head.seq
      BY <3>1, <3>2, <3>3 DEF WasHead
    <3>5. writer[v][o].head.seq <= f.head.seq
      BY <1>7, <3>1, <3>3 DEF WasHead
    <3>6. writer[v][o].head.seq = writer[w][o].head.seq
      BY <1>1, <3>1, <3>4, <3>5
    <3> QED BY <1>2, <2>2, <3>6 DEF MustWait
  <2> QED BY <1>0, <2>1, <2>2
<1>10. InsertedApart'
  <2> SUFFICES ASSUME NEW u \in Worker, NEW v \in Worker, NEW q \in Org, NEW p \in Org,
                      writer'[u][q].phase = "inserted", writer'[v][p].phase = "inserted",
                      u # v \/ q # p
               PROVE  q # p /\ writer'[u][q].id # writer'[v][p].id
    BY DEF InsertedApart
  <2>1. CASE u = w /\ q = o
    <3>1. (v # w \/ p # o) /\ writer'[v][p] = writer[v][p] /\ writer'[u][q].id = nextId
      BY <1>3, <1>4, <2>1
    <3> QED BY <1>9, <2>1, <3>1
  <2>2. CASE v = w /\ p = o
    <3>1. (u # w \/ q # o) /\ writer'[u][q] = writer[u][q] /\ writer'[v][p].id = nextId
      BY <1>3, <1>4, <2>2
    <3> QED BY <1>9, <2>2, <3>1
  <2>3. CASE (u # w \/ q # o) /\ (v # w \/ p # o)
    BY <1>0, <1>4, <2>3 DEF WritersInv, InsertedApart
  <2> QED BY <2>1, <2>2, <2>3
<1> QED BY <1>5, <1>6, <1>8, <1>10 DEF LocalInv, WritersInv

\* The row that is committed follows the last one, and has the largest id.
LEMMA CommitStep ==
    ASSUME LocalInv, NEW w \in Worker, NEW o \in Org, CommitRow(w, o)
    PROVE  LocalInv'
<1>0. /\ LocalTypeOK /\ ChainInv /\ WritersInv
      /\ call \in [Event -> Outcome] /\ nextId \in Nat \ {0}
  BY DEF LocalInv, ChainInv, LocalTypeOK
<1>1. PICK f \in WriterState : f = writer[w][o]
  BY <1>0, WriterFields
<1>2. /\ f.phase = "inserted" /\ f.event \in Event
      /\ f.head.seq \in Nat /\ f.head.hash \in EventHash /\ f.id \in Nat
      /\ WasHead(o, f.head) /\ 1 <= f.id /\ f.id < nextId /\ f.id \notin DOMAIN rows
      /\ \A i \in DOMAIN rows : rows[i].org = o => rows[i].seq <= f.head.seq /\ i < f.id
  BY <1>0, <1>1, WriterFields DEF CommitRow, WritersInv, HeadsRead, InsertedLast
<1>3. PICK r : r = [org |-> o, seq |-> f.head.seq + 1, event |-> f.event,
                    previous |-> f.head.hash,
                    hash |-> EntryHash(f.head.seq + 1, f.event, f.head.hash)]
  OBVIOUS
<1>4. /\ r \in LocalRow /\ r.org = o /\ r.seq = f.head.seq + 1 /\ r.event = f.event
      /\ r.previous = f.head.hash /\ r.hash = EntryHash(r.seq, r.event, r.previous)
  <2>1. EntryHash(f.head.seq + 1, f.event, f.head.hash) \in EventHash
    BY <1>2, HashType
  <2>2. f.head.seq + 1 \in Nat \ {0}
    BY <1>2
  <2> QED BY <1>2, <1>3, <2>1, <2>2 DEF LocalRow
<1>5. /\ rows' = [i \in DOMAIN rows \cup {f.id} |-> IF i = f.id THEN r ELSE rows[i]]
      /\ writer' = [writer EXCEPT ![w][o] = Idling]
      /\ call' = [call EXCEPT ![f.event] = "ok"]
      /\ nextId' = nextId
  BY <1>1, <1>3 DEF CommitRow
<1>6. /\ DOMAIN rows' = DOMAIN rows \cup {f.id} /\ rows'[f.id] = r
      /\ \A i \in DOMAIN rows : i # f.id /\ rows'[i] = rows[i]
  BY <1>2, <1>5
<1>7. /\ writer' \in [Worker -> [Org -> WriterState]] /\ writer'[w][o] = Idling
      /\ \A v \in Worker, p \in Org : v # w \/ p # o => writer'[v][p] = writer[v][p]
  BY <1>0, <1>5, IdlingState DEF LocalTypeOK
<1>8. \A v \in Worker, p \in Org : writer'[v][p].phase # "open" =>
        (v # w \/ p # o) /\ writer'[v][p] = writer[v][p]
  BY <1>7, IdlingState
<1>9. LocalTypeOK'
  <2>1. call' \in [Event -> Outcome]
    BY <1>0, <1>5 DEF Outcome
  <2>2. DOMAIN rows' \subseteq Nat /\ \A i \in DOMAIN rows' : rows'[i] \in LocalRow
    BY <1>0, <1>2, <1>4, <1>6 DEF LocalTypeOK
  <2> QED BY <1>0, <1>5, <1>7, <2>1, <2>2 DEF LocalTypeOK
<1>10. IdsHandedOut'
  BY <1>0, <1>2, <1>5, <1>6 DEF ChainInv, IdsHandedOut
<1>11. \A i \in DOMAIN rows : /\ i \in Nat /\ rows[i].seq \in Nat /\ rows[i].seq >= 1
                              /\ rows[i].org \in Org
  BY <1>0, RowFields
<1>12. OrgIdsInOrder'
  <2> SUFFICES ASSUME NEW i \in DOMAIN rows', NEW j \in DOMAIN rows',
                      rows'[i].org = rows'[j].org
               PROVE  i < j <=> rows'[i].seq < rows'[j].seq
    BY DEF OrgIdsInOrder
  <2>1. CASE i = f.id /\ j = f.id
    BY <1>2, <1>4, <1>6, <2>1
  <2>2. CASE i = f.id /\ j # f.id
    <3>1. j \in DOMAIN rows /\ rows'[j] = rows[j] /\ rows[j].org = o
      BY <1>4, <1>6, <2>2
    <3>2. j < f.id /\ rows[j].seq <= f.head.seq
      BY <1>2, <3>1
    <3> QED BY <1>2, <1>4, <1>6, <1>11, <2>2, <3>1, <3>2
  <2>3. CASE i # f.id /\ j = f.id
    <3>1. i \in DOMAIN rows /\ rows'[i] = rows[i] /\ rows[i].org = o
      BY <1>4, <1>6, <2>3
    <3>2. i < f.id /\ rows[i].seq <= f.head.seq
      BY <1>2, <3>1
    <3> QED BY <1>2, <1>4, <1>6, <1>11, <2>3, <3>1, <3>2
  <2>4. CASE i # f.id /\ j # f.id
    <3>1. i \in DOMAIN rows /\ j \in DOMAIN rows /\ rows'[i] = rows[i] /\ rows'[j] = rows[j]
      BY <1>6, <2>4
    <3> QED BY <1>0, <3>1 DEF ChainInv, OrgIdsInOrder
  <2> QED BY <2>1, <2>2, <2>3, <2>4
<1>13. SeqsFilled'
  <2> SUFFICES ASSUME NEW i \in DOMAIN rows', NEW k \in 1..rows'[i].seq
               PROVE  \E j \in DOMAIN rows' :
                         rows'[j].org = rows'[i].org /\ rows'[j].seq = k
    BY DEF SeqsFilled
  <2>1. ASSUME NEW h \in DOMAIN rows, NEW m \in 1..rows[h].seq
        PROVE  \E j \in DOMAIN rows' : rows'[j].org = rows[h].org /\ rows'[j].seq = m
    <3>1. PICK j \in DOMAIN rows : rows[j].org = rows[h].org /\ rows[j].seq = m
      BY <1>0, <2>1 DEF ChainInv, SeqsFilled
    <3>2. j \in DOMAIN rows' /\ rows'[j] = rows[j]
      BY <1>6
    <3> QED BY <3>1, <3>2
  <2>2. CASE i # f.id
    <3>1. i \in DOMAIN rows /\ rows'[i] = rows[i]
      BY <1>6, <2>2
    <3> QED BY <2>1, <3>1
  <2>3. CASE i = f.id /\ k = f.head.seq + 1
    BY <1>4, <1>6, <2>3
  <2>4. CASE i = f.id /\ k # f.head.seq + 1
    <3>1. k \in 1..f.head.seq /\ f.head.seq # 0 /\ rows'[i].org = o
      BY <1>2, <1>4, <1>6, <2>4
    <3>2. PICK h \in DOMAIN rows : rows[h].org = o /\ rows[h].seq = f.head.seq
      BY <1>2, <3>1 DEF WasHead
    <3>3. k \in 1..rows[h].seq
      BY <3>1, <3>2
    <3> QED BY <2>1, <3>1, <3>2, <3>3
  <2> QED BY <2>2, <2>3, <2>4
<1>14. RowsLinked'
  <2>1. ASSUME NEW i \in DOMAIN rows'
        PROVE  /\ rows'[i].hash = EntryHash(rows'[i].seq, rows'[i].event, rows'[i].previous)
               /\ rows'[i].seq = 1 => rows'[i].previous = NoHash
    <3>1. CASE i = f.id
      <4>1. f.head.seq = 0 => f.head.hash = NoHash
        BY <1>2, <1>11 DEF WasHead
      <4> QED BY <1>2, <1>4, <1>6, <3>1, <4>1
    <3>2. CASE i # f.id
      BY <1>0, <1>6, <3>2 DEF ChainInv, RowsLinked
    <3> QED BY <3>1, <3>2
  <2>2. ASSUME NEW i \in DOMAIN rows', NEW j \in DOMAIN rows',
               rows'[j].org = rows'[i].org, rows'[i].seq = rows'[j].seq + 1
        PROVE  rows'[i].previous = rows'[j].hash
    <3>1. CASE i = f.id
      <4>1. j # f.id
        BY <1>2, <1>4, <1>6, <2>2, <3>1
      <4>2. j \in DOMAIN rows /\ rows'[j] = rows[j] /\ rows[j].org = o
        BY <1>4, <1>6, <2>2, <3>1, <4>1
      <4>3. rows[j].seq = f.head.seq
        BY <1>2, <1>4, <1>6, <1>11, <2>2, <3>1, <4>2
      <4>4. PICK h \in DOMAIN rows :
              rows[h].org = o /\ rows[h].seq = f.head.seq /\ rows[h].hash = f.head.hash
        BY <1>2, <1>11, <4>2, <4>3 DEF WasHead
      <4>5. h = j
        <5>1. (h < j <=> rows[h].seq < rows[j].seq) /\ (j < h <=> rows[j].seq < rows[h].seq)
          BY <1>0, <4>2, <4>4 DEF ChainInv, OrgIdsInOrder
        <5> QED BY <1>2, <1>11, <4>2, <4>3, <4>4, <5>1
      <4> QED BY <1>4, <1>6, <3>1, <4>2, <4>4, <4>5
    <3>2. CASE i # f.id /\ j = f.id
      <4>1. i \in DOMAIN rows /\ rows'[i] = rows[i] /\ rows[i].org = o
        BY <1>4, <1>6, <2>2, <3>2
      <4>2. rows[i].seq <= f.head.seq /\ rows[i].seq = f.head.seq + 1 + 1
        BY <1>2, <1>4, <1>6, <2>2, <3>2, <4>1
      <4> QED BY <1>2, <1>11, <4>1, <4>2
    <3>3. CASE i # f.id /\ j # f.id
      <4>1. i \in DOMAIN rows /\ j \in DOMAIN rows /\ rows'[i] = rows[i] /\ rows'[j] = rows[j]
        BY <1>6, <3>3
      <4> QED BY <1>0, <2>2, <4>1 DEF ChainInv, RowsLinked
    <3> QED BY <3>1, <3>2, <3>3
  <2> QED BY <2>1, <2>2 DEF RowsLinked
<1>15. HeadsRead'
  <2> SUFFICES ASSUME NEW v \in Worker, NEW p \in Org, writer'[v][p].phase # "open"
               PROVE  writer'[v][p].event \in Event /\ WasHead(p, writer[v][p].head)'
    BY DEF HeadsRead
  <2>1. writer'[v][p] = writer[v][p]
    BY <1>8
  <2>2. writer[v][p].event \in Event /\ WasHead(p, writer[v][p].head)
    BY <1>0, <2>1 DEF WritersInv, HeadsRead
  <2> QED BY <1>6, <2>1, <2>2 DEF WasHead
<1>16. \A v \in Worker, p \in Org : writer'[v][p].phase = "inserted" =>
         p # o /\ writer[v][p].id # f.id
  BY <1>0, <1>1, <1>2, <1>8 DEF WritersInv, InsertedApart
<1>17. InsertedLast'
  <2> SUFFICES ASSUME NEW v \in Worker, NEW p \in Org, writer'[v][p].phase = "inserted"
               PROVE  /\ 1 <= writer'[v][p].id /\ writer'[v][p].id < nextId'
                      /\ writer'[v][p].id \notin DOMAIN rows'
                      /\ \A i \in DOMAIN rows' : rows'[i].org = p =>
                            rows'[i].seq <= writer'[v][p].head.seq /\ i < writer'[v][p].id
    BY DEF InsertedLast
  <2>1. /\ writer'[v][p] = writer[v][p] /\ writer[v][p].phase = "inserted"
        /\ p # o /\ writer[v][p].id # f.id
    BY <1>8, <1>16
  <2>2. /\ 1 <= writer[v][p].id /\ writer[v][p].id < nextId
        /\ writer[v][p].id \notin DOMAIN rows
        /\ \A i \in DOMAIN rows : rows[i].org = p =>
              rows[i].seq <= writer[v][p].head.seq /\ i < writer[v][p].id
    BY <1>0, <2>1 DEF WritersInv, InsertedLast
  <2> QED BY <1>4, <1>5, <1>6, <2>1, <2>2
<1>18. InsertedApart'
  BY <1>0, <1>8 DEF WritersInv, InsertedApart
<1>19. ChainInv'
  BY <1>9, <1>10, <1>12, <1>13, <1>14 DEF ChainInv
<1> QED BY <1>15, <1>17, <1>18, <1>19 DEF LocalInv, WritersInv

LEMMA LocalSame ==
    ASSUME LocalInv, rows' = rows, nextId' = nextId, writer' = writer,
           call' \in [Event -> Outcome]
    PROVE  LocalInv'
<1>1. ChainInv'
  BY ChainSame DEF LocalInv, ChainInv, LocalTypeOK
<1>2. WritersInv'
  BY DEF LocalInv, WritersInv, HeadsRead, WasHead, InsertedLast, InsertedApart
<1> QED BY <1>1, <1>2 DEF LocalInv

LEMMA LocalStep == LocalInv /\ LocalNext => LocalInv'
<1> SUFFICES ASSUME LocalInv, LocalNext
             PROVE  LocalInv'
  OBVIOUS
<1>1. CASE \E e \in Event : DetailsTooLarge(e)
  <2>1. /\ call' \in [Event -> Outcome]
        /\ rows' = rows /\ nextId' = nextId /\ writer' = writer
    BY <1>1 DEF DetailsTooLarge, LocalInv, ChainInv, LocalTypeOK, Outcome
  <2> QED BY <2>1, LocalSame
<1>2. CASE \E e \in Event, w \in Worker, o \in Org : TakeLock(e, w, o)
  BY <1>2, TakeLockStep
<1>3. CASE \E w \in Worker : WriterStep(w)
  BY <1>3, ReadHeadStep, InsertStep, CommitStep, CollideStep DEF WriterStep
<1>4. CASE \E w \in Worker : \E o \in Org : RollBack(w, o)
  BY <1>4, RollBackStep
<1> QED BY <1>1, <1>2, <1>3, <1>4 DEF LocalNext

LEMMA LocalInitially == LocalInit => LocalInv
<1> SUFFICES ASSUME LocalInit
             PROVE  LocalInv
  OBVIOUS
<1>1. DOMAIN rows = {} /\ nextId = 1
  BY DEF LocalInit
<1>2. writer \in [Worker -> [Org -> WriterState]] /\ call \in [Event -> Outcome]
  BY IdlingState DEF LocalInit, Outcome
<1>3. \A w \in Worker, o \in Org : writer[w][o].phase = "open"
  BY IdlingState DEF LocalInit
<1>4. ChainInv
  BY <1>1, <1>2
     DEF ChainInv, LocalTypeOK, IdsHandedOut, OrgIdsInOrder, SeqsFilled, RowsLinked
<1>5. WritersInv
  BY <1>3 DEF WritersInv, HeadsRead, InsertedLast, InsertedApart
<1> QED BY <1>4, <1>5 DEF LocalInv

-----------------------------------------------------------------------------
(***************************************************************************)
(* Steps of the publisher: types, and the cursor is an id.                 *)
(***************************************************************************)

\* What one step of append_local_audit does to the committed rows.
LEMMA RowsAfter ==
    ASSUME LocalInv, LocalNext
    PROVE  \/ rows' = rows
           \/ \E n \in DOMAIN rows' :
                 /\ DOMAIN rows' = DOMAIN rows \cup {n} /\ n \in Nat /\ 1 <= n
                 /\ \A i \in DOMAIN rows : i # n /\ rows'[i] = rows[i]
                 /\ \A i \in DOMAIN rows : rows[i].org = rows'[n].org =>
                       i < n /\ rows[i].seq < rows'[n].seq
<1>1. CASE \E w \in Worker, o \in Org : CommitRow(w, o)
  <2>0. LocalTypeOK
    BY DEF LocalInv, ChainInv
  <2>1. PICK w \in Worker, o \in Org : CommitRow(w, o)
    BY <1>1
  <2>2. PICK f \in WriterState : f = writer[w][o]
    BY <2>0, WriterFields
  <2>3. /\ f.head.seq \in Nat /\ f.id \in Nat
        /\ 1 <= f.id /\ f.id \notin DOMAIN rows
        /\ \A i \in DOMAIN rows : rows[i].org = o => rows[i].seq <= f.head.seq /\ i < f.id
    BY <2>0, <2>1, <2>2, WriterFields DEF CommitRow, LocalInv, WritersInv, InsertedLast
  <2>4. PICK r : r = [org |-> o, seq |-> f.head.seq + 1, event |-> f.event,
                      previous |-> f.head.hash,
                      hash |-> EntryHash(f.head.seq + 1, f.event, f.head.hash)]
    OBVIOUS
  <2>5. r.org = o /\ r.seq = f.head.seq + 1
    BY <2>4
  <2>6. rows' = [i \in DOMAIN rows \cup {f.id} |-> IF i = f.id THEN r ELSE rows[i]]
    BY <2>1, <2>2, <2>4 DEF CommitRow
  <2>7. /\ DOMAIN rows' = DOMAIN rows \cup {f.id} /\ rows'[f.id] = r
        /\ \A i \in DOMAIN rows : i # f.id /\ rows'[i] = rows[i]
    BY <2>3, <2>6
  <2>8. \A i \in DOMAIN rows : rows[i].seq \in Nat
    BY <2>0, RowFields
  <2>9. \A i \in DOMAIN rows : rows[i].org = rows'[f.id].org =>
          i < f.id /\ rows[i].seq < rows'[f.id].seq
    BY <2>3, <2>5, <2>7, <2>8
  <2> QED BY <2>3, <2>7, <2>9
<1>2. CASE ~ \E w \in Worker, o \in Org : CommitRow(w, o)
  BY <1>2 DEF LocalNext, DetailsTooLarge, TakeLock, WriterStep, ReadOrgHead, InsertRow,
              Collide, RollBack
<1> QED BY <1>1, <1>2

LEMMA TickFields ==
    ASSUME TypeOK
    PROVE  /\ tick \in TickState /\ tick.acked \in Nat
           /\ \A b \in tick.batches : b \in [org : Org, ids : SUBSET Nat]
           /\ \A b \in tick.batches : b.ids \subseteq DOMAIN rows
BY DEF TypeOK, TickState

LEMMA NoTickFields ==
    NoTick \in TickState /\ NoTick.batches = {} /\ NoTick.acked = 0
BY DEF NoTick, TickState

\* The rows the Court stores.
LEMMA ReplicatedFields ==
    ASSUME TypeOK, NEW b \in tick.batches
    PROVE  Replicated(b) \subseteq CourtRow /\ court \subseteq Replicated(b)
<1>1. LocalTypeOK /\ b.ids \subseteq DOMAIN rows /\ court \subseteq CourtRow
  BY DEF TypeOK
<1>2. \A i \in b.ids :
        [org |-> rows[i].org, seq |-> rows[i].seq, hash |-> rows[i].hash] \in CourtRow
  BY <1>1, RowFields DEF CourtRow
<1> QED BY <1>1, <1>2 DEF Replicated

\* max_id_acked after a batch.
LEMMA MaxIdAckedFields ==
    ASSUME PubInv, NEW b \in tick.batches, NEW m, m = MaxIdAcked(tick.acked, b.ids)
    PROVE  /\ m \in b.ids \cup {tick.acked} /\ m \in {0} \cup DOMAIN rows /\ m \in Nat
           /\ \A i \in b.ids \cup {tick.acked} : i <= m
<1>1. /\ b.ids \subseteq DOMAIN rows /\ tick.acked \in {0} \cup DOMAIN rows
      /\ LocalTypeOK /\ IdsHandedOut /\ nextId \in Nat
  BY DEF PubInv, LocalInv, ChainInv, LocalTypeOK, TypeOK, CursorIsRow
<1>2. b.ids \cup {tick.acked} \subseteq 0..nextId
  BY <1>1, RowFields DEF IdsHandedOut
<1>3. \E n \in b.ids \cup {tick.acked} : \A i \in b.ids \cup {tick.acked} : i <= n
  BY <1>1, <1>2, LargestId
<1>4. /\ m \in b.ids \cup {tick.acked}
      /\ \A i \in b.ids \cup {tick.acked} : i <= m
  BY <1>3 DEF MaxIdAcked
<1>5. m \in Nat
  BY <1>1, <1>2, <1>4
<1> QED BY <1>1, <1>4, <1>5

\* The batches a tick starts with.
LEMMA GroupFields ==
    ASSUME TypeOK, NEW b \in GroupByOrg(FetchPending(cursor))
    PROVE  /\ b \in [org : Org, ids : SUBSET Nat]
           /\ b.ids = FetchPending(cursor) \cap OrgIds(b.org)
           /\ b.ids \subseteq DOMAIN rows
<1> DEFINE P == FetchPending(cursor)
<1>1. P \subseteq DOMAIN rows
  BY DEF FetchPending
<1> HIDE DEF P
<1>2. PICK i \in P : b = [org |-> rows[i].org, ids |-> P \cap OrgIds(rows[i].org)]
  BY DEF GroupByOrg, P
<1>3. rows[i].org \in Org /\ DOMAIN rows \subseteq Nat
  BY <1>1, RowFields DEF TypeOK, LocalTypeOK
<1>4. b.org = rows[i].org /\ b.ids = P \cap OrgIds(b.org)
  BY <1>2
<1>5. P \cap OrgIds(rows[i].org) \in SUBSET Nat
  BY <1>1, <1>3
<1> QED BY <1>1, <1>2, <1>3, <1>4, <1>5 DEF P

LEMMA PubLocalStep ==
    ASSUME PubInv, LocalNext, UNCHANGED <<cursor, tick, court, failures>>
    PROVE  PubInv'
<1>1. LocalInv'
  BY LocalStep DEF PubInv
<1>2. DOMAIN rows \subseteq DOMAIN rows'
  BY RowsAfter DEF PubInv
<1>3. LocalTypeOK'
  BY <1>1 DEF LocalInv, ChainInv
<1>4. TypeOK'
  BY <1>2, <1>3 DEF PubInv, TypeOK
<1>5. CursorIsRow'
  BY <1>2 DEF PubInv, CursorIsRow
<1> QED BY <1>1, <1>4, <1>5 DEF PubInv

\* A step of the publisher leaves append_local_audit alone.
LEMMA PubStepTypes ==
    ASSUME PubInv, UNCHANGED localVars,
           cursor' \in {0} \cup DOMAIN rows, tick' \in TickState,
           \A b \in tick'.batches : b.ids \subseteq DOMAIN rows,
           tick'.acked \in {0} \cup DOMAIN rows,
           court' \subseteq CourtRow, failures' \in 0..MaxFailures
    PROVE  PubInv'
<1>1. rows' = rows /\ nextId' = nextId /\ writer' = writer /\ call' = call
  BY DEF localVars
<1>2. call \in [Event -> Outcome] /\ LocalTypeOK /\ DOMAIN rows \subseteq Nat
  BY DEF PubInv, TypeOK, LocalTypeOK
<1>3. LocalInv'
  BY <1>1, <1>2, LocalSame DEF PubInv
<1>4. LocalTypeOK'
  BY <1>3 DEF LocalInv, ChainInv
<1>5. TypeOK' /\ CursorIsRow'
  BY <1>1, <1>2, <1>4 DEF TypeOK, CursorIsRow
<1> QED BY <1>3, <1>5 DEF PubInv

LEMMA TickStartTypes == PubInv /\ TickStart => PubInv'
<1> SUFFICES ASSUME PubInv, TickStart
             PROVE  PubInv'
  OBVIOUS
<1>1. PICK B : B = GroupByOrg(FetchPending(cursor))
  OBVIOUS
<1>2. /\ UNCHANGED <<localVars, cursor, court, failures>>
      /\ tick' = [phase |-> "sending", batches |-> B, acked |-> cursor]
  BY <1>1 DEF TickStart
<1>3. \A b \in B : b \in [org : Org, ids : SUBSET Nat] /\ b.ids \subseteq DOMAIN rows
  BY <1>1, GroupFields DEF PubInv
<1>4. /\ cursor \in Nat /\ court \subseteq CourtRow /\ failures \in 0..MaxFailures
      /\ cursor \in {0} \cup DOMAIN rows
  BY DEF PubInv, TypeOK, CursorIsRow
<1>5. tick' \in TickState /\ tick'.batches = B /\ tick'.acked = cursor
  BY <1>2, <1>3, <1>4 DEF TickState
<1> QED BY <1>2, <1>3, <1>4, <1>5, PubStepTypes

\* An answer to a batch, good or bad.
LEMMA BatchTypes ==
    ASSUME PubInv, NEW b \in tick.batches, BatchAccepted(b) \/ BatchFailed(b)
    PROVE  PubInv'
<1>0. TypeOK /\ MaxFailures \in Nat
  BY PublisherConstants DEF PubInv
<1>1. /\ tick \in TickState /\ b.ids \subseteq DOMAIN rows /\ tick.acked \in {0} \cup DOMAIN rows
      /\ cursor \in {0} \cup DOMAIN rows /\ court \subseteq CourtRow /\ failures \in 0..MaxFailures
  BY <1>0 DEF PubInv, TypeOK, CursorIsRow
<1>2. Replicated(b) \subseteq CourtRow
  BY <1>0, ReplicatedFields
<1>3. PICK m : m = MaxIdAcked(tick.acked, b.ids)
  OBVIOUS
<1>4. m \in {0} \cup DOMAIN rows /\ m \in Nat
  BY <1>3, MaxIdAckedFields
<1>5. CASE BatchAccepted(b)
  <2>1. /\ court' = Replicated(b) /\ UNCHANGED <<localVars, cursor, failures>>
        /\ tick' = [tick EXCEPT !.batches = tick.batches \ {b}, !.acked = m]
    BY <1>3, <1>5 DEF BatchAccepted
  <2>2. tick' \in TickState /\ tick'.batches = tick.batches \ {b} /\ tick'.acked = m
    BY <1>1, <1>4, <2>1 DEF TickState
  <2> QED BY <1>0, <1>1, <1>2, <1>4, <2>1, <2>2, TickFields, PubStepTypes
<1>6. CASE BatchFailed(b)
  <2>1. /\ court' \in {court, Replicated(b)} /\ UNCHANGED <<localVars, cursor>>
        /\ failures < MaxFailures /\ failures' = failures + 1
        /\ tick' = [tick EXCEPT !.batches = tick.batches \ {b}]
    BY <1>6 DEF BatchFailed
  <2>2. tick' \in TickState /\ tick'.batches = tick.batches \ {b} /\ tick'.acked = tick.acked
    BY <1>1, <2>1 DEF TickState
  <2>3. failures' \in 0..MaxFailures /\ court' \subseteq CourtRow
    BY <1>0, <1>1, <1>2, <2>1
  <2> QED BY <1>0, <1>1, <2>1, <2>2, <2>3, TickFields, PubStepTypes
<1> QED BY <1>5, <1>6

LEMMA TickEndTypes == PubInv /\ (TickEnd \/ TickAbandoned) => PubInv'
<1> SUFFICES ASSUME PubInv, TickEnd \/ TickAbandoned
             PROVE  PubInv'
  OBVIOUS
<1>0. TypeOK /\ MaxFailures \in Nat
  BY PublisherConstants DEF PubInv
<1>1. /\ tick.acked \in {0} \cup DOMAIN rows /\ cursor \in {0} \cup DOMAIN rows
      /\ court \subseteq CourtRow /\ failures \in 0..MaxFailures
  BY <1>0 DEF PubInv, TypeOK, CursorIsRow
<1>2. UNCHANGED localVars /\ tick' = NoTick
  BY DEF TickEnd, TickAbandoned
<1>3. cursor' \in {0} \cup DOMAIN rows
  BY <1>1 DEF TickEnd, TickAbandoned
<1>4. court' \subseteq CourtRow /\ failures' \in 0..MaxFailures
  <2>1. CASE TickEnd
    BY <1>1, <2>1 DEF TickEnd
  <2>2. CASE TickAbandoned
    BY <1>0, <1>1, <2>2, ReplicatedFields DEF TickAbandoned
  <2> QED BY <2>1, <2>2
<1> QED BY <1>2, <1>3, <1>4, NoTickFields, PubStepTypes

LEMMA PubInitially == Init => PubInv
<1> SUFFICES ASSUME Init
             PROVE  PubInv
  OBVIOUS
<1>1. LocalInv
  BY LocalInitially DEF Init
<1>2. cursor = 0 /\ tick = NoTick /\ court = {} /\ failures = 0
  BY DEF Init
<1>3. TypeOK
  BY <1>1, <1>2, NoTickFields, PublisherConstants DEF TypeOK, LocalInv, ChainInv
<1>4. CursorIsRow
  BY <1>2, NoTickFields DEF CursorIsRow
<1> QED BY <1>1, <1>3, <1>4 DEF PubInv

LEMMA PubStutter == PubInv /\ UNCHANGED vars => PubInv'
<1> SUFFICES ASSUME PubInv, UNCHANGED vars
             PROVE  PubInv'
  OBVIOUS
<1>1. UNCHANGED <<localVars, cursor, tick, court, failures>>
  BY DEF vars, localVars
<1> QED BY <1>1, PubStepTypes DEF PubInv, TypeOK, CursorIsRow

LEMMA PubNext == PubInv /\ [Next]_vars => PubInv'
<1> SUFFICES ASSUME PubInv, [Next]_vars
             PROVE  PubInv'
  OBVIOUS
<1>1. CASE LocalNext /\ UNCHANGED <<cursor, tick, court, failures>>
  BY <1>1, PubLocalStep
<1>2. CASE TickStart
  BY <1>2, TickStartTypes
<1>3. CASE \E b \in tick.batches : BatchAccepted(b) \/ BatchFailed(b)
  BY <1>3, BatchTypes
<1>4. CASE TickEnd \/ TickAbandoned
  BY <1>4, TickEndTypes
<1>5. CASE Idle \/ UNCHANGED vars
  BY <1>5, PubStutter DEF Idle
<1> QED BY <1>1, <1>2, <1>3, <1>4, <1>5 DEF Next, PublisherStep

-----------------------------------------------------------------------------
(***************************************************************************)
(* verify_local_chain passes.                                              *)
(***************************************************************************)

\* Rows of one org with one chain_seq are one row.
LEMMA SeqNamesRow ==
    ASSUME ChainInv, NEW i \in DOMAIN rows, NEW j \in DOMAIN rows,
           rows[i].org = rows[j].org, rows[i].seq = rows[j].seq
    PROVE  i = j
<1>1. i \in Nat /\ j \in Nat /\ rows[i].seq \in Nat /\ rows[j].seq \in Nat
  BY RowFields DEF ChainInv
<1>2. (i < j <=> rows[i].seq < rows[j].seq) /\ (j < i <=> rows[j].seq < rows[i].seq)
  BY DEF ChainInv, OrgIdsInOrder
<1> QED BY <1>1, <1>2

LEMMA ChainsPass == ChainInv => LocalChainsVerify
<1> SUFFICES ASSUME ChainInv, NEW o \in Org
             PROVE  VerifyLocalChain(o)
  BY DEF LocalChainsVerify
<1>0. \A i \in OrgIds(o) : i \in DOMAIN rows /\ rows[i].org = o
                             /\ rows[i].seq \in Nat /\ rows[i].seq >= 1
  BY RowFields DEF OrgIds, ChainInv
<1> DEFINE Before(i) == {j \in OrgIds(o) : rows[j].seq < rows[i].seq}
           Expected(i) ==
              IF Before(i) = {} THEN NoHash
              ELSE rows[CHOOSE j \in Before(i) :
                          \A k \in Before(i) : rows[k].seq <= rows[j].seq].hash
<1>1. ASSUME NEW i \in OrgIds(o)
      PROVE  /\ rows[i].previous = Expected(i)
             /\ rows[i].hash = EntryHash(rows[i].seq, rows[i].event, rows[i].previous)
  <2>1. rows[i].hash = EntryHash(rows[i].seq, rows[i].event, rows[i].previous)
    BY <1>0 DEF ChainInv, RowsLinked
  <2>2. CASE rows[i].seq = 1
    <3>1. Before(i) = {}
      BY <1>0, <2>2
    <3>2. rows[i].previous = NoHash
      BY <1>0, <2>2 DEF ChainInv, RowsLinked
    <3> QED BY <2>1, <3>1, <3>2
  <2>3. CASE rows[i].seq # 1
    <3>1. rows[i].seq - 1 \in 1..rows[i].seq
      BY <1>0, <2>3
    <3>2. PICK p \in DOMAIN rows : rows[p].org = o /\ rows[p].seq = rows[i].seq - 1
      BY <1>0, <3>1 DEF ChainInv, SeqsFilled
    <3>3. p \in Before(i)
      BY <1>0, <3>2 DEF OrgIds
    <3>4. \A k \in Before(i) : rows[k].seq <= rows[p].seq
      BY <1>0, <3>2
    <3>5. PICK q \in Before(i) :
            /\ \A k \in Before(i) : rows[k].seq <= rows[q].seq
            /\ Expected(i) = rows[q].hash
      BY <3>3, <3>4
    <3>6. rows[q].seq = rows[p].seq /\ rows[q].org = o /\ q \in DOMAIN rows
      BY <1>0, <3>2, <3>3, <3>4, <3>5
    <3>7. q = p
      BY <3>2, <3>6, SeqNamesRow
    <3>8. rows[i].seq = rows[p].seq + 1
      BY <1>0, <3>2
    <3>9. rows[i].previous = rows[p].hash
      BY <1>0, <3>2, <3>8 DEF ChainInv, RowsLinked
    <3> QED BY <2>1, <3>5, <3>7, <3>9
  <2> QED BY <2>2, <2>3
<1> QED BY <1>1 DEF VerifyLocalChain

-----------------------------------------------------------------------------
(***************************************************************************)
(* Delivery, with one org.                                                 *)
(***************************************************************************)

\* What the Court holds under a row's (org, chain_seq) is that row.
LEMMA CourtAgrees ==
    ASSUME PubInv, ReplicaIsPrefix, NEW i \in DOMAIN rows, NEW c \in court,
           c.org = rows[i].org, c.seq = rows[i].seq
    PROVE  AtCourt(i)
<1>1. PICK j \in OrgIds(c.org) : rows[j].seq = c.seq /\ rows[j].hash = c.hash
  BY DEF ReplicaIsPrefix
<1>2. j \in DOMAIN rows /\ rows[j].org = rows[i].org
  BY DEF OrgIds
<1>3. j = i
  BY <1>1, <1>2, SeqNamesRow DEF PubInv, LocalInv
<1>4. c \in CourtRow
  BY DEF PubInv, TypeOK
<1>5. c = [org |-> c.org, seq |-> c.seq, hash |-> c.hash]
  BY <1>4 DEF CourtRow
<1> QED BY <1>1, <1>3, <1>5 DEF AtCourt

\* A batch leaves nothing out above the cursor, so storing it keeps the
\* replica a prefix; and all its rows are there.
LEMMA ReplicatedDelivery ==
    ASSUME OneOrg, PubInv, DeliveryInv, NEW b \in tick.batches,
           court' = Replicated(b), rows' = rows
    PROVE  /\ \A i \in DOMAIN rows : AtCourt(i) => AtCourt(i)'
           /\ \A i \in b.ids : AtCourt(i)'
           /\ \A i \in b.ids, j \in DOMAIN rows : j <= i => AtCourt(j)'
           /\ ReplicaIsPrefix'
<1>0. /\ TypeOK /\ b.ids \subseteq DOMAIN rows /\ LocalTypeOK /\ cursor \in Nat /\ ChainInv
      /\ ReplicaIsPrefix
  BY DEF PubInv, TypeOK, LocalInv, ChainInv, DeliveryInv
<1>1. court \subseteq court'
  BY <1>0, ReplicatedFields
<1>2. \A i \in DOMAIN rows : AtCourt(i) => AtCourt(i)'
  BY <1>1 DEF AtCourt
<1>3. ASSUME NEW i \in b.ids
      PROVE  AtCourt(i)'
  <2>1. CASE \E c \in court : c.org = rows[i].org /\ c.seq = rows[i].seq
    BY <1>0, <1>2, <2>1, CourtAgrees
  <2>2. CASE \A c \in court : <<c.org, c.seq>> # <<rows[i].org, rows[i].seq>>
    BY <2>2 DEF Replicated, AtCourt
  <2> QED BY <2>1, <2>2
<1>4. ASSUME NEW i \in b.ids, NEW j \in DOMAIN rows, j <= i
      PROVE  AtCourt(j)'
  <2>1. i \in Nat /\ j \in Nat
    BY <1>0, RowFields
  <2>2. CASE j <= cursor
    BY <1>2, <2>2 DEF DeliveryInv, NothingSkipped
  <2>3. CASE cursor < j /\ j < i
    BY <1>3, <2>3 DEF DeliveryInv, BatchesClosed
  <2>4. CASE j = i
    BY <1>3, <2>4
  <2> QED BY <1>0, <1>4, <2>1, <2>2, <2>3, <2>4
<1>5. ReplicaIsPrefix'
  <2> SUFFICES ASSUME NEW c \in court'
               PROVE  /\ \E i \in OrgIds(c.org) : rows[i].seq = c.seq /\ rows[i].hash = c.hash
                      /\ \A i \in OrgIds(c.org) : rows[i].seq < c.seq => AtCourt(i)'
    BY DEF ReplicaIsPrefix, OrgIds
  <2>1. CASE c \in court
    <3>1. /\ \E i \in OrgIds(c.org) : rows[i].seq = c.seq /\ rows[i].hash = c.hash
          /\ \A i \in OrgIds(c.org) : rows[i].seq < c.seq => AtCourt(i)
      BY <1>0, <2>1 DEF ReplicaIsPrefix
    <3>2. OrgIds(c.org) \subseteq DOMAIN rows
      BY DEF OrgIds
    <3> QED BY <1>2, <3>1, <3>2
  <2>2. CASE c \notin court
    <3>1. PICK i \in b.ids :
            c = [org |-> rows[i].org, seq |-> rows[i].seq, hash |-> rows[i].hash]
      BY <2>2 DEF Replicated
    <3>2. c.org = rows[i].org /\ c.seq = rows[i].seq /\ c.hash = rows[i].hash
      BY <3>1
    <3>3. i \in DOMAIN rows /\ i \in OrgIds(c.org)
      BY <1>0, <3>2 DEF OrgIds
    <3>4. ASSUME NEW j \in OrgIds(c.org), rows[j].seq < c.seq
          PROVE  AtCourt(j)'
      <4>1. j \in DOMAIN rows /\ rows[j].org = rows[i].org
        BY <3>2 DEF OrgIds
      <4>2. j < i
        BY <1>0, <3>2, <3>3, <3>4, <4>1 DEF ChainInv, OrgIdsInOrder
      <4>3. j \in Nat /\ i \in Nat
        BY <1>0, <3>3, <4>1, RowFields
      <4> QED BY <1>4, <4>1, <4>2, <4>3
    <3> QED BY <3>2, <3>3, <3>4
  <2> QED BY <2>1, <2>2
<1> QED BY <1>2, <1>3, <1>4, <1>5

\* New rows come behind everything that was read, sent or acknowledged.
LEMMA DeliveryLocalStep ==
    ASSUME OneOrg, PubInv, DeliveryInv, LocalNext, UNCHANGED <<cursor, tick, court, failures>>
    PROVE  DeliveryInv'
<1>0. LocalInv /\ LocalTypeOK /\ ChainInv /\ TypeOK
  BY DEF PubInv, LocalInv, ChainInv
<1>1. CASE rows' = rows
  BY <1>1 DEF DeliveryInv, NothingSkipped, AckedDelivered, BatchesClosed, ReplicaIsPrefix,
              AtCourt, OrgIds
<1>2. CASE rows' # rows
  <2>1. PICK n \in DOMAIN rows' :
          /\ DOMAIN rows' = DOMAIN rows \cup {n} /\ n \in Nat /\ 1 <= n
          /\ \A i \in DOMAIN rows : i # n /\ rows'[i] = rows[i]
          /\ \A i \in DOMAIN rows : rows[i].org = rows'[n].org =>
                i < n /\ rows[i].seq < rows'[n].seq
    BY <1>0, <1>2, RowsAfter
  <2>2. LocalTypeOK'
    BY <1>0, LocalStep DEF LocalInv, ChainInv
  <2>3. rows'[n].org \in Org /\ rows'[n].seq \in Nat
    BY <2>1, <2>2 DEF LocalTypeOK, LocalRow
  <2>4. \A i \in DOMAIN rows : /\ i < n /\ i \in Nat /\ rows[i].seq \in Nat
                               /\ rows[i].seq < rows'[n].seq
    BY <1>0, <2>1, <2>3, RowFields DEF OneOrg
  <2>5. \A i \in DOMAIN rows : AtCourt(i) => AtCourt(i)'
    BY <2>1 DEF AtCourt
  <2>6. cursor < n /\ tick.acked < n
    BY <2>1, <2>4 DEF PubInv, CursorIsRow
  <2>7. cursor \in Nat /\ tick.acked \in Nat
    BY <1>0, TickFields DEF TypeOK
  <2>8. NothingSkipped' /\ AckedDelivered'
    BY <2>1, <2>5, <2>6, <2>7 DEF DeliveryInv, NothingSkipped, AckedDelivered
  <2>9. BatchesClosed'
    <3> SUFFICES ASSUME NEW b \in tick.batches, NEW i \in b.ids, NEW j \in DOMAIN rows',
                        cursor < j, j < i
                 PROVE  j \in b.ids
      BY DEF BatchesClosed
    <3>1. i \in DOMAIN rows
      BY <1>0, TickFields
    <3>2. j # n
      BY <2>1, <2>4, <3>1
    <3>3. j \in DOMAIN rows
      BY <2>1, <3>2
    <3> QED BY <3>3 DEF DeliveryInv, BatchesClosed
  <2>10. ReplicaIsPrefix'
    <3> SUFFICES ASSUME NEW c \in court
                 PROVE  /\ \E i \in OrgIds(c.org)' : rows'[i].seq = c.seq /\ rows'[i].hash = c.hash
                        /\ \A i \in OrgIds(c.org)' : rows'[i].seq < c.seq => AtCourt(i)'
      BY DEF ReplicaIsPrefix, OrgIds
    <3>1. PICK k \in OrgIds(c.org) : rows[k].seq = c.seq /\ rows[k].hash = c.hash
      BY DEF DeliveryInv, ReplicaIsPrefix
    <3>2. k \in DOMAIN rows /\ k \in OrgIds(c.org)' /\ rows'[k] = rows[k]
      BY <2>1 DEF OrgIds
    <3>3. ASSUME NEW i \in OrgIds(c.org)', rows'[i].seq < c.seq
          PROVE  AtCourt(i)'
      <4>1. i # n
        BY <2>3, <2>4, <3>1, <3>2, <3>3
      <4>2. i \in DOMAIN rows /\ i \in OrgIds(c.org) /\ rows'[i] = rows[i]
        BY <2>1, <4>1 DEF OrgIds
      <4>3. AtCourt(i)
        BY <3>3, <4>2 DEF DeliveryInv, ReplicaIsPrefix
      <4> QED BY <2>5, <4>2, <4>3
    <3> QED BY <3>1, <3>2, <3>3
  <2> QED BY <2>8, <2>9, <2>10 DEF DeliveryInv
<1> QED BY <1>1, <1>2

\* _fetch_pending leaves nothing out.
LEMMA FetchIsClosed ==
    ASSUME PubInv, NEW i \in FetchPending(cursor), NEW j \in DOMAIN rows, cursor < j, j < i
    PROVE  j \in FetchPending(cursor)
<1>0. LocalTypeOK /\ IdsHandedOut /\ nextId \in Nat /\ cursor \in Nat /\ MaxBatch \in Nat
  BY PublisherConstants DEF PubInv, LocalInv, ChainInv, TypeOK, LocalTypeOK
<1> DEFINE Below(k) == {h \in DOMAIN rows : cursor < h /\ h < k}
<1>1. i \in DOMAIN rows /\ i \in Nat /\ j \in Nat /\ Cardinality(Below(i)) < MaxBatch
  BY <1>0, RowFields DEF FetchPending
<1>2. Below(j) \in SUBSET Below(i)
  BY <1>0, <1>1, RowFields
<1>3. IsFiniteSet(Below(i))
  <2>1. Below(i) \in SUBSET (0..nextId)
    BY <1>0, RowFields DEF IdsHandedOut
  <2>2. IsFiniteSet(0..nextId)
    BY <1>0, FS_Interval
  <2> HIDE DEF Below
  <2> QED BY <2>1, <2>2, FS_Subset
<1>4. /\ Cardinality(Below(j)) <= Cardinality(Below(i))
      /\ Cardinality(Below(j)) \in Nat /\ Cardinality(Below(i)) \in Nat
  <2> HIDE DEF Below
  <2>1. IsFiniteSet(Below(j)) /\ Cardinality(Below(j)) <= Cardinality(Below(i))
    BY <1>2, <1>3, FS_Subset
  <2> QED BY <1>3, <2>1, FS_CardinalityType
<1>5. Cardinality(Below(j)) < MaxBatch
  BY <1>0, <1>1, <1>4
<1> QED BY <1>0, <1>1, <1>5 DEF FetchPending

LEMMA DeliveryTickStart ==
    ASSUME OneOrg, PubInv, DeliveryInv, TickStart
    PROVE  DeliveryInv'
<1>0. TypeOK /\ LocalTypeOK
  BY DEF PubInv, TypeOK
<1>1. PICK B : B = GroupByOrg(FetchPending(cursor))
  OBVIOUS
<1>2. /\ rows' = rows /\ cursor' = cursor /\ court' = court
      /\ tick' = [phase |-> "sending", batches |-> B, acked |-> cursor]
  BY <1>1 DEF TickStart, localVars
<1>3. tick'.batches = B /\ tick'.acked = cursor
  BY <1>2
<1>4. NothingSkipped' /\ AckedDelivered' /\ ReplicaIsPrefix'
  BY <1>2, <1>3
     DEF DeliveryInv, NothingSkipped, AckedDelivered, ReplicaIsPrefix, AtCourt, OrgIds
<1>5. BatchesClosed'
  <2> SUFFICES ASSUME NEW b \in B, NEW i \in b.ids, NEW j \in DOMAIN rows, cursor < j, j < i
               PROVE  j \in b.ids
    BY <1>2, <1>3 DEF BatchesClosed
  <2>1. /\ b.ids = FetchPending(cursor) \cap OrgIds(b.org) /\ b.ids \subseteq DOMAIN rows
    BY <1>0, <1>1, GroupFields
  <2>2. j \in FetchPending(cursor)
    BY <2>1, FetchIsClosed
  <2>3. rows[j].org = rows[i].org
    BY <1>0, <2>1, RowFields DEF OneOrg
  <2>4. j \in OrgIds(b.org)
    BY <2>1, <2>3 DEF OrgIds
  <2> QED BY <2>1, <2>2, <2>4
<1> QED BY <1>4, <1>5 DEF DeliveryInv

LEMMA DeliveryBatch ==
    ASSUME OneOrg, PubInv, DeliveryInv, NEW b \in tick.batches,
           BatchAccepted(b) \/ BatchFailed(b)
    PROVE  DeliveryInv'
<1>0. TypeOK /\ tick \in TickState /\ LocalTypeOK
  BY DEF PubInv, TypeOK
<1>1. rows' = rows /\ cursor' = cursor /\ tick'.batches = tick.batches \ {b}
  BY <1>0 DEF BatchAccepted, BatchFailed, localVars, TickState
<1>2. BatchesClosed'
  BY <1>1 DEF DeliveryInv, BatchesClosed
<1>3. CASE court' = court /\ tick'.acked = tick.acked
  <2>1. NothingSkipped' /\ AckedDelivered' /\ ReplicaIsPrefix'
    BY <1>1, <1>3
       DEF DeliveryInv, NothingSkipped, AckedDelivered, ReplicaIsPrefix, AtCourt, OrgIds
  <2> QED BY <1>2, <2>1 DEF DeliveryInv
<1>4. CASE court' = Replicated(b)
  <2>1. /\ \A i \in DOMAIN rows : AtCourt(i) => AtCourt(i)'
        /\ \A i \in b.ids, j \in DOMAIN rows : j <= i => AtCourt(j)'
        /\ ReplicaIsPrefix'
    BY <1>1, <1>4, ReplicatedDelivery
  <2>2. NothingSkipped'
    BY <1>1, <2>1 DEF DeliveryInv, NothingSkipped
  <2>3. tick'.acked \in b.ids \cup {tick.acked}
    <3>1. CASE BatchAccepted(b)
      <4>1. tick'.acked = MaxIdAcked(tick.acked, b.ids)
        BY <1>0, <3>1 DEF BatchAccepted, TickState
      <4> QED BY <4>1, MaxIdAckedFields
    <3>2. CASE BatchFailed(b)
      BY <1>0, <3>2 DEF BatchFailed, TickState
    <3> QED BY <3>1, <3>2
  <2>4. AckedDelivered'
    BY <1>1, <2>1, <2>3 DEF DeliveryInv, AckedDelivered
  <2> QED BY <1>2, <2>1, <2>2, <2>4 DEF DeliveryInv
<1>5. \/ court' = court /\ tick'.acked = tick.acked
      \/ court' = Replicated(b)
  BY <1>0 DEF BatchAccepted, BatchFailed, TickState
<1> QED BY <1>3, <1>4, <1>5

LEMMA DeliveryTickEnd ==
    ASSUME OneOrg, PubInv, DeliveryInv, TickEnd \/ TickAbandoned
    PROVE  DeliveryInv'
<1>1. rows' = rows /\ tick' = NoTick
  BY DEF TickEnd, TickAbandoned, localVars
<1>2. BatchesClosed'
  BY <1>1, NoTickFields DEF BatchesClosed
<1>3. ASSUME NEW i \in DOMAIN rows'
      PROVE  ~(i <= tick'.acked)
  <2>1. 1 <= i /\ i \in Nat
    BY <1>1, <1>3, RowFields DEF PubInv, LocalInv, ChainInv, IdsHandedOut
  <2> QED BY <1>1, <2>1, NoTickFields
<1>4. AckedDelivered'
  BY <1>3 DEF AckedDelivered
<1>5. CASE TickEnd
  <2>1. court' = court /\ cursor' \in {cursor, tick.acked}
    BY <1>5 DEF TickEnd
  <2>2. NothingSkipped' /\ ReplicaIsPrefix'
    BY <1>1, <2>1
       DEF DeliveryInv, NothingSkipped, AckedDelivered, ReplicaIsPrefix, AtCourt, OrgIds
  <2> QED BY <1>2, <1>4, <2>2 DEF DeliveryInv
<1>6. CASE TickAbandoned
  <2>1. cursor' = cursor
    BY <1>6 DEF TickAbandoned
  <2>2. CASE court' = court
    <3>1. NothingSkipped' /\ ReplicaIsPrefix'
      BY <1>1, <2>1, <2>2 DEF DeliveryInv, NothingSkipped, ReplicaIsPrefix, AtCourt, OrgIds
    <3> QED BY <1>2, <1>4, <3>1 DEF DeliveryInv
  <2>3. CASE court' # court
    <3>1. PICK b \in tick.batches : court' = Replicated(b)
      BY <1>6, <2>3 DEF TickAbandoned
    <3>2. (\A i \in DOMAIN rows : AtCourt(i) => AtCourt(i)') /\ ReplicaIsPrefix'
      BY <1>1, <3>1, ReplicatedDelivery
    <3>3. NothingSkipped'
      BY <1>1, <2>1, <3>2 DEF DeliveryInv, NothingSkipped
    <3> QED BY <1>2, <1>4, <3>2, <3>3 DEF DeliveryInv
  <2> QED BY <2>2, <2>3
<1> QED BY <1>5, <1>6

LEMMA DeliveryNext == OneOrg /\ PubInv /\ DeliveryInv /\ [Next]_vars => DeliveryInv'
<1> SUFFICES ASSUME OneOrg, PubInv, DeliveryInv, [Next]_vars
             PROVE  DeliveryInv'
  OBVIOUS
<1>1. CASE LocalNext /\ UNCHANGED <<cursor, tick, court, failures>>
  BY <1>1, DeliveryLocalStep
<1>2. CASE TickStart
  BY <1>2, DeliveryTickStart
<1>3. CASE \E b \in tick.batches : BatchAccepted(b) \/ BatchFailed(b)
  BY <1>3, DeliveryBatch
<1>4. CASE TickEnd \/ TickAbandoned
  BY <1>4, DeliveryTickEnd
<1>5. CASE UNCHANGED vars
  BY <1>5 DEF vars, DeliveryInv, NothingSkipped, AckedDelivered, BatchesClosed,
              ReplicaIsPrefix, AtCourt, OrgIds
<1> QED BY <1>1, <1>2, <1>3, <1>4, <1>5 DEF Next, PublisherStep, Idle

LEMMA DeliveryInitially == Init => DeliveryInv
<1> SUFFICES ASSUME Init
             PROVE  DeliveryInv
  OBVIOUS
<1>1. DOMAIN rows = {} /\ tick = NoTick /\ court = {}
  BY DEF Init, LocalInit
<1> QED BY <1>1, NoTickFields
        DEF DeliveryInv, NothingSkipped, AckedDelivered, BatchesClosed, ReplicaIsPrefix

-----------------------------------------------------------------------------
(***************************************************************************)
(* Theorems.                                                               *)
(***************************************************************************)

LEMMA PubInvHolds == Spec => []PubInv
BY PubInitially, PubNext, PTL DEF Spec

\* Shape of the local rows, of the appends in progress, of the tick and of the
\* Court's replica; append_local_audit never goes past _MAX_CHAIN_RETRIES.
THEOREM TypeCorrect == Spec => []TypeOK
<1>1. PubInv => TypeOK
  BY DEF PubInv
<1> QED BY <1>1, PubInvHolds, PTL

\* However the workers' appends, collisions, retries and rollbacks interleave,
\* verify_local_chain accepts every org's rows.
THEOREM ChainsAlwaysVerify == Spec => []LocalChainsVerify
<1>1. PubInv => LocalChainsVerify
  BY ChainsPass DEF PubInv, LocalInv
<1> QED BY <1>1, PubInvHolds, PTL

\* Ids of one org become visible in the order of chain_seq, although ids are
\* handed out before the commit: the uncommitted (org, seq) blocks the next one.
THEOREM IdsFollowSeq == Spec => []OrgIdsInOrder
<1>1. PubInv => OrgIdsInOrder
  BY DEF PubInv, LocalInv, ChainInv
<1> QED BY <1>1, PubInvHolds, PTL

LEMMA DeliveryInvHolds ==
    ASSUME OneOrg
    PROVE  Spec => []DeliveryInv
<1>1. Init => PubInv /\ DeliveryInv
  BY PubInitially, DeliveryInitially
<1>2. PubInv /\ DeliveryInv /\ [Next]_vars => (PubInv /\ DeliveryInv)'
  BY PubNext, DeliveryNext
<1> QED BY <1>1, <1>2, PTL DEF Spec

\* When one org writes local_audit, the cursor of _tick never passes a row the
\* Court does not have, through failed batches, timeouts and abandoned ticks.
THEOREM CursorSkipsNothing ==
    ASSUME OneOrg
    PROVE  Spec => []NothingSkipped
<1>1. DeliveryInv => NothingSkipped
  BY DEF DeliveryInv
<1> QED BY <1>1, DeliveryInvHolds, PTL

\* When one org writes local_audit, the Court's replica is a gap-free prefix of
\* the local chain, whatever was sent twice, lost or served after a timeout.
THEOREM ReplicaStaysPrefix ==
    ASSUME OneOrg
    PROVE  Spec => []ReplicaIsPrefix
<1>1. DeliveryInv => ReplicaIsPrefix
  BY DEF DeliveryInv
<1> QED BY <1>1, DeliveryInvHolds, PTL
=============================================================================
