------------------------- MODULE AgentRegistryProofs -------------------------
(***************************************************************************)
(* Proofs about AgentRegistry, for any number of changes, events and       *)
(* faults: types with the order of the two revisions, and that a row       *)
(* marked as pushed is what the Court holds, but for the listed excuses.   *)
(***************************************************************************)
EXTENDS AgentRegistry, WellFoundedInduction, NaturalsInduction, TLAPS

-----------------------------------------------------------------------------
(***************************************************************************)
(* The inductive invariant.  A mark is right if the row has not moved past *)
(* what was read, or has moved past it visibly (PushUnderWay), and if an   *)
(* accepted body is still there when the row is marked (AcceptedAtCourt).  *)
(***************************************************************************)

BornCounted == born <= changes

\* A push has read this row: what is to be marked is not ahead of the row,
\* and equal revisions mean equal bodies.
PushUnderWay ==
    pub.at # "idle" /\ Exists /\ "reborn" \notin excused =>
        /\ pub.body.revision <= row.revision
        /\ row.pushed < row.revision
        /\ pub.body.revision = row.revision /\ excused \cap Unannounced = {} => pub.body = Body

\* Between the Court's answer and the mark.
AcceptedAtCourt ==
    pub.at = "mark" /\ pub.ok /\ "late" \notin excused => court = pub.body

CourtInv == TypeOK /\ BornCounted /\ PushUnderWay /\ AcceptedAtCourt /\ CourtCurrent

-----------------------------------------------------------------------------
(***************************************************************************)
(* Facts about the records.                                                *)
(***************************************************************************)

\* A set of positions has a largest one.
LEMMA LargestPosition ==
    ASSUME NEW n \in Nat, NEW S, S \subseteq 1..n, S # {}
    PROVE  Max(S) \in S
<1> DEFINE T == {n - i : i \in S}
<1>1. T \subseteq Nat /\ T # {}
  <2>1. \A i \in S : i \in 1..n /\ n - i \in Nat
    OBVIOUS
  <2>2. PICK i \in S : TRUE
    OBVIOUS
  <2>3. n - i \in T
    BY <2>2
  <2> QED BY <2>1, <2>3
<1>2. PICK x \in T : \A y \in T : ~(<<y, x>> \in OpToRel(<, Nat))
  BY <1>1, NatLessThanWellFounded, WFMin
<1>3. \A y \in T : ~(y < x)
  BY <1>1, <1>2 DEF OpToRel
<1>4. PICK i \in S : x = n - i
  OBVIOUS
<1>5. \A j \in S : i >= j
  BY <1>3, <1>4
<1> QED BY <1>5 DEF Max

\* The row in use, and the body made of it.
LEMMA RowFields ==
    ASSUME TypeOK, Exists
    PROVE  /\ row \in Rows
           /\ row.born \in 1..born /\ row.revision \in Nat /\ row.pushed \in Nat
           /\ row.cert \in Nat /\ row.active \in BOOLEAN /\ row.revoked \in BOOLEAN
           /\ row.federated \in BOOLEAN /\ row.federatedAt \in BOOLEAN
           /\ Body \in Bodies
           /\ Body.revision = row.revision
BY DEF TypeOK, Exists, Rows, Body, Bodies

LEMMA RowsExist == \A r \in Rows : r # NoRow
BY DEF Rows, NoRow

\* A push under way.
LEMMA PubFields ==
    ASSUME TypeOK
    PROVE  /\ pub.at \in {"idle", "post", "mark"}
           /\ pub.at = "idle" => pub = [at |-> "idle"]
           /\ pub.at # "idle" => pub.body \in Bodies /\ pub.body.revision \in Nat
           /\ pub.at = "mark" => pub.ok \in BOOLEAN
BY DEF TypeOK, Bodies

\* Types depend on how many rows there have been, which only grows.
LEMMA MoreBorn ==
    ASSUME born \in Nat, born' \in Nat, born <= born'
    PROVE  Rows \subseteq Rows' /\ Bodies \subseteq Bodies'
BY DEF Rows, Bodies

-----------------------------------------------------------------------------
(***************************************************************************)
(* Operations on the row.                                                  *)
(***************************************************************************)

\* A new row: what a push under way has read is not this row.
LEMMA CreateCourt == CourtInv /\ Create => CourtInv'
<1> SUFFICES ASSUME CourtInv, Create
             PROVE  CourtInv'
  OBVIOUS
<1>0. TypeOK
  BY DEF CourtInv
<1>1. PICK f \in BOOLEAN, v \in {0, 1} :
        row' = [born |-> born + 1, active |-> TRUE, revoked |-> FALSE, federated |-> f,
                federatedAt |-> FALSE, revision |-> v, pushed |-> 0, cert |-> 0]
  <2>1. PICK new \in {<<TRUE, 1>>, <<FALSE, 1>>, <<FALSE, 0>>} :
          row' = [born |-> born', active |-> TRUE, revoked |-> FALSE, federated |-> new[1],
                  federatedAt |-> FALSE, revision |-> new[2], pushed |-> 0, cert |-> 0]
    BY DEF Create
  <2>2. born' = born + 1
    BY DEF Create
  <2>3. CASE new = <<TRUE, 1>>
    BY <2>1, <2>2, <2>3
  <2>4. CASE new = <<FALSE, 1>>
    BY <2>1, <2>2, <2>4
  <2>5. CASE new = <<FALSE, 0>>
    BY <2>1, <2>2, <2>5
  <2> QED BY <2>3, <2>4, <2>5
<1>2. /\ born' = born + 1 /\ changes' = changes + 1 /\ changes < MaxChanges
      /\ UNCHANGED <<pubVars, quarVars, mode, faults>>
      /\ excused' = (excused \ Unannounced) \cup (IF pub.at = "idle" THEN {} ELSE {"reborn"})
  BY DEF Create, Change
<1>3. born \in Nat /\ changes \in Nat /\ born <= changes /\ MaxChanges \in Nat
  BY RegistryBounds DEF CourtInv, TypeOK, BornCounted
<1>4. Rows \subseteq Rows' /\ Bodies \subseteq Bodies'
  BY <1>2, <1>3, MoreBorn
<1>5. row' \in Rows' /\ row'.federatedAt = FALSE /\ row'.pushed = 0 /\ row'.revision \in Nat
  BY <1>1, <1>2, <1>3 DEF Rows
<1>6. excused' \subseteq Excuses
  BY <1>0, <1>2 DEF TypeOK, Excuses
<1>7. TypeOK' /\ BornCounted'
  BY <1>0, <1>2, <1>3, <1>4, <1>5, <1>6
     DEF TypeOK, BornCounted, pubVars, quarVars
<1>8. PushUnderWay'
  BY <1>2 DEF PushUnderWay, pubVars
<1>9. AcceptedAtCourt'
  BY <1>2 DEF CourtInv, AcceptedAtCourt, pubVars, Unannounced
<1>10. CourtCurrent'
  BY <1>5 DEF CourtCurrent
<1> QED BY <1>7, <1>8, <1>9, <1>10 DEF CourtInv

\* A change that bumps the revision is ahead of every push under way.
LEMMA BumpCourt ==
    ASSUME CourtInv, NEW new, Bump(new), new \in Rows,
           new.revision = row.revision, new.pushed = row.pushed
    PROVE  CourtInv'
<1>0. TypeOK
  BY DEF CourtInv
<1>1. /\ row' = [new EXCEPT !.revision = new.revision + 1] /\ Exists
      /\ changes' = changes + 1 /\ changes < MaxChanges /\ born' = born
      /\ UNCHANGED <<pubVars, quarVars, mode, faults>>
      /\ excused' = excused \ Unannounced
  BY DEF Bump, Change
<1>2. row' \in Rows /\ row'.revision = row.revision + 1 /\ row'.pushed = row.pushed
  BY <1>1 DEF Rows
<1>3. row.revision \in Nat /\ row.pushed \in Nat
  BY <1>0, <1>1, RowFields
<1>4. Rows' = Rows /\ Bodies' = Bodies
  BY <1>1 DEF Rows, Bodies
<1>5. TypeOK' /\ BornCounted'
  BY <1>0, <1>1, <1>2, <1>3, <1>4, RegistryBounds
     DEF CourtInv, TypeOK, BornCounted, pubVars, quarVars, Unannounced
<1>6. PushUnderWay'
  BY <1>0, <1>1, <1>2, <1>3, PubFields DEF CourtInv, PushUnderWay, pubVars, Unannounced
<1>7. AcceptedAtCourt'
  BY <1>1 DEF CourtInv, AcceptedAtCourt, pubVars, Unannounced
<1>8. row.pushed <= row.revision \/ "reborn" \in excused'
  BY <1>0, <1>1 DEF TypeOK, Unannounced
<1>9. CourtCurrent'
  BY <1>2, <1>3, <1>8 DEF CourtCurrent
<1> QED BY <1>5, <1>6, <1>7, <1>9 DEF CourtInv

LEMMA ChangeCourt ==
    ASSUME CourtInv,
           \/ \E f \in BOOLEAN : SetFederated(f)
           \/ SetCapabilities \/ Deactivate \/ Revoke \/ Reenroll
    PROVE  CourtInv'
<1>0. TypeOK
  BY DEF CourtInv
<1>1. Exists
  BY DEF SetFederated, SetCapabilities, Deactivate, Revoke, Reenroll, Bump
<1>2. row \in Rows
  BY <1>0, <1>1, RowFields
<1>3. \A f \in BOOLEAN :
        LET new == [row EXCEPT !.federated = f]
        IN  new \in Rows /\ new.revision = row.revision /\ new.pushed = row.pushed
  BY <1>2 DEF Rows
<1>4. \A f \in BOOLEAN :
        LET new == [row EXCEPT !.active = f]
        IN  new \in Rows /\ new.revision = row.revision /\ new.pushed = row.pushed
  BY <1>2 DEF Rows
<1>5. LET new == [row EXCEPT !.active = FALSE, !.revoked = TRUE]
      IN  new \in Rows /\ new.revision = row.revision /\ new.pushed = row.pushed
  BY <1>2 DEF Rows
<1>6. CASE \E f \in BOOLEAN : SetFederated(f)
  BY <1>3, <1>6, BumpCourt DEF SetFederated
<1>7. CASE SetCapabilities
  BY <1>2, <1>7, BumpCourt DEF SetCapabilities
<1>8. CASE Deactivate \/ Reenroll
  BY <1>4, <1>8, BumpCourt DEF Deactivate, Reenroll
<1>9. CASE Revoke
  BY <1>5, <1>9, BumpCourt DEF Revoke
<1> QED BY <1>6, <1>7, <1>8, <1>9

\* The certificate changes behind the publisher's back: the difference is excused.
LEMMA ResignCourt == CourtInv /\ ResignCert => CourtInv'
<1> SUFFICES ASSUME CourtInv, ResignCert
             PROVE  CourtInv'
  OBVIOUS
<1>0. TypeOK
  BY DEF CourtInv
<1>1. /\ row' = [row EXCEPT !.cert = row.cert + 1] /\ Exists
      /\ changes' = changes + 1 /\ changes < MaxChanges /\ born' = born
      /\ UNCHANGED <<pubVars, quarVars, mode, faults>>
      /\ excused' = excused \cup {"resigned"}
  BY DEF ResignCert, Change
<1>2. row \in Rows /\ row.cert \in Nat
  BY <1>0, <1>1, RowFields
<1>3. row' \in Rows /\ row'.revision = row.revision /\ row'.pushed = row.pushed
  BY <1>1, <1>2 DEF Rows
<1>4. Rows' = Rows /\ Bodies' = Bodies
  BY <1>1 DEF Rows, Bodies
<1>5. "resigned" \in excused' /\ excused' \subseteq Excuses
  BY <1>0, <1>1 DEF TypeOK, Excuses, Unannounced
<1>6. TypeOK' /\ BornCounted'
  BY <1>0, <1>1, <1>3, <1>4, <1>5, RegistryBounds
     DEF CourtInv, TypeOK, BornCounted, pubVars, quarVars
<1>7. PushUnderWay'
  BY <1>1, <1>3, <1>5 DEF CourtInv, PushUnderWay, pubVars, Unannounced
<1>8. AcceptedAtCourt' /\ CourtCurrent'
  BY <1>1, <1>5 DEF CourtInv, AcceptedAtCourt, CourtCurrent, pubVars
<1> QED BY <1>6, <1>7, <1>8 DEF CourtInv

\* Without a row there is nothing to be current.
LEMMA RowGoneCourt ==
    ASSUME CourtInv, row' = NoRow, born' = born, BornCounted',
           pub' = pub, court' = court, excused' = excused, TypeOK'
    PROVE  CourtInv'
BY DEF CourtInv, BornCounted, PushUnderWay, AcceptedAtCourt, CourtCurrent, Exists

LEMMA DeleteCourt == CourtInv /\ Delete => CourtInv'
<1> SUFFICES ASSUME CourtInv, Delete
             PROVE  CourtInv'
  OBVIOUS
<1>1. /\ row' = NoRow /\ born' = born /\ changes' = changes + 1 /\ changes < MaxChanges
      /\ UNCHANGED <<pubVars, quarVars, mode, faults, excused>>
  BY DEF Delete, Change
<1>2. Rows' = Rows /\ Bodies' = Bodies /\ ~Exists'
  BY <1>1 DEF Rows, Bodies, Exists
<1>3. TypeOK' /\ BornCounted'
  BY <1>1, <1>2, RegistryBounds DEF CourtInv, TypeOK, BornCounted, pubVars, quarVars
<1> QED BY <1>1, <1>3, RowGoneCourt DEF pubVars

-----------------------------------------------------------------------------
(***************************************************************************)
(* The publisher.                                                          *)
(***************************************************************************)

LEMMA FetchCourt == CourtInv /\ Fetch => CourtInv'
<1> SUFFICES ASSUME CourtInv, Fetch
             PROVE  CourtInv'
  OBVIOUS
<1>0. TypeOK /\ Exists
  BY DEF CourtInv, Fetch, Pending
<1>1. /\ pub' = [at |-> "post", body |-> Body]
      /\ row.revision > row.pushed
      /\ UNCHANGED <<row, born, changes, court, late, quarVars, mode, faults, excused>>
  BY DEF Fetch, Pending, rowVars
<1>2. Body \in Bodies /\ Body.revision = row.revision /\ row.revision \in Nat
        /\ row.pushed \in Nat
  BY <1>0, RowFields
<1>3. pub'.at = "post" /\ pub'.body = Body
  BY <1>1
<1>4. Rows' = Rows /\ Bodies' = Bodies /\ Body' = Body /\ Exists'
  BY <1>0, <1>1 DEF Rows, Bodies, Body, Exists
<1>5. TypeOK' /\ BornCounted'
  BY <1>0, <1>1, <1>2, <1>4 DEF CourtInv, TypeOK, BornCounted, quarVars
<1>6. PushUnderWay'
  BY <1>1, <1>2, <1>3, <1>4 DEF PushUnderWay
<1>7. AcceptedAtCourt'
  BY <1>3 DEF AcceptedAtCourt
<1>8. row'.pushed # row'.revision
  BY <1>1, <1>2
<1>9. CourtCurrent'
  BY <1>8 DEF CourtCurrent
<1> QED BY <1>5, <1>6, <1>7, <1>9 DEF CourtInv

\* The Court accepts: the row is not marked as pushed up to its revision yet.
LEMMA AcceptCourt == CourtInv /\ PostAccepted => CourtInv'
<1> SUFFICES ASSUME CourtInv, PostAccepted
             PROVE  CourtInv'
  OBVIOUS
<1>0. TypeOK
  BY DEF CourtInv
<1>1. /\ pub.at = "post" /\ pub.body \in Bodies /\ court' = pub.body
      /\ pub' = [at |-> "mark", body |-> pub.body, ok |-> TRUE]
      /\ excused' = excused \ {"late"}
      /\ UNCHANGED <<row, born, changes, late, quarVars, mode, faults>>
  BY <1>0, PubFields DEF PostAccepted, rowVars
<1>2. pub'.at = "mark" /\ pub'.body = pub.body
  BY <1>1
<1>3. Rows' = Rows /\ Bodies' = Bodies /\ Body' = Body /\ Exists' = Exists
  BY <1>1 DEF Rows, Bodies, Body, Exists
<1>4. TypeOK' /\ BornCounted'
  BY <1>0, <1>1, <1>3 DEF CourtInv, TypeOK, BornCounted, quarVars
<1>5. PushUnderWay'
  BY <1>1, <1>2, <1>3 DEF CourtInv, PushUnderWay, Unannounced
<1>6. AcceptedAtCourt'
  BY <1>1, <1>2 DEF AcceptedAtCourt
<1>7. Exists /\ "reborn" \notin excused => row.pushed < row.revision
  BY <1>1 DEF CourtInv, PushUnderWay
<1>8. CourtCurrent'
  BY <1>0, <1>1, <1>3, <1>7, RowFields DEF CourtCurrent
<1> QED BY <1>4, <1>5, <1>6, <1>8 DEF CourtInv

LEMMA RefuseCourt == CourtInv /\ PostRefused => CourtInv'
<1> SUFFICES ASSUME CourtInv, PostRefused
             PROVE  CourtInv'
  OBVIOUS
<1>0. TypeOK
  BY DEF CourtInv
<1>1. /\ pub.at = "post" /\ pub.body \in Bodies
      /\ pub' = [at |-> "mark", body |-> pub.body, ok |-> FALSE]
      /\ UNCHANGED <<row, born, changes, court, late, quarVars, mode, faults, excused>>
  BY <1>0, PubFields DEF PostRefused, rowVars
<1>2. pub'.at = "mark" /\ pub'.body = pub.body /\ ~pub'.ok
  BY <1>1
<1>3. Rows' = Rows /\ Bodies' = Bodies /\ Body' = Body /\ Exists' = Exists
  BY <1>1 DEF Rows, Bodies, Body, Exists
<1>4. TypeOK' /\ BornCounted'
  BY <1>0, <1>1, <1>3 DEF CourtInv, TypeOK, BornCounted, quarVars
<1>5. PushUnderWay' /\ AcceptedAtCourt' /\ CourtCurrent'
  BY <1>1, <1>2, <1>3 DEF CourtInv, PushUnderWay, AcceptedAtCourt, CourtCurrent
<1> QED BY <1>4, <1>5 DEF CourtInv

\* A push that ends without a mark.
LEMMA PushEndsCourt ==
    ASSUME CourtInv, pub' = [at |-> "idle"], TypeOK',
           UNCHANGED <<row, born, changes, court, excused>>
    PROVE  CourtInv'
<1>1. pub'.at = "idle"
  OBVIOUS
<1> QED BY <1>1 DEF CourtInv, BornCounted, PushUnderWay, AcceptedAtCourt, CourtCurrent, Exists, Body

LEMMA FailCourt ==
    ASSUME CourtInv, PostFails \/ PostTimesOut \/ Restart
    PROVE  CourtInv'
<1>0. TypeOK
  BY DEF CourtInv
<1>1. pub' = [at |-> "idle"] /\ UNCHANGED <<row, born, changes, court, excused>>
  BY DEF PostFails, PostTimesOut, Restart, rowVars
<1>2. pub.at = "post" => pub.body \in Bodies
  BY <1>0, PubFields
<1>3. Rows' = Rows /\ Bodies' = Bodies /\ Exists' = Exists
  BY <1>1 DEF Rows, Bodies, Exists
<1>4. CASE PostFails
  <2>1. TypeOK'
    BY <1>0, <1>1, <1>3, <1>4 DEF PostFails, TypeOK, quarVars
  <2> QED BY <1>1, <2>1, PushEndsCourt
<1>5. CASE PostTimesOut
  <2>1. late' \subseteq Bodies /\ faults' \in 0..MaxFaults
    BY <1>0, <1>2, <1>5, RegistryBounds DEF PostTimesOut, Fault, TypeOK
  <2>2. TypeOK'
    BY <1>0, <1>1, <1>3, <1>5, <2>1 DEF PostTimesOut, TypeOK, quarVars
  <2> QED BY <1>1, <2>2, PushEndsCourt
<1>6. CASE Restart
  <2>1. late' \subseteq Bodies /\ faults' \in 0..MaxFaults
    BY <1>0, <1>2, <1>6, RegistryBounds DEF Restart, Fault, TypeOK
  <2>2. events' = events /\ react' = 0 /\ expiry' = {} /\ hook' = FALSE
          /\ mode' \in Modes
    BY <1>6 DEF Restart
  <2>3. Len(events) \in Nat
    BY <1>0 DEF TypeOK
  <2>4. /\ events' \in Seq(QuarantineEvents') /\ Len(events') <= MaxEvents
        /\ react' \in 0..Len(events') /\ expiry' \subseteq DOMAIN events'
    BY <1>0, <2>2, <2>3 DEF TypeOK, QuarantineEvents
  <2>5. TypeOK'
    BY <1>0, <1>1, <1>3, <2>1, <2>2, <2>4 DEF TypeOK
  <2> QED BY <1>1, <2>5, PushEndsCourt
<1> QED BY <1>4, <1>5, <1>6

LEMMA LateCourt == CourtInv /\ LateServed => CourtInv'
<1> SUFFICES ASSUME CourtInv, LateServed
             PROVE  CourtInv'
  OBVIOUS
<1>1. PICK body \in late :
        /\ court' = body /\ late' = late \ {body} /\ excused' = excused \cup {"late"}
        /\ UNCHANGED <<row, born, changes, pub, quarVars, mode, faults>>
  BY DEF LateServed, rowVars
<1>2. Rows' = Rows /\ Bodies' = Bodies /\ Body' = Body /\ Exists' = Exists
  BY <1>1 DEF Rows, Bodies, Body, Exists
<1>3. TypeOK' /\ BornCounted'
  BY <1>1, <1>2 DEF CourtInv, TypeOK, BornCounted, quarVars, Excuses
<1>4. PushUnderWay' /\ AcceptedAtCourt' /\ CourtCurrent'
  BY <1>1, <1>2 DEF CourtInv, PushUnderWay, AcceptedAtCourt, CourtCurrent
<1> QED BY <1>3, <1>4 DEF CourtInv

\* The mark: of the body the Court has, on the row it was made of, or with a
\* revision below the row's.
LEMMA MarkCourt == CourtInv /\ Mark => CourtInv'
<1> SUFFICES ASSUME CourtInv, Mark
             PROVE  CourtInv'
  OBVIOUS
<1>0. TypeOK
  BY DEF CourtInv
<1>1. /\ pub.at = "mark" /\ pub.body \in Bodies /\ pub.body.revision \in Nat
      /\ pub.ok \in BOOLEAN
      /\ pub' = [at |-> "idle"]
      /\ UNCHANGED <<born, changes, court, late, quarVars, mode, faults>>
  BY <1>0, PubFields DEF Mark
<1>2. pub'.at = "idle"
  BY <1>1
<1>3. Rows' = Rows /\ Bodies' = Bodies
  BY <1>1 DEF Rows, Bodies
<1>4. CASE Exists
  <2>1. /\ row' = [row EXCEPT !.pushed = pub.body.revision, !.federatedAt = TRUE]
        /\ excused' = (excused \ {"refused"}) \cup (IF pub.ok THEN {} ELSE {"refused"})
    BY <1>4 DEF Mark
  <2>2. row \in Rows /\ row.revision \in Nat
    BY <1>0, <1>4, RowFields
  <2>3. /\ row' \in Rows /\ row'.pushed = pub.body.revision
        /\ row'.revision = row.revision /\ row'.born = row.born /\ row'.active = row.active
        /\ row'.cert = row.cert
    BY <1>1, <2>1, <2>2 DEF Rows
  <2>4. Body' = Body
    BY <2>3 DEF Body
  <2>5. "reborn" \notin excused' => pub.body.revision <= row.revision
    BY <1>1, <1>4, <2>1 DEF CourtInv, PushUnderWay
  <2>6. TypeOK' /\ BornCounted'
    BY <1>0, <1>1, <1>3, <2>1, <2>3, <2>5 DEF CourtInv, TypeOK, BornCounted, quarVars, Excuses
  <2>7. PushUnderWay' /\ AcceptedAtCourt'
    BY <1>2 DEF PushUnderWay, AcceptedAtCourt
  <2>8. ASSUME row'.pushed = row'.revision, excused' = {}
        PROVE  court' = Body'
    <3>1. pub.ok /\ excused \subseteq {"refused"}
      BY <1>1, <2>1, <2>8
    <3>2. court = pub.body
      BY <1>1, <3>1 DEF CourtInv, AcceptedAtCourt
    <3>3. pub.body = Body
      BY <1>1, <1>4, <2>3, <2>8, <3>1 DEF CourtInv, PushUnderWay, Unannounced
    <3> QED BY <1>1, <2>4, <3>2, <3>3
  <2>9. CourtCurrent'
    BY <2>8 DEF CourtCurrent
  <2> QED BY <2>6, <2>7, <2>9 DEF CourtInv
<1>5. CASE ~Exists
  <2>1. UNCHANGED <<row, excused>>
    BY <1>5 DEF Mark
  <2>2. ~Exists'
    BY <1>5, <2>1 DEF Exists
  <2>3. TypeOK'
    BY <1>0, <1>1, <1>3, <2>1, <2>2 DEF TypeOK, quarVars
  <2> QED BY <1>1, <2>1, <2>3, PushEndsCourt
<1> QED BY <1>4, <1>5

-----------------------------------------------------------------------------
(***************************************************************************)
(* Quarantine.                                                             *)
(***************************************************************************)

\* An event that changes one of its columns stays an event.
LEMMA EventFields ==
    ASSUME TypeOK, NEW i \in DOMAIN events
    PROVE  /\ Resolved(i) \in Seq(QuarantineEvents) /\ Len(Resolved(i)) = Len(events)
           /\ [events EXCEPT ![i].expired = TRUE] \in Seq(QuarantineEvents)
           /\ Len([events EXCEPT ![i].expired = TRUE]) = Len(events)
<1>1. events \in Seq(QuarantineEvents)
  BY DEF TypeOK
<1>2. events[i] \in QuarantineEvents
  BY <1>1
<1>3. PICK e, g \in QuarantineEvents :
        e = [events[i] EXCEPT !.open = FALSE] /\ g = [events[i] EXCEPT !.expired = TRUE]
  BY <1>2 DEF QuarantineEvents
<1>4. \A h \in QuarantineEvents :
        /\ [events EXCEPT ![i] = h] \in Seq(QuarantineEvents)
        /\ Len([events EXCEPT ![i] = h]) = Len(events)
  BY <1>1
<1>5. /\ Resolved(i) = [events EXCEPT ![i] = e]
      /\ [events EXCEPT ![i].expired = TRUE] = [events EXCEPT ![i] = g]
  BY <1>3 DEF Resolved
<1>6. Resolved(i) \in Seq(QuarantineEvents) /\ Len(Resolved(i)) = Len(events)
  BY <1>3, <1>4, <1>5
<1>7. /\ [events EXCEPT ![i].expired = TRUE] \in Seq(QuarantineEvents)
      /\ Len([events EXCEPT ![i].expired = TRUE]) = Len(events)
  BY <1>3, <1>4, <1>5
<1> QED BY <1>6, <1>7

\* A step of the quarantine that leaves the row and the publisher alone.
LEMMA QuarantineOnlyCourt ==
    ASSUME CourtInv, UNCHANGED <<rowVars, pubVars, mode, faults, excused>>,
           events' \in Seq(QuarantineEvents), Len(events') <= MaxEvents, hook' \in BOOLEAN,
           react' \in 0..Len(events'), expiry' \subseteq DOMAIN events'
    PROVE  CourtInv'
<1>1. UNCHANGED <<row, born, changes, court, pub, late>>
  BY DEF rowVars, pubVars
<1>2. /\ Rows' = Rows /\ Bodies' = Bodies /\ Body' = Body /\ Exists' = Exists
      /\ QuarantineEvents' = QuarantineEvents
  BY <1>1 DEF Rows, Bodies, Body, Exists, QuarantineEvents
<1>3. TypeOK' /\ BornCounted'
  BY <1>1, <1>2 DEF CourtInv, TypeOK, BornCounted
<1>4. PushUnderWay' /\ AcceptedAtCourt' /\ CourtCurrent'
  BY <1>1, <1>2 DEF CourtInv, PushUnderWay, AcceptedAtCourt, CourtCurrent
<1> QED BY <1>3, <1>4 DEF CourtInv

\* is_active changes behind the publisher's back: the difference is excused.
LEMMA FlipCourt ==
    ASSUME CourtInv, Exists, NEW active \in BOOLEAN, Flip(active),
           UNCHANGED <<born, changes, pubVars, mode, faults>>,
           events' \in Seq(QuarantineEvents), Len(events') <= MaxEvents, hook' \in BOOLEAN,
           react' \in 0..Len(events'), expiry' \subseteq DOMAIN events'
    PROVE  CourtInv'
<1>0. TypeOK
  BY DEF CourtInv
<1>1. /\ row' = [row EXCEPT !.active = active]
      /\ excused' = excused \cup (IF row.active = active THEN {} ELSE {"silent"})
  BY DEF Flip
<1>2. row \in Rows
  BY <1>0, RowFields
<1>3. CASE row.active = active
  <2>1. row' = row /\ excused' = excused
    BY <1>1, <1>2, <1>3 DEF Rows
  <2> QED BY <2>1, QuarantineOnlyCourt DEF rowVars
<1>4. CASE row.active # active
  <2>1. excused' = excused \cup {"silent"}
    BY <1>1, <1>4
  <2>2. /\ row' \in Rows /\ row'.pushed = row.pushed /\ row'.revision = row.revision
        /\ row'.born = row.born
    BY <1>1, <1>2 DEF Rows
  <2>3. UNCHANGED <<court, pub, late>>
    BY DEF pubVars
  <2>4. /\ Rows' = Rows /\ Bodies' = Bodies /\ Exists'
        /\ QuarantineEvents' = QuarantineEvents
    BY <2>2, RowsExist DEF Rows, Bodies, Exists, QuarantineEvents
  <2>5. TypeOK' /\ BornCounted'
    BY <1>0, <2>1, <2>2, <2>3, <2>4 DEF CourtInv, TypeOK, BornCounted, Excuses, Unannounced
  <2>6. PushUnderWay' /\ AcceptedAtCourt' /\ CourtCurrent'
    BY <2>1, <2>2, <2>3, <2>4 DEF CourtInv, PushUnderWay, AcceptedAtCourt, CourtCurrent, Unannounced
  <2> QED BY <2>5, <2>6 DEF CourtInv
<1> QED BY <1>3, <1>4

LEMMA HookCourt ==
    ASSUME CourtInv, HookInserts \/ HookDeactivates \/ HookFails
    PROVE  CourtInv'
<1>0. TypeOK
  BY DEF CourtInv
<1>1. /\ events \in Seq(QuarantineEvents) /\ Len(events) \in Nat /\ Len(events) <= MaxEvents
      /\ react \in 0..Len(events) /\ expiry \subseteq DOMAIN events
      /\ mode \in Modes /\ MaxEvents \in Nat
  BY <1>0, RegistryBounds DEF TypeOK
<1>2. CASE HookInserts
  <2>1. PICK e \in QuarantineEvents : events' = Append(events, e)
    BY <1>1, <1>2 DEF HookInserts, QuarantineEvents, Modes
  <2>2. /\ Len(events) < MaxEvents /\ hook' \in BOOLEAN
        /\ UNCHANGED <<rowVars, pubVars, react, expiry, mode, faults, excused>>
    BY <1>2 DEF HookInserts
  <2>3. /\ events' \in Seq(QuarantineEvents) /\ Len(events') = Len(events) + 1
        /\ DOMAIN events \subseteq DOMAIN events'
    BY <1>1, <2>1
  <2>4. /\ Len(events') <= MaxEvents /\ react' \in 0..Len(events')
        /\ expiry' \subseteq DOMAIN events'
    BY <1>1, <2>2, <2>3
  <2> QED BY <2>2, <2>3, <2>4, QuarantineOnlyCourt
<1>3. CASE HookFails
  BY <1>1, <1>3, QuarantineOnlyCourt DEF HookFails
<1>4. CASE HookDeactivates
  <2>1. /\ hook' = FALSE
        /\ UNCHANGED <<born, changes, pubVars, events, react, expiry, mode, faults>>
        /\ IF Exists THEN Flip(FALSE) ELSE UNCHANGED <<row, excused>>
    BY <1>4 DEF HookDeactivates
  <2>2. CASE Exists
    BY <1>1, <2>1, <2>2, FlipCourt
  <2>3. CASE ~Exists
    BY <1>1, <2>1, <2>3, QuarantineOnlyCourt DEF rowVars
  <2> QED BY <2>2, <2>3
<1> QED BY <1>2, <1>3, <1>4

LEMMA ReactivateCourt ==
    ASSUME CourtInv, ReactivateReads \/ ReactivateWrites
    PROVE  CourtInv'
<1>0. TypeOK
  BY DEF CourtInv
<1>1. /\ events \in Seq(QuarantineEvents) /\ Len(events) \in Nat /\ Len(events) <= MaxEvents
      /\ react \in 0..Len(events) /\ expiry \subseteq DOMAIN events /\ hook \in BOOLEAN
      /\ DOMAIN events = 1..Len(events)
  BY <1>0 DEF TypeOK
<1>2. CASE ReactivateReads
  <2>1. /\ OpenEvents # {} /\ react' = Max(OpenEvents)
        /\ UNCHANGED <<rowVars, pubVars, events, hook, expiry, mode, faults, excused>>
    BY <1>2 DEF ReactivateReads
  <2>2. OpenEvents \subseteq 1..Len(events)
    BY <1>1 DEF OpenEvents
  <2>3. react' \in 0..Len(events')
    <3>1. Max(OpenEvents) \in OpenEvents
      BY <1>1, <2>1, <2>2, LargestPosition
    <3>2. react' \in 1..Len(events)
      BY <2>1, <2>2, <3>1
    <3> QED BY <1>1, <2>1, <3>2
  <2> QED BY <1>1, <2>1, <2>3, QuarantineOnlyCourt
<1>3. CASE ReactivateWrites
  <2>0. PICK i \in DOMAIN events : i = react
    BY <1>1, <1>3 DEF ReactivateWrites
  <2>1. /\ react' = 0
        /\ UNCHANGED <<born, changes, pubVars, hook, expiry, mode, faults>>
        /\ Exists => Flip(TRUE) /\ events' = Resolved(i)
        /\ ~Exists => UNCHANGED <<row, excused, events>>
    BY <1>3, <2>0 DEF ReactivateWrites, Resolved
  <2>2. CASE Exists
    <3>1. events' \in Seq(QuarantineEvents) /\ Len(events') = Len(events)
      <4>1. events' = Resolved(i)
        BY <2>1, <2>2
      <4>2. Resolved(i) \in Seq(QuarantineEvents) /\ Len(Resolved(i)) = Len(events)
        BY <1>0, EventFields
      <4> QED BY <4>1, <4>2
    <3>2. DOMAIN events' = DOMAIN events
      BY <1>1, <3>1
    <3>3. react' \in 0..Len(events')
      BY <1>1, <2>1, <3>1
    <3> QED BY <1>1, <2>1, <2>2, <3>1, <3>2, <3>3, FlipCourt
  <2>3. CASE ~Exists
    <3>1. react' \in 0..Len(events')
      BY <1>1, <2>1, <2>3
    <3> QED BY <1>1, <2>1, <2>3, <3>1, QuarantineOnlyCourt DEF rowVars
  <2> QED BY <2>2, <2>3
<1> QED BY <1>2, <1>3

LEMMA ExpiryCourt ==
    ASSUME CourtInv, TtlPasses \/ ExpirySelects \/ \E i \in expiry : ExpiryDeletes(i)
    PROVE  CourtInv'
<1>0. TypeOK
  BY DEF CourtInv
<1>1. /\ events \in Seq(QuarantineEvents) /\ Len(events) \in Nat /\ Len(events) <= MaxEvents
      /\ react \in 0..Len(events) /\ expiry \subseteq DOMAIN events /\ hook \in BOOLEAN
      /\ DOMAIN events = 1..Len(events)
  BY <1>0 DEF TypeOK
<1>2. CASE TtlPasses
  <2>1. PICK i \in DOMAIN events :
          /\ events' = [events EXCEPT ![i].expired = TRUE]
          /\ UNCHANGED <<rowVars, pubVars, hook, react, expiry, mode, faults, excused>>
    BY <1>2 DEF TtlPasses
  <2>2. events' \in Seq(QuarantineEvents) /\ Len(events') = Len(events)
    BY <1>0, <2>1, EventFields
  <2>3. DOMAIN events' = DOMAIN events
    BY <1>1, <2>2
  <2> QED BY <1>1, <2>1, <2>2, <2>3, QuarantineOnlyCourt
<1>3. CASE ExpirySelects
  <2>1. /\ expiry' \subseteq OpenEvents
        /\ UNCHANGED <<rowVars, pubVars, events, hook, react, mode, faults, excused>>
    BY <1>3 DEF ExpirySelects
  <2>2. expiry' \subseteq DOMAIN events'
    BY <2>1 DEF OpenEvents
  <2> QED BY <1>1, <2>1, <2>2, QuarantineOnlyCourt
<1>4. CASE \E i \in expiry : ExpiryDeletes(i)
  <2>1. PICK i \in expiry :
          /\ row' = NoRow /\ events' = Resolved(i) /\ expiry' = expiry \ {i}
          /\ UNCHANGED <<born, changes, court, pub, late, hook, react, mode, faults, excused>>
    BY <1>4 DEF ExpiryDeletes, pubVars
  <2>2. events' \in Seq(QuarantineEvents) /\ Len(events') = Len(events)
    BY <1>0, <1>1, <2>1, EventFields
  <2>3. DOMAIN events' = DOMAIN events
    BY <1>1, <2>2
  <2>4. /\ Rows' = Rows /\ Bodies' = Bodies /\ ~Exists'
        /\ QuarantineEvents' = QuarantineEvents
    BY <2>1 DEF Rows, Bodies, Exists, QuarantineEvents
  <2>5. TypeOK' /\ BornCounted'
    BY <1>1, <2>1, <2>2, <2>3, <2>4 DEF CourtInv, TypeOK, BornCounted
  <2> QED BY <2>1, <2>5, RowGoneCourt
<1> QED BY <1>2, <1>3, <1>4

-----------------------------------------------------------------------------
LEMMA CourtInit == Init => CourtInv
<1> SUFFICES ASSUME Init
             PROVE  CourtInv
  OBVIOUS
<1>1. /\ row = NoRow /\ born = 0 /\ court = NoBody /\ pub = [at |-> "idle"] /\ late = {}
      /\ mode \in Modes /\ events = <<>> /\ hook = FALSE /\ react = 0
      /\ expiry = {} /\ changes = 0 /\ faults = 0 /\ excused = {}
  BY DEF Init
<1>2. ~Exists /\ pub.at = "idle"
  BY <1>1 DEF Exists
<1>3. events \in Seq(QuarantineEvents) /\ Len(events) = 0
  BY <1>1
<1>4. /\ Len(events) <= MaxEvents /\ react \in 0..Len(events)
      /\ born \in 0..MaxChanges /\ changes \in 0..MaxChanges /\ faults \in 0..MaxFaults
  BY <1>1, <1>3, RegistryBounds
<1>5. TypeOK
  BY <1>1, <1>2, <1>3, <1>4 DEF TypeOK
<1>6. BornCounted
  BY <1>1 DEF BornCounted
<1> QED BY <1>2, <1>5, <1>6 DEF CourtInv, PushUnderWay, AcceptedAtCourt, CourtCurrent

LEMMA CourtStutter == CourtInv /\ UNCHANGED vars => CourtInv'
<1> SUFFICES ASSUME CourtInv, UNCHANGED vars
             PROVE  CourtInv'
  OBVIOUS
<1>1. /\ UNCHANGED <<rowVars, pubVars, mode, faults, excused>>
      /\ UNCHANGED <<events, hook, react, expiry>>
  BY DEF vars, quarVars
<1> QED BY <1>1, QuarantineOnlyCourt DEF CourtInv, TypeOK

LEMMA CourtStep == CourtInv /\ [Next]_vars => CourtInv'
<1> SUFFICES ASSUME CourtInv, [Next]_vars
             PROVE  CourtInv'
  OBVIOUS
<1>1. CASE Create
  BY <1>1, CreateCourt
<1>2. CASE \/ \E f \in BOOLEAN : SetFederated(f)
           \/ SetCapabilities \/ Deactivate \/ Revoke \/ Reenroll
  BY <1>2, ChangeCourt
<1>3. CASE Delete \/ ResignCert
  BY <1>3, DeleteCourt, ResignCourt
<1>4. CASE Fetch \/ PostAccepted \/ PostRefused
  BY <1>4, FetchCourt, AcceptCourt, RefuseCourt
<1>5. CASE PostFails \/ PostTimesOut \/ Restart
  BY <1>5, FailCourt
<1>6. CASE LateServed \/ Mark
  BY <1>6, LateCourt, MarkCourt
<1>7. CASE HookInserts \/ HookDeactivates \/ HookFails
  BY <1>7, HookCourt
<1>8. CASE ReactivateReads \/ ReactivateWrites
  BY <1>8, ReactivateCourt
<1>9. CASE TtlPasses \/ ExpirySelects \/ \E i \in expiry : ExpiryDeletes(i)
  BY <1>9, ExpiryCourt
<1>10. CASE UNCHANGED vars
  BY <1>10, CourtStutter
<1> QED BY <1>1, <1>2, <1>3, <1>4, <1>5, <1>6, <1>7, <1>8, <1>9, <1>10 DEF Next

LEMMA CourtInvHolds == Spec => []CourtInv
<1>1. Init => CourtInv
  BY CourtInit
<1>2. CourtInv /\ [Next]_vars => CourtInv'
  BY CourtStep
<1> QED BY <1>1, <1>2, PTL DEF Spec

\* Shape of the row, of the Court's copy and of the loops; and _mark_pushed never
\* writes a last_pushed_revision ahead of federation_revision, unless the row was
\* re-created while a push of the old one was under way.
THEOREM TypeCorrect == Spec => []TypeOK
<1>1. CourtInv => TypeOK
  BY DEF CourtInv
<1> QED BY <1>1, CourtInvHolds, PTL

\* Whatever operations of the row, pushes, restarts and quarantine steps
\* interleave, a row that publisher._mark_pushed has marked up to its revision is
\* the one the Court holds, apart from the five named causes.
THEOREM CourtIsCurrent == Spec => []CourtCurrent
<1>1. CourtInv => CourtCurrent
  BY DEF CourtInv
<1> QED BY <1>1, CourtInvHolds, PTL
=============================================================================
