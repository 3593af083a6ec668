-------------------------- MODULE MastioKeysProofs --------------------------
(***************************************************************************)
(* Proofs about MastioKeys for any set of workers and any set of kids.     *)
(* Under any faults: the type invariant, and that there is exactly one     *)
(* current signer from the first mint on.  When the Court's answers arrive *)
(* and the operator resolves a staged row only while nothing else is in    *)
(* flight, every other fault allowed: the pinned key is never lost, it is  *)
(* retired only for a signer the Court was not asked to pin, and any other *)
(* key becomes the signer only after the Court has pinned it.  When        *)
(* moreover the read after the commit succeeds: a lone worker that signs   *)
(* does so with the pinned key, or with one the Court was not asked for.   *)
(***************************************************************************)
EXTENDS MastioKeys, TLAPS

-----------------------------------------------------------------------------
(* Types. *)

\* A boot step keeps the types.
LEMMA BootType ==
    ASSUME TypeOK, NEW w \in Worker,
           Boot(w) \/ DetectStaged(w) \/ TakeMintLock(w) \/ ReadActive(w)
             \/ Adopt(w) \/ Mint(w) \/ Onboard(w)
    PROVE  TypeOK'
<1> USE KeyConstants DEF TypeOK, Enter, Rotation, NoRotation, Phase, Booting,
                         Rotating, Recovering, RowState
<1>1. CASE Boot(w)
  BY <1>1 DEF Boot, Active
<1>2. CASE DetectStaged(w)
  <2>1. \/ UNCHANGED <<halted, staged>>
        \/ \E k \in Kid \cup {NoKey} : Halt(w, k)
    BY <1>2 DEF DetectStaged, Staged
  <2>2. CASE UNCHANGED <<halted, staged>>
    BY <1>2, <2>2 DEF DetectStaged
  <2>3. CASE \E k \in Kid \cup {NoKey} : Halt(w, k)
    BY <1>2, <2>3 DEF DetectStaged, Halt
  <2> QED BY <2>1, <2>2, <2>3
<1>3. CASE TakeMintLock(w)
  BY <1>3 DEF TakeMintLock
<1>4. CASE Adopt(w)
  BY <1>4 DEF Adopt, Active
<1>5. CASE ReadActive(w)
  BY <1>5 DEF ReadActive, Active
<1>6. CASE Mint(w)
  BY <1>6 DEF Mint, InsertKey
<1>7. CASE Onboard(w)
  BY <1>7 DEF Onboard, Request
<1> QED BY <1>1, <1>2, <1>3, <1>4, <1>5, <1>6, <1>7

\* A step of a rotation up to the Court's answer keeps the types.
LEMMA PropagateType ==
    ASSUME TypeOK, NEW w \in Worker,
           RotateCheck(w) \/ StageRow(w) \/ Propagate(w) \/ CourtAcks(w)
             \/ PropagatorRaised(w)
    PROVE  TypeOK'
<1> USE KeyConstants DEF TypeOK, Enter, Rotation, NoRotation, Phase, Booting,
                         Rotating, Recovering, RowState
<1>1. CASE RotateCheck(w)
  BY <1>1 DEF RotateCheck
<1>2. CASE StageRow(w)
  BY <1>2 DEF StageRow, InsertKey
<1>3. CASE Propagate(w)
  BY <1>3 DEF Propagate, Request
<1>4. CASE CourtAcks(w)
  BY <1>4 DEF CourtAcks
<1>5. CASE PropagatorRaised(w)
  BY <1>5 DEF PropagatorRaised, Drop, Leave
<1> QED BY <1>1, <1>2, <1>3, <1>4, <1>5

\* A new leaf under a new Intermediate CA keeps the types.
LEMMA ReissueType ==
    ASSUME TypeOK, NEW w \in Worker,
           ReissueReads(w) \/ ReissueStages(w) \/ ReissueCommits(w) \/ ReissueFails(w)
             \/ Recache(w)
    PROVE  TypeOK'
<1> USE KeyConstants DEF TypeOK, Enter, Rotation, NoRotation, Phase, Booting,
                         Rotating, Recovering, RowState
<1>1. CASE ReissueReads(w)
  <2>1. PICK k \in Kid, old \in Kid :
          rot' = [rot EXCEPT ![w] = [old |-> old, new |-> k]]
    BY <1>1 DEF ReissueReads, Active
  <2> QED BY <1>1, <2>1 DEF ReissueReads
<1>2. CASE ReissueStages(w)
  BY <1>2 DEF ReissueStages, InsertKey
<1>3. CASE ReissueCommits(w)
  BY <1>3 DEF ReissueCommits, Committed
<1>4. CASE ReissueFails(w)
  BY <1>4 DEF ReissueFails, Leave
<1>5. CASE Recache(w)
  <2>1. UNCHANGED active \/ \E k \in Kid : active' = [active EXCEPT ![w] = k]
    BY <1>5 DEF Recache, Active
  <2> QED BY <1>5, <2>1 DEF Recache, Leave
<1> QED BY <1>1, <1>2, <1>3, <1>4, <1>5

\* A commit, a recovery step and a crash keep the types.
LEMMA ResolveType ==
    ASSUME TypeOK, NEW w \in Worker,
           Commit(w) \/ CommitFails(w) \/ Refresh(w) \/ CompleteStaged(w)
             \/ ResolveDrop(w) \/ ResolveFails(w) \/ Crash(w)
    PROVE  TypeOK'
<1> USE KeyConstants DEF TypeOK, Enter, Rotation, NoRotation, Phase, Booting,
                         Rotating, Recovering, RowState
<1>1. CASE Commit(w)
  BY <1>1 DEF Commit, Committed
<1>2. CASE CommitFails(w)
  BY <1>2 DEF CommitFails, Halt, Leave
<1>3. CASE Refresh(w)
  <2>1. \/ UNCHANGED <<active, halted, staged>>
        \/ /\ \E k \in Kid : active' = [active EXCEPT ![w] = k]
           /\ LiftHalt(w)
    BY <1>3 DEF Refresh, Active
  <2>2. CASE UNCHANGED <<active, halted, staged>>
    BY <1>3, <2>2 DEF Refresh, Leave
  <2>3. CASE \E k \in Kid : active' = [active EXCEPT ![w] = k] /\ LiftHalt(w)
    BY <1>3, <2>3 DEF Refresh, Leave, LiftHalt
  <2> QED BY <2>1, <2>2, <2>3
<1>4. CASE CompleteStaged(w)
  <2>1. PICK k \in Kid, old \in Kid :
          rot' = [rot EXCEPT ![w] = [old |-> old, new |-> k]]
    BY <1>4 DEF CompleteStaged, Staged, Active
  <2>2. Enter(w, "activate") \/ Enter(w, "drop")
    BY <1>4 DEF CompleteStaged
  <2>3. unasked' \subseteq Kid
    BY <1>4 DEF CompleteStaged, Staged
  <2> QED BY <1>4, <2>1, <2>2, <2>3 DEF CompleteStaged
<1>5. CASE ResolveDrop(w)
  BY <1>5 DEF ResolveDrop, Drop, LiftHalt, Leave
<1>6. CASE ResolveFails(w)
  BY <1>6 DEF ResolveFails, Leave
<1>7. CASE Crash(w)
  BY <1>7 DEF Crash, LiftHalt
<1> QED BY <1>1, <1>2, <1>3, <1>4, <1>5, <1>6, <1>7

\* The type invariant holds in every reachable state, for every deployment.
THEOREM KeysTypeCorrect == Spec => []TypeOK
<1>1. Init => TypeOK
  BY KeyConstants DEF Init, TypeOK, Rotation, NoRotation, Phase, Booting,
                      Rotating, Recovering, RowState
<1>2. TypeOK /\ [Next]_vars => TypeOK'
  <2> SUFFICES ASSUME TypeOK, [Next]_vars PROVE TypeOK'
    OBVIOUS
  <2>1. CASE UNCHANGED vars
    BY <2>1 DEF TypeOK, vars
  <2>2. ASSUME NEW r \in wire, CourtHandles(r) PROVE TypeOK'
    BY <2>2 DEF CourtHandles, TypeOK, Request
  <2>3. ASSUME NEW w \in Worker, WorkerStep(w) \/ Onboard(w) \/ RotateCheck(w)
                                   \/ ReissueReads(w) \/ CompleteStaged(w) \/ Crash(w)
        PROVE  TypeOK'
    BY <2>3, BootType, PropagateType, ReissueType, ResolveType DEF WorkerStep
  <2> QED BY <2>1, <2>2, <2>3 DEF Next
<1> QED BY <1>1, <1>2, PTL DEF Spec

-----------------------------------------------------------------------------
(***************************************************************************)
(* One current signer.  OneActive is not inductive: a worker about to      *)
(* insert its minted key must know that the table is still empty.  It does *)
(* because the mint lock admits one worker and because nothing but a mint  *)
(* makes the first key active: rotations start from an active one.         *)
(***************************************************************************)

Minting == {"reading", "adopting", "minting"}

\* The mint lock excludes.
OneMinter ==
    \A v, w \in Worker : phase[v] \in Minting /\ phase[w] \in Minting => v = w

\* The lock holder's reading of the table is still true when it inserts.
MinterSawEmpty == \A w \in Worker : phase[w] = "minting" => Active = {}

\* A rotation is under way only once there is a signer.
RotatesFromSigner == \A w \in Worker : phase[w] \in {"checked", "reissue"} => Active # {}

\* Under the mint lock no two active rows are found.
FoundOne == \A w \in Worker : \A j, k \in found[w] : j = k

SignerInv ==
    TypeOK /\ OneActive /\ OneMinter /\ MinterSawEmpty /\ RotatesFromSigner /\ FoundOne

\* A step that leaves the set of active rows alone, starts no mint and no
\* rotation, and adds no row to an empty table, keeps the invariant.
LEMMA QuietKeysStep ==
    ASSUME SignerInv, TypeOK', Active' = Active,
           \A w \in Worker : /\ phase'[w] \in Minting \cup {"checked", "reissue"}
                                    => phase'[w] = phase[w]
                             /\ found'[w] \subseteq found[w],
           \A k \in Kid : keys[k] = "unused" /\ keys'[k] # "unused" => Active # {}
    PROVE  SignerInv'
BY DEF SignerInv, OneActive, OneMinter, MinterSawEmpty, RotatesFromSigner, FoundOne,
       Minting, TypeOK

\* The one row found under the mint lock is adopted, and no row is retired.
LEMMA AdoptKeepsRows ==
    ASSUME SignerInv, NEW w \in Worker, Adopt(w)
    PROVE  keys' = keys
<1>1. PICK newest \in found[w] :
        keys' = [k \in Kid |-> IF k \in (found[w] \ {newest}) \cap Active
                               THEN "deprecated" ELSE keys[k]]
  BY DEF Adopt
<1>2. found[w] \ {newest} = {}
  BY <1>1 DEF SignerInv, FoundOne
<1> QED BY <1>1, <1>2 DEF SignerInv, TypeOK

\* Boot, with the mint lock.
LEMMA BootSigner ==
    ASSUME SignerInv, TypeOK', NEW w \in Worker,
           Boot(w) \/ DetectStaged(w) \/ TakeMintLock(w) \/ ReadActive(w)
             \/ Adopt(w) \/ Mint(w) \/ Onboard(w)
    PROVE  SignerInv'
<1> USE DEF Enter, Minting
<1>1. CASE Boot(w)
  BY <1>1, QuietKeysStep DEF Boot, Active, SignerInv, TypeOK
<1>2. CASE DetectStaged(w)
  BY <1>2, QuietKeysStep DEF DetectStaged, Active, SignerInv, TypeOK
<1>3. CASE TakeMintLock(w)
  <2>1. keys' = keys /\ Active' = Active
    BY <1>3 DEF TakeMintLock, Active
  <2>2. OneMinter'
    BY <1>3 DEF TakeMintLock, MintLockFree, SignerInv, OneMinter, TypeOK
  <2> QED
    BY <1>3, <2>1, <2>2 DEF TakeMintLock, SignerInv, OneActive, MinterSawEmpty,
                            RotatesFromSigner, FoundOne, TypeOK
<1>4. CASE Adopt(w)
  <2>1. keys' = keys
    BY <1>4, AdoptKeepsRows
  <2> QED
    BY <1>4, <2>1, QuietKeysStep DEF Adopt, Active, SignerInv, TypeOK
<1>5. CASE ReadActive(w)
  <2>1. keys' = keys /\ Active' = Active
    BY <1>5 DEF ReadActive, Active
  <2>2. \A v \in Worker : found'[v] = found[v] \/ found'[v] = Active
    BY <1>5 DEF ReadActive, SignerInv, TypeOK
  <2>3. FoundOne'
    BY <2>2 DEF SignerInv, OneActive, FoundOne
  <2>4. phase'[w] = (IF Active = {} THEN "minting" ELSE "adopting") /\ phase[w] = "reading"
        /\ \A v \in Worker : v # w => phase'[v] = phase[v]
    BY <1>5 DEF ReadActive, SignerInv, TypeOK
  <2> QED
    BY <2>1, <2>3, <2>4 DEF SignerInv, OneActive, OneMinter, MinterSawEmpty,
                            RotatesFromSigner
<1>6. CASE Mint(w)
  <2>1. PICK k \in Kid : InsertKey(k, "active")
    BY <1>6 DEF Mint
  <2>2. Active = {}
    BY <1>6 DEF Mint, SignerInv, MinterSawEmpty
  <2>3. Active' = {k}
    BY <2>1, <2>2 DEF InsertKey, Active, SignerInv, TypeOK
  <2>4. \A v \in Worker : phase'[v] \notin Minting
    BY <1>6 DEF Mint, SignerInv, OneMinter, TypeOK
  <2> QED
    BY <1>6, <2>3, <2>4 DEF Mint, SignerInv, OneActive, OneMinter, MinterSawEmpty,
                            RotatesFromSigner, FoundOne
<1>7. CASE Onboard(w)
  BY <1>7, QuietKeysStep DEF Onboard, Active, SignerInv, TypeOK
<1> QED BY <1>1, <1>2, <1>3, <1>4, <1>5, <1>6, <1>7

\* Deleting a staged row touches no signer.
LEMMA DropKeepsActive ==
    ASSUME TypeOK, NEW kid \in Kid, Drop(kid)
    PROVE  /\ Active' = Active
           /\ \A k \in Kid : keys[k] = "unused" => keys'[k] = "unused"
BY DEF Drop, Active, TypeOK

\* A rotation up to the Court's answer: it stages its row beside a signer.
LEMMA PropagateSigner ==
    ASSUME SignerInv, TypeOK', NEW w \in Worker,
           RotateCheck(w) \/ StageRow(w) \/ Propagate(w) \/ CourtAcks(w)
             \/ PropagatorRaised(w)
    PROVE  SignerInv'
<1> USE DEF Enter, Minting
<1>1. CASE RotateCheck(w)
  <2>1. Active' = Active /\ keys' = keys /\ Active # {}
    BY <1>1 DEF RotateCheck, Active, CurrentSigner
  <2> QED
    BY <1>1, <2>1 DEF RotateCheck, SignerInv, OneActive, OneMinter,
                      MinterSawEmpty, RotatesFromSigner, FoundOne, TypeOK
<1>2. CASE StageRow(w)
  <2>1. Active' = Active /\ Active # {}
    BY <1>2 DEF StageRow, InsertKey, Active, SignerInv, RotatesFromSigner, TypeOK
  <2> QED
    BY <1>2, <2>1, QuietKeysStep DEF StageRow, SignerInv, TypeOK
<1>3. CASE Propagate(w)
  BY <1>3, QuietKeysStep DEF Propagate, Active, SignerInv, TypeOK
<1>4. CASE CourtAcks(w)
  BY <1>4, QuietKeysStep DEF CourtAcks, Active, SignerInv, TypeOK
<1>5. CASE PropagatorRaised(w)
  <2>1. /\ Active' = Active
        /\ \A k \in Kid : keys[k] = "unused" => keys'[k] = "unused"
    BY <1>5, DropKeepsActive DEF PropagatorRaised, SignerInv, TypeOK, Rotation,
                                 Rotating, Active
  <2> QED
    BY <1>5, <2>1, QuietKeysStep DEF PropagatorRaised, Leave, SignerInv, TypeOK
<1> QED BY <1>1, <1>2, <1>3, <1>4, <1>5

\* Both commits exchange one signer for another.
LEMMA CommitSigner ==
    ASSUME SignerInv, TypeOK', NEW w \in Worker, Commit(w) \/ ReissueCommits(w)
    PROVE  SignerInv' /\ Active = {rot[w].old} /\ Active' = {rot[w].new}
<1> DEFINE old == rot[w].old
           new == rot[w].new
<1>1. /\ old \in Kid /\ new \in Kid /\ old # new /\ Active = {old}
      /\ keys' = Committed(rot[w]) /\ found' = found
  BY DEF Commit, ReissueCommits, CanCommit, Active, SignerInv, OneActive, TypeOK, Rotation,
         Rotating, Recovering
<1>2. Active' = {new}
  BY <1>1 DEF Committed, Active, SignerInv, TypeOK
<1>3. \A v \in Worker : phase'[v] = phase[v] \/ phase'[v] \in {"refresh", "recache"}
  BY DEF Commit, ReissueCommits, Enter, SignerInv, TypeOK
<1>4. SignerInv'
  BY <1>1, <1>2, <1>3 DEF SignerInv, OneActive, OneMinter, MinterSawEmpty, Minting,
                          RotatesFromSigner, FoundOne
<1> QED BY <1>1, <1>2, <1>4

\* A new leaf under a new Intermediate CA.
LEMMA ReissueSigner ==
    ASSUME SignerInv, TypeOK', NEW w \in Worker,
           ReissueReads(w) \/ ReissueStages(w) \/ ReissueCommits(w) \/ ReissueFails(w)
             \/ Recache(w)
    PROVE  SignerInv'
<1> USE DEF Enter, Minting
<1>1. CASE ReissueReads(w)
  <2>1. Active' = Active /\ keys' = keys /\ Active # {}
    BY <1>1 DEF ReissueReads, Active
  <2> QED
    BY <1>1, <2>1 DEF ReissueReads, SignerInv, OneActive, OneMinter,
                      MinterSawEmpty, RotatesFromSigner, FoundOne, TypeOK
<1>2. CASE ReissueStages(w)
  <2>1. Active' = Active /\ Active # {}
    BY <1>2 DEF ReissueStages, InsertKey, Active, SignerInv, RotatesFromSigner, TypeOK
  <2> QED
    BY <1>2, <2>1, QuietKeysStep DEF ReissueStages, SignerInv, TypeOK
<1>3. CASE ReissueCommits(w)
  BY <1>3, CommitSigner
<1>4. CASE ReissueFails(w)
  BY <1>4, QuietKeysStep DEF ReissueFails, Leave, Active, SignerInv, TypeOK
<1>5. CASE Recache(w)
  BY <1>5, QuietKeysStep DEF Recache, Leave, Active, SignerInv, TypeOK
<1> QED BY <1>1, <1>2, <1>3, <1>4, <1>5

\* The commit exchanges one signer for another; nothing else here does.
LEMMA ResolveSigner ==
    ASSUME SignerInv, TypeOK', NEW w \in Worker,
           Commit(w) \/ CommitFails(w) \/ Refresh(w) \/ CompleteStaged(w)
             \/ ResolveDrop(w) \/ ResolveFails(w) \/ Crash(w)
    PROVE  SignerInv'
<1> USE DEF Enter, Minting
<1>1. CASE Commit(w)
  BY <1>1, CommitSigner
<1>2. CASE CommitFails(w)
  BY <1>2, QuietKeysStep DEF CommitFails, Leave, Active, SignerInv, TypeOK
<1>3. CASE Refresh(w)
  BY <1>3, QuietKeysStep DEF Refresh, Leave, Active, SignerInv, TypeOK
<1>4. CASE CompleteStaged(w)
  BY <1>4, QuietKeysStep DEF CompleteStaged, Active, SignerInv, TypeOK
<1>5. CASE ResolveDrop(w)
  <2>1. /\ Active' = Active
        /\ \A k \in Kid : keys[k] = "unused" => keys'[k] = "unused"
    BY <1>5, DropKeepsActive DEF ResolveDrop, SignerInv, TypeOK, Rotation,
                                 Recovering
  <2> QED
    BY <1>5, <2>1, QuietKeysStep DEF ResolveDrop, Leave, SignerInv, TypeOK
<1>6. CASE ResolveFails(w)
  BY <1>6, QuietKeysStep DEF ResolveFails, Leave, Active, SignerInv, TypeOK
<1>7. CASE Crash(w)
  BY <1>7, QuietKeysStep DEF Crash, Active, SignerInv, TypeOK
<1> QED BY <1>1, <1>2, <1>3, <1>4, <1>5, <1>6, <1>7

\* The invariant holds in every reachable state.
LEMMA SignerInvAlways == Spec => []SignerInv
<1>1. Init => SignerInv
  BY KeyConstants
     DEF Init, SignerInv, OneActive, OneMinter, MinterSawEmpty, RotatesFromSigner,
         FoundOne, Minting, Active, TypeOK, Rotation, NoRotation, Phase, Booting, Rotating,
         Recovering, RowState
<1>2. SignerInv /\ TypeOK' /\ [Next]_vars => SignerInv'
  <2> SUFFICES ASSUME SignerInv, TypeOK', [Next]_vars PROVE SignerInv'
    OBVIOUS
  <2>1. CASE UNCHANGED vars
    BY <2>1, QuietKeysStep DEF vars, Active, SignerInv, TypeOK
  <2>2. ASSUME NEW r \in wire, CourtHandles(r) PROVE SignerInv'
    BY <2>2, QuietKeysStep DEF CourtHandles, Active, SignerInv, TypeOK
  <2>3. ASSUME NEW w \in Worker, WorkerStep(w) \/ Onboard(w) \/ RotateCheck(w)
                                   \/ ReissueReads(w) \/ CompleteStaged(w) \/ Crash(w)
        PROVE  SignerInv'
    BY <2>3, BootSigner, PropagateSigner, ReissueSigner, ResolveSigner DEF WorkerStep
  <2> QED BY <2>1, <2>2, <2>3 DEF Next
<1> QED BY <1>1, <1>2, KeysTypeCorrect, PTL DEF Spec

\* Exactly one current signer from the first mint on, for any number of
\* workers and rotations and under every fault, late replies, overlapping
\* recoveries and crashes included.
THEOREM OneActiveAlways == Spec => []OneActive
<1>1. SignerInv => OneActive
  BY DEF SignerInv
<1> QED BY <1>1, SignerInvAlways, PTL

-----------------------------------------------------------------------------
\* The two faults under which a pinned key can be lost are absent.
NoLostPin == "late_reply" \notin Faults /\ "overlap" \notin Faults

(***************************************************************************)
(* The pinned key.  PinnedKeyKept depends on what each request on the wire *)
(* may still do to the pin, hence WireStaged, WireOwned and JoinsSigner;   *)
(* the deletion of a staged row is harmless because no request for it is   *)
(* left, and a commit because the pin has moved before it or because the   *)
(* new signer is one the Court was not asked for, hence AckedPinned and    *)
(* SwapUnasked.  A join may still bring a key that has been retired since, *)
(* which RetiredFollowed foresees while there is no pin.                   *)
(***************************************************************************)

Busy == Rotating \cup Recovering
Reissuing == {"reissue", "swap", "recache"}
WasSigner == {"active", "deprecated"}

\* Two operations under way never concern the same new key.
DistinctNew ==
    \A v, w \in Worker :
        v # w /\ rot[v] \in Rotation /\ rot[w] \in Rotation
            => rot[v].new # rot[w].new

\* The key an operation replaces is the signer, or was.
OldWasSigner ==
    \A w \in Worker : rot[w] \in Rotation => keys[rot[w].old] \in WasSigner

\* So is every key a worker has cached, or has read under the mint lock.
CachedWasSigner ==
    \A w \in Worker :
        /\ active[w] # NoKey => keys[active[w]] \in WasSigner
        /\ \A k \in found[w] : keys[k] \in WasSigner

\* And every key that a join takes to the Court.
JoinsSigner == \A r \in wire : r.old = NoKey => keys[r.new] \in WasSigner

\* A rotation on its way asks to move the pin from such a key to a staged one.
WireStaged ==
    \A r \in wire : r.old # NoKey
        => keys[r.new] = "staged" /\ keys[r.old] \in WasSigner

\* A worker that is not waiting for the Court's answer has no rotation under
\* way for its new key, and one that is has no other than its own.
WireOwned ==
    \A r \in wire, w \in Worker :
        r.old # NoKey /\ rot[w] \in Rotation /\ r.new = rot[w].new
            => r = rot[w] /\ phase[w] = "sent"

\* Between the staging and the commit the new row is there.
NewIsStaged ==
    \A w \in Worker : phase[w] \in {"staged", "sent", "acked", "swap"}
        => keys[rot[w].new] = "staged"

\* A rotation that is about to commit has the Court's pin, or did not ask.
AckedPinned ==
    \A w \in Worker : phase[w] = "acked" => pin = rot[w].new \/ rot[w].new \in unasked

\* A CA rotation does not ask, and nobody else can have its key pinned.
SwapUnasked ==
    \A w \in Worker : phase[w] = "swap" => pin # rot[w].new /\ rot[w].new \in unasked

\* A recovery runs without a rotation beside it, on a staged row, and its
\* decision still agrees with the Court's pin.
RecoversAlone ==
    \A w \in Worker : phase[w] \in Recovering =>
        /\ \A r \in wire : r.old = NoKey
        /\ keys[rot[w].new] = "staged"
        /\ \A v \in Worker \ {w} : phase[v] \notin (Rotating \ Reissuing) \cup Recovering
        /\ phase[w] = "activate" => pin = rot[w].new \/ rot[w].new \in unasked
        /\ phase[w] = "drop" => pin # rot[w].new

\* The row of the pinned key is in the table.
PinHasRow == pin # NoKey => keys[pin] \in {"staged"} \cup WasSigner

\* A retired key that is pinned, or may still be, was followed by a signer the
\* Court was not asked for.
RetiredFollowed ==
    \A k \in Kid : keys[k] = "deprecated" /\ pin \in {NoKey, k} => Active \subseteq unasked

PinInv ==
    /\ DistinctNew /\ OldWasSigner /\ CachedWasSigner /\ JoinsSigner
    /\ WireStaged /\ WireOwned /\ NewIsStaged /\ AckedPinned /\ SwapUnasked
    /\ RecoversAlone /\ PinHasRow /\ RetiredFollowed

\* A step that leaves the rows, the pin and the history alone, puts no rotation
\* on the wire, and in which operations only end, keeps the invariant.
LEMMA QuietPinStep ==
    ASSUME TypeOK, TypeOK', PinInv, keys' = keys, pin' = pin, unasked' = unasked,
           \A r \in wire' : r \in wire \/ (r.old = NoKey /\ keys[r.new] \in WasSigner),
           \A v \in Worker :
               /\ phase'[v] \in Busy => phase'[v] = phase[v] /\ rot'[v] = rot[v]
               /\ active'[v] \in {NoKey, active[v]} \cup Active \cup found[v]
               /\ found'[v] \subseteq found[v] \cup Active
    PROVE  PinInv'
<1> USE DEF Busy
<1>1. \A v \in Worker : rot'[v] \in Rotation
                            => phase'[v] = phase[v] /\ rot'[v] = rot[v]
  BY DEF TypeOK
<1>2. (DistinctNew /\ OldWasSigner)'
  BY <1>1 DEF PinInv, DistinctNew, OldWasSigner
<1>3. (JoinsSigner /\ WireStaged /\ WireOwned)'
  BY <1>1 DEF PinInv, JoinsSigner, WireStaged, WireOwned
<1>4. CachedWasSigner'
  BY DEF PinInv, CachedWasSigner, Active, WasSigner
<1>5. (NewIsStaged /\ AckedPinned /\ SwapUnasked)'
  BY DEF PinInv, NewIsStaged, AckedPinned, SwapUnasked, Rotating
<1>6. RecoversAlone'
  BY DEF PinInv, RecoversAlone
<1>7. (PinHasRow /\ RetiredFollowed)'
  BY DEF PinInv, PinHasRow, RetiredFollowed, Active
<1> QED BY <1>2, <1>3, <1>4, <1>5, <1>6, <1>7 DEF PinInv

\* With no key in the table there is no request and no pin.
LEMMA NoKeyNoPin ==
    ASSUME SignerInv, PinInv, Active = {}
    PROVE  /\ wire = {} /\ pin = NoKey
           /\ \A w \in Worker : rot[w] \notin Rotation /\ active[w] = NoKey /\ found[w] = {}
<1>1. \A k \in Kid : keys[k] = "unused"
  BY DEF SignerInv, OneActive
<1>2. wire = {}
  BY <1>1 DEF SignerInv, TypeOK, PinInv, WireStaged, JoinsSigner, WasSigner, Request
<1>3. pin = NoKey
  BY <1>1 DEF SignerInv, TypeOK, PinInv, PinHasRow, WasSigner
<1>4. \A w \in Worker : rot[w] \notin Rotation
  BY <1>1 DEF PinInv, OldWasSigner, WasSigner, Rotation
<1>5. \A w \in Worker : active[w] = NoKey /\ found[w] = {}
  BY <1>1 DEF SignerInv, TypeOK, PinInv, CachedWasSigner, WasSigner
<1> QED BY <1>2, <1>3, <1>4, <1>5

\* Boot and onboarding.
LEMMA BootPin ==
    ASSUME SignerInv, TypeOK', PinInv, NEW w \in Worker,
           Boot(w) \/ DetectStaged(w) \/ TakeMintLock(w) \/ ReadActive(w)
             \/ Adopt(w) \/ Mint(w) \/ Onboard(w)
    PROVE  PinInv'
<1> USE DEF Enter
<1>0. TypeOK
  BY DEF SignerInv
<1>1. CASE Boot(w) \/ DetectStaged(w) \/ TakeMintLock(w) \/ ReadActive(w) \/ Adopt(w)
  <2>1. pin' = pin /\ wire' = wire /\ rot' = rot /\ unasked' = unasked
    BY <1>1 DEF Boot, DetectStaged, TakeMintLock, ReadActive, Adopt
  <2>2. \A v \in Worker : phase'[v] \in Busy => phase'[v] = phase[v]
    BY <1>0, <1>1 DEF Boot, DetectStaged, TakeMintLock, ReadActive, Adopt, TypeOK,
                      Busy, Rotating, Recovering
  <2>3. keys' = keys
    BY <1>1, AdoptKeepsRows DEF Boot, DetectStaged, TakeMintLock, ReadActive
  <2>4. \A v \in Worker : /\ active'[v] \in {NoKey, active[v]} \cup Active \cup found[v]
                          /\ found'[v] \subseteq found[v] \cup Active
    BY <1>0, <1>1 DEF Boot, DetectStaged, TakeMintLock, ReadActive, Adopt, TypeOK
  <2> QED BY <1>0, <2>1, <2>2, <2>3, <2>4, QuietPinStep
<1>2. CASE Mint(w)
  <2>1. Active = {}
    BY <1>2 DEF Mint, SignerInv, MinterSawEmpty
  <2>2. PICK k \in Kid : InsertKey(k, "active") /\ active' = [active EXCEPT ![w] = k]
    BY <1>2 DEF Mint
  <2>3. /\ \A v \in Worker : rot'[v] \notin Rotation /\ active'[v] \in {NoKey, k} /\ found'[v] = {}
        /\ wire' = {} /\ pin' = NoKey
    BY <1>0, <1>2, <2>1, <2>2, NoKeyNoPin DEF Mint, TypeOK
  <2>4. keys'[k] = "active" /\ \A j \in Kid : keys'[j] # "deprecated"
    <3>1. \A j \in Kid : keys[j] = "unused"
      BY <2>1 DEF SignerInv, OneActive
    <3> QED BY <1>0, <2>2, <3>1 DEF InsertKey, TypeOK
  <2>5. \A v \in Worker : phase'[v] \notin Busy
    BY <2>3 DEF TypeOK, Busy
  <2> QED
    BY <2>3, <2>4, <2>5
       DEF PinInv, DistinctNew, OldWasSigner, CachedWasSigner, JoinsSigner, WireStaged,
           WireOwned, NewIsStaged, AckedPinned, SwapUnasked, RecoversAlone, PinHasRow,
           RetiredFollowed, Busy, Rotating, Recovering, WasSigner
<1>3. CASE Onboard(w)
  <2>1. wire' = wire \cup {[old |-> NoKey, new |-> active[w]]} /\ keys[active[w]] \in WasSigner
    BY <1>3 DEF Onboard, PinInv, CachedWasSigner
  <2> QED BY <1>0, <1>3, <2>1, QuietPinStep DEF Onboard
<1> QED BY <1>1, <1>2, <1>3

\* The Court moves its pin to a staged key or, the first time, to one that was
\* a signer, and away from no acked one.
LEMMA CourtPin ==
    ASSUME SignerInv, TypeOK', PinInv, NEW r \in wire, CourtHandles(r)
    PROVE  PinInv'
<1>0. TypeOK
  BY DEF SignerInv
<1>1. /\ wire' = wire \ {r}
      /\ UNCHANGED <<keys, phase, rot, active, found>> /\ Active' = Active
      /\ \/ pin' = pin /\ unasked' = unasked
         \/ pin = r.old /\ pin' = r.new /\ unasked' = unasked \ {r.new}
  BY DEF CourtHandles, Active
<1>2. /\ r.new \in Kid /\ r.new # NoKey
      /\ r.old = NoKey => keys[r.new] \in WasSigner
      /\ r.old # NoKey => keys[r.new] = "staged" /\ keys[r.old] \in WasSigner
  BY <1>0, KeyConstants DEF PinInv, WireStaged, JoinsSigner, TypeOK, Request
<1>3. (DistinctNew /\ OldWasSigner /\ NewIsStaged /\ CachedWasSigner)'
  BY <1>1 DEF PinInv, DistinctNew, OldWasSigner, NewIsStaged, CachedWasSigner
<1>4. (WireStaged /\ WireOwned /\ JoinsSigner)'
  BY <1>1 DEF PinInv, WireStaged, WireOwned, JoinsSigner
<1>5. AckedPinned'
  <2> SUFFICES ASSUME NEW w \in Worker, phase[w] = "acked"
               PROVE  pin' = rot[w].new \/ rot[w].new \in unasked'
    BY <1>1 DEF AckedPinned
  <2>1. keys[rot[w].new] = "staged" /\ (pin = rot[w].new \/ rot[w].new \in unasked)
    BY DEF PinInv, AckedPinned, NewIsStaged
  <2>2. rot[w].new # NoKey
    BY <1>0, KeyConstants DEF TypeOK, Rotation, Rotating
  <2> QED BY <1>1, <1>2, <2>1, <2>2 DEF WasSigner
<1>6. SwapUnasked'
  <2> SUFFICES ASSUME NEW w \in Worker, phase[w] = "swap"
               PROVE  pin' # rot[w].new /\ rot[w].new \in unasked'
    BY <1>1 DEF SwapUnasked
  <2>1. /\ keys[rot[w].new] = "staged" /\ rot[w] \in Rotation
        /\ pin # rot[w].new /\ rot[w].new \in unasked
    BY <1>0 DEF PinInv, SwapUnasked, NewIsStaged, TypeOK, Rotating
  <2>2. r.new # rot[w].new
    BY <1>2, <2>1 DEF PinInv, WireOwned, WasSigner
  <2> QED BY <1>1, <2>1, <2>2
<1>7. RecoversAlone'
  <2> SUFFICES ASSUME NEW w \in Worker, phase[w] \in Recovering
               PROVE  /\ \A q \in wire' : q.old = NoKey
                      /\ keys[rot[w].new] = "staged"
                      /\ \A v \in Worker \ {w} :
                           phase[v] \notin (Rotating \ Reissuing) \cup Recovering
                      /\ phase[w] = "activate" => pin' = rot[w].new \/ rot[w].new \in unasked'
                      /\ phase[w] = "drop" => pin' # rot[w].new
    BY <1>1 DEF RecoversAlone
  <2>1. r.new # rot[w].new
    BY <1>2 DEF PinInv, RecoversAlone, WasSigner
  <2>2. rot[w].new # NoKey
    BY <1>0, KeyConstants DEF TypeOK, Rotation
  <2> QED BY <1>1, <2>1, <2>2 DEF PinInv, RecoversAlone
<1>8. PinHasRow'
  BY <1>1, <1>2 DEF PinInv, PinHasRow, WasSigner
<1>9. RetiredFollowed'
  <2> SUFFICES ASSUME NEW k \in Kid, keys[k] = "deprecated", pin' \in {NoKey, k}
               PROVE  Active \subseteq unasked'
    BY <1>1 DEF RetiredFollowed
  <2>1. CASE pin' = pin /\ unasked' = unasked
    BY <2>1 DEF PinInv, RetiredFollowed
  <2>2. CASE pin = r.old /\ pin' = r.new /\ unasked' = unasked \ {r.new}
    <3>1. k = r.new /\ pin = NoKey
      BY <1>2, <2>2
    <3>2. k \notin Active
      BY DEF Active
    <3> QED BY <2>2, <3>1, <3>2 DEF PinInv, RetiredFollowed
  <2> QED BY <1>1, <2>1, <2>2
<1> QED BY <1>3, <1>4, <1>5, <1>6, <1>7, <1>8, <1>9 DEF PinInv

\* A rotation begins: nobody else has its new key, and no recovery runs.
LEMMA CheckPin ==
    ASSUME SignerInv, TypeOK', PinInv, NEW w \in Worker, RotateCheck(w) \/ ReissueReads(w)
    PROVE  PinInv'
<1>0. TypeOK
  BY DEF SignerInv
<1>1. PICK k \in Kid, o \in Active :
        /\ keys[k] = "unused"
        /\ \A v \in Worker : rot[v].new # k
        /\ rot' = [rot EXCEPT ![w] = [old |-> o, new |-> k]]
  BY DEF RotateCheck, ReissueReads, CurrentSigner
<1>2. /\ rot'[w].old = o /\ rot'[w].new = k /\ keys[o] = "active"
      /\ \A v \in Worker \ {w} : rot'[v] = rot[v]
  BY <1>0, <1>1 DEF TypeOK, Active
<1>3. /\ phase'[w] \in {"checked", "reissue"}
      /\ \A v \in Worker \ {w} : phase'[v] = phase[v]
      /\ UNCHANGED <<keys, pin, wire, active, found, unasked>>
      /\ phase'[w] = "checked" => Staged = {}
  BY <1>0 DEF RotateCheck, ReissueReads, Enter, TypeOK
<1>4. DistinctNew'
  BY <1>1, <1>2 DEF PinInv, DistinctNew
<1>5. OldWasSigner'
  BY <1>2, <1>3 DEF PinInv, OldWasSigner, WasSigner
<1>6. (WireStaged /\ JoinsSigner /\ CachedWasSigner)'
  BY <1>3 DEF PinInv, WireStaged, JoinsSigner, CachedWasSigner
<1>7. WireOwned'
  BY <1>1, <1>2, <1>3 DEF PinInv, WireOwned, WireStaged
<1>8. (NewIsStaged /\ AckedPinned /\ SwapUnasked)'
  BY <1>2, <1>3 DEF PinInv, NewIsStaged, AckedPinned, SwapUnasked
<1>9. phase'[w] = "checked" => \A v \in Worker : phase[v] \notin Recovering
  BY <1>0, <1>3 DEF PinInv, RecoversAlone, Staged, TypeOK, Rotation
<1>10. RecoversAlone'
  BY <1>2, <1>3, <1>9 DEF PinInv, RecoversAlone, Recovering, Reissuing
<1>11. (PinHasRow /\ RetiredFollowed)'
  BY <1>3 DEF PinInv, PinHasRow, RetiredFollowed, Active
<1> QED BY <1>4, <1>5, <1>6, <1>7, <1>8, <1>10, <1>11 DEF PinInv

\* No worker recovers while another one is inside a rotation.
LEMMA RotatingExcludesRecovery ==
    ASSUME PinInv, NEW w \in Worker, phase[w] \in Rotating \ Reissuing
    PROVE  \A v \in Worker : phase[v] \notin Recovering
BY DEF PinInv, RecoversAlone, Rotating, Recovering

\* The new row, which was nowhere before.
LEMMA StagePin ==
    ASSUME SignerInv, TypeOK', PinInv, NEW w \in Worker, StageRow(w) \/ ReissueStages(w)
    PROVE  PinInv'
<1> DEFINE new == rot[w].new
<1>0. TypeOK
  BY DEF SignerInv
<1>1. rot[w] \in Rotation /\ new \in Kid /\ new # NoKey
  BY <1>0, KeyConstants DEF StageRow, ReissueStages, TypeOK, Rotation, Rotating
<1>2. /\ UNCHANGED <<pin, wire, rot, active, found>>
      /\ keys[new] = "unused" /\ keys'[new] = "staged"
      /\ \A k \in Kid \ {new} : keys'[k] = keys[k]
      /\ unasked \subseteq unasked'
      /\ \/ phase[w] = "checked" /\ phase'[w] = "staged"
         \/ phase[w] = "reissue" /\ phase'[w] = "swap" /\ new \in unasked'
      /\ \A v \in Worker \ {w} : phase'[v] = phase[v]
  BY <1>0, <1>1 DEF StageRow, ReissueStages, InsertKey, Enter, TypeOK
<1>3. DistinctNew'
  BY <1>2 DEF PinInv, DistinctNew
<1>4. OldWasSigner'
  BY <1>0, <1>2 DEF PinInv, OldWasSigner, Rotation, WasSigner
<1>5. CachedWasSigner'
  BY <1>0, <1>2 DEF PinInv, CachedWasSigner, TypeOK, WasSigner
<1>6. (WireStaged /\ JoinsSigner)'
  BY <1>0, <1>2 DEF PinInv, WireStaged, JoinsSigner, TypeOK, Request, WasSigner
<1>7. WireOwned'
  BY <1>2 DEF PinInv, WireOwned
<1>8. (NewIsStaged /\ AckedPinned)'
  BY <1>0, <1>2 DEF PinInv, NewIsStaged, AckedPinned, TypeOK, Rotation, Rotating
<1>9. pin # new
  BY <1>1, <1>2 DEF PinInv, PinHasRow, WasSigner
<1>10. SwapUnasked'
  BY <1>2, <1>9 DEF PinInv, SwapUnasked
<1>11. RecoversAlone'
  <2>1. CASE phase[w] = "checked"
    BY <1>2, <2>1, RotatingExcludesRecovery DEF RecoversAlone, Rotating, Reissuing, Recovering
  <2>2. CASE phase[w] = "reissue"
    <3>1. \A v \in Worker : phase'[v] \in Recovering
              => v # w /\ phase[v] \in Recovering /\ rot[v].new \in Kid
      BY <1>0, <1>2, <2>2 DEF TypeOK, Rotation, Recovering
    <3> QED BY <1>2, <2>2, <3>1 DEF PinInv, RecoversAlone, Reissuing, Recovering
  <2> QED BY <1>2, <2>1, <2>2
<1>12. PinHasRow'
  BY <1>0, <1>2 DEF PinInv, PinHasRow, TypeOK
<1>13. Active' = Active
  BY <1>1, <1>2 DEF Active
<1>14. RetiredFollowed'
  BY <1>2, <1>13 DEF PinInv, RetiredFollowed
<1> QED BY <1>3, <1>4, <1>5, <1>6, <1>7, <1>8, <1>10, <1>11, <1>12, <1>14 DEF PinInv

\* From the staged row to the Court's answer.
LEMMA PropagatePin ==
    ASSUME NoLostPin, SignerInv, TypeOK', PinInv, NEW w \in Worker,
           Propagate(w) \/ CourtAcks(w) \/ PropagatorRaised(w)
    PROVE  PinInv'
<1> DEFINE new == rot[w].new
<1>0. TypeOK
  BY DEF SignerInv
<1>a. phase[w] \in Rotating \ Reissuing
  BY DEF Propagate, CourtAcks, PropagatorRaised, Rotating, Reissuing
<1>b. rot[w] \in Rotation /\ rot[w].old \in Kid /\ new \in Kid /\ rot[w].old # NoKey
  BY <1>0, <1>a, KeyConstants DEF TypeOK, Rotation
<1>c. \A v \in Worker : phase[v] \notin Recovering
  BY <1>a, RotatingExcludesRecovery
<1>d. /\ \A v \in Worker \ {w} : phase'[v] = phase[v] /\ rot'[v] = rot[v]
      /\ phase'[w] \notin Recovering /\ UNCHANGED <<pin, active, found>>
  BY <1>0 DEF Propagate, CourtAcks, PropagatorRaised, Leave, Enter, TypeOK, Recovering
<1>e. RecoversAlone'
  BY <1>c, <1>d DEF RecoversAlone
<1>1. CASE Propagate(w)
  <2>1. /\ UNCHANGED <<keys, rot>> /\ phase[w] = "staged" /\ Active' = Active
        /\ \/ wire' = wire \cup {rot[w]} /\ phase'[w] = "sent" /\ unasked' = unasked
           \/ wire' = wire /\ phase'[w] = "acked" /\ unasked' = unasked \cup {new}
    BY <1>0, <1>1 DEF Propagate, Enter, TypeOK, Active
  <2>2. (DistinctNew /\ OldWasSigner /\ CachedWasSigner /\ PinHasRow)'
    BY <1>d, <2>1 DEF PinInv, DistinctNew, OldWasSigner, CachedWasSigner, PinHasRow
  <2>3. (WireStaged /\ JoinsSigner)'
    BY <1>b, <2>1 DEF PinInv, WireStaged, JoinsSigner, NewIsStaged, OldWasSigner
  <2>4. WireOwned'
    BY <1>b, <1>d, <2>1 DEF PinInv, WireOwned, DistinctNew
  <2>5. (NewIsStaged /\ AckedPinned /\ SwapUnasked)'
    BY <1>d, <2>1 DEF PinInv, NewIsStaged, AckedPinned, SwapUnasked
  <2>6. RetiredFollowed'
    BY <1>d, <2>1 DEF PinInv, RetiredFollowed
  <2> QED BY <1>e, <2>2, <2>3, <2>4, <2>5, <2>6 DEF PinInv
<1>2. CASE CourtAcks(w)
  <2>1. /\ UNCHANGED <<keys, rot, wire, unasked>> /\ phase[w] = "sent" /\ Active' = Active
        /\ rot[w] \notin wire /\ pin = new /\ phase'[w] = "acked"
    BY <1>0, <1>2 DEF CourtAcks, Enter, TypeOK, Active
  <2>2. (DistinctNew /\ OldWasSigner /\ CachedWasSigner /\ PinHasRow)'
    BY <1>d, <2>1 DEF PinInv, DistinctNew, OldWasSigner, CachedWasSigner, PinHasRow
  <2>3. (WireStaged /\ JoinsSigner /\ RetiredFollowed)'
    BY <1>d, <2>1 DEF PinInv, WireStaged, JoinsSigner, RetiredFollowed
  <2>4. WireOwned'
    BY <1>d, <2>1 DEF PinInv, WireOwned
  <2>5. (NewIsStaged /\ AckedPinned /\ SwapUnasked)'
    BY <1>d, <2>1 DEF PinInv, NewIsStaged, AckedPinned, SwapUnasked
  <2> QED BY <1>e, <2>2, <2>3, <2>4, <2>5 DEF PinInv
<1>3. CASE PropagatorRaised(w)
  <2>1. /\ phase[w] = "sent" /\ phase'[w] = "idle" /\ unasked' = unasked
        /\ rot'[w] = NoRotation
        /\ pin # new /\ wire' = wire \ {rot[w]}
        /\ \A k \in Kid \ {new} : keys'[k] = keys[k]
        /\ keys'[new] \in {"staged", "deleted"}
    BY <1>0, <1>3, <1>b DEF PropagatorRaised, Leave, Enter, Drop, NoLostPin, TypeOK,
                            PinInv, NewIsStaged
  <2>a. keys[new] = "staged" /\ rot'[w] \notin Rotation
    BY <2>1, KeyConstants DEF PinInv, NewIsStaged, NoRotation, Rotation
  <2>2. DistinctNew'
    BY <1>d, <2>a DEF PinInv, DistinctNew
  <2>3. (OldWasSigner /\ CachedWasSigner)'
    BY <1>0, <1>d, <2>1, <2>a
       DEF PinInv, OldWasSigner, CachedWasSigner, Rotation, WasSigner, TypeOK
  <2>4. \A r \in wire' : r \in wire /\ (r.old = NoKey \/ r.new # new)
    BY <1>b, <2>1 DEF PinInv, WireOwned
  <2>5. (WireStaged /\ JoinsSigner)'
    BY <1>0, <2>1, <2>a, <2>4 DEF PinInv, WireStaged, JoinsSigner, TypeOK, Request, WasSigner
  <2>6. WireOwned'
    BY <1>d, <2>a, <2>4 DEF PinInv, WireOwned
  <2>7. \A v \in Worker \ {w} : phase[v] \in Rotating
            => rot[v].new # new /\ rot[v].new \in Kid
    BY <1>0, <1>b DEF PinInv, DistinctNew, TypeOK, Rotation
  <2>8. (NewIsStaged /\ AckedPinned /\ SwapUnasked)'
    BY <1>d, <2>1, <2>7 DEF PinInv, NewIsStaged, AckedPinned, SwapUnasked, Rotating
  <2>9. PinHasRow'
    BY <1>0, <1>d, <2>1 DEF PinInv, PinHasRow, TypeOK
  <2>10. Active' = Active
    BY <1>b, <2>1, <2>a DEF Active
  <2>11. RetiredFollowed'
    BY <1>d, <2>1, <2>10 DEF PinInv, RetiredFollowed
  <2> QED BY <1>e, <2>2, <2>3, <2>5, <2>6, <2>8, <2>9, <2>11 DEF PinInv
<1> QED BY <1>1, <1>2, <1>3

\* A commit comes after the pin, in a rotation and in a recovery, or concerns a
\* key the Court was not asked for.
LEMMA CommitAfterPin ==
    ASSUME PinInv, NEW w \in Worker, Commit(w) \/ ReissueCommits(w)
    PROVE  pin = rot[w].new \/ rot[w].new \in unasked
BY DEF Commit, ReissueCommits, PinInv, AckedPinned, SwapUnasked, RecoversAlone, Recovering

\* A commit exchanges the signer for such a key.
LEMMA CommitPin ==
    ASSUME SignerInv, TypeOK', PinInv, NEW w \in Worker, Commit(w) \/ ReissueCommits(w)
    PROVE  PinInv'
<1> DEFINE old == rot[w].old
           new == rot[w].new
<1>0. TypeOK
  BY DEF SignerInv
<1>1. /\ \/ phase[w] \in {"acked", "activate"} /\ phase'[w] = "refresh"
         \/ phase[w] = "swap" /\ phase'[w] = "recache"
      /\ UNCHANGED <<pin, wire, rot, active, found, unasked>>
      /\ keys[new] = "staged" /\ keys[old] = "active"
      /\ \A v \in Worker \ {w} : phase'[v] = phase[v]
  BY <1>0 DEF Commit, ReissueCommits, CanCommit, Enter, TypeOK
<1>2. rot[w] \in Rotation /\ old \in Kid /\ new \in Kid /\ new # NoKey
  BY <1>0, <1>1, KeyConstants DEF TypeOK, Rotation, Rotating, Recovering
<1>3. /\ keys'[new] = "active" /\ keys'[old] = "deprecated"
      /\ \A k \in Kid \ {old, new} : keys'[k] = keys[k]
  BY <1>0, <1>1, <1>2 DEF Commit, ReissueCommits, Committed, TypeOK
<1>4. \A r \in wire : r.old = NoKey \/ r.new # new
  BY <1>1, <1>2 DEF PinInv, WireOwned
<1>5. DistinctNew'
  BY <1>1 DEF PinInv, DistinctNew
<1>6. OldWasSigner'
  BY <1>1, <1>2, <1>3 DEF PinInv, OldWasSigner, Rotation, WasSigner
<1>7. CachedWasSigner'
  BY <1>0, <1>1, <1>2, <1>3 DEF PinInv, CachedWasSigner, WasSigner, TypeOK
<1>8. (WireStaged /\ JoinsSigner)'
  BY <1>0, <1>1, <1>2, <1>3, <1>4
     DEF PinInv, WireStaged, JoinsSigner, TypeOK, Request, WasSigner
<1>9. WireOwned'
  BY <1>1, <1>2, <1>4 DEF PinInv, WireOwned
<1>10. \A v \in Worker \ {w} : phase[v] \in Busy
           => rot[v].new # new /\ rot[v].new \in Kid
  BY <1>0, <1>2 DEF PinInv, DistinctNew, TypeOK, Rotation, Busy
<1>11. (NewIsStaged /\ AckedPinned /\ SwapUnasked)'
  BY <1>1, <1>3, <1>10 DEF PinInv, NewIsStaged, AckedPinned, SwapUnasked, Rotating, Busy
<1>12. RecoversAlone'
  <2> SUFFICES ASSUME NEW u \in Worker, phase'[u] \in Recovering
               PROVE  /\ \A r \in wire : r.old = NoKey
                      /\ keys'[rot[u].new] = "staged"
                      /\ \A v \in Worker \ {u} :
                           phase'[v] \notin (Rotating \ Reissuing) \cup Recovering
                      /\ phase'[u] = "activate" => pin = rot[u].new \/ rot[u].new \in unasked
                      /\ phase'[u] = "drop" => pin # rot[u].new
    BY <1>1 DEF RecoversAlone
  <2>1. u # w /\ phase'[u] = phase[u]
    BY <1>1 DEF Recovering
  <2>2. phase[w] = "swap" /\ phase'[w] = "recache"
    BY <1>1, <2>1 DEF PinInv, RecoversAlone, Rotating, Reissuing, Recovering
  <2>3. keys[rot[u].new] = "staged" /\ rot[u].new \in Kid \ {old, new}
    BY <1>1, <1>10, <2>1 DEF PinInv, RecoversAlone, Busy
  <2> QED BY <1>1, <1>3, <2>1, <2>2, <2>3 DEF PinInv, RecoversAlone, Reissuing, Recovering
<1>13. PinHasRow'
  BY <1>0, <1>1, <1>2, <1>3 DEF PinInv, PinHasRow, TypeOK, WasSigner
<1>14. RetiredFollowed'
  <2>1. Active' = {new}
    BY CommitSigner
  <2>2. pin = new \/ new \in unasked
    BY CommitAfterPin
  <2> QED BY <1>1, <1>2, <1>3, <2>1, <2>2 DEF RetiredFollowed
<1> QED
  BY <1>5, <1>6, <1>7, <1>8, <1>9, <1>11, <1>12, <1>13, <1>14 DEF PinInv

\* An operation ends without touching the rows.
LEMMA LeavePin ==
    ASSUME SignerInv, TypeOK', PinInv, NEW w \in Worker,
           CommitFails(w) \/ Refresh(w) \/ ResolveFails(w) \/ ReissueFails(w)
             \/ Recache(w) \/ Crash(w)
    PROVE  PinInv'
<1>0. TypeOK
  BY DEF SignerInv
<1>1. keys' = keys /\ pin' = pin /\ wire' = wire /\ unasked' = unasked
  BY DEF CommitFails, Refresh, ResolveFails, ReissueFails, Recache, Crash
<1>2. \A v \in Worker : phase'[v] \in Busy
                            => phase'[v] = phase[v] /\ rot'[v] = rot[v]
  BY <1>0 DEF CommitFails, Refresh, ResolveFails, ReissueFails, Recache, Crash, Leave,
              Enter, TypeOK, Busy, Rotating, Recovering
<1>3. \A v \in Worker : active'[v] \in {NoKey, active[v]} \cup Active \cup found[v]
  <2>1. CASE Refresh(w)
    <3>1. UNCHANGED active \/ \E k \in Active : active' = [active EXCEPT ![w] = k]
      BY <2>1 DEF Refresh
    <3> QED BY <1>0, <3>1 DEF TypeOK
  <2>2. CASE ~Refresh(w)
    BY <1>0, <2>2 DEF CommitFails, ResolveFails, ReissueFails, Recache, Crash, TypeOK
  <2> QED BY <2>1, <2>2
<1>4. \A v \in Worker : found'[v] \subseteq found[v] \cup Active
  BY <1>0 DEF CommitFails, Refresh, ResolveFails, ReissueFails, Recache, Crash, TypeOK
<1> QED BY <1>0, <1>1, <1>2, <1>3, <1>4, QuietPinStep

\* A recovery begins when nothing else is under way.
LEMMA CompleteStagedPin ==
    ASSUME NoLostPin, SignerInv, TypeOK', PinInv, NEW w \in Worker, CompleteStaged(w)
    PROVE  PinInv'
<1>0. TypeOK
  BY DEF SignerInv
<1>1. /\ \A r \in wire : r.old = NoKey
      /\ \A v \in Worker \ {w} : phase[v] \in {"absent", "down", "idle"}
  BY DEF CompleteStaged, NoLostPin, NothingInFlight, AtRest
<1>2. PICK k \in Kid, o \in Kid :
        /\ keys[k] = "staged" /\ keys[o] = "active"
        /\ rot' = [rot EXCEPT ![w] = [old |-> o, new |-> k]]
        /\ \/ /\ pin \in {k, NoKey} /\ Enter(w, "activate")
              /\ unasked' = IF pin = k THEN unasked ELSE unasked \cup {k}
           \/ pin # k /\ Enter(w, "drop") /\ unasked' = unasked
  BY DEF CompleteStaged, Staged, Active
<1>3. /\ UNCHANGED <<keys, pin, wire, active, found>> /\ Active' = Active
      /\ rot'[w].old = o /\ rot'[w].new = k /\ unasked \subseteq unasked'
      /\ \A v \in Worker \ {w} : rot'[v] = rot[v] /\ phase'[v] = phase[v]
      /\ \/ phase'[w] = "activate" /\ (pin = k \/ k \in unasked')
         \/ pin # k /\ phase'[w] = "drop"
  BY <1>0, <1>2 DEF CompleteStaged, Enter, TypeOK, Active
<1>4. \A v \in Worker \ {w} : phase'[v] \notin Busy /\ rot'[v] \notin Rotation
  BY <1>1, <1>3 DEF TypeOK, Busy, Rotating, Recovering
<1>5. (DistinctNew /\ OldWasSigner /\ WireStaged /\ WireOwned)'
  BY <1>1, <1>2, <1>3, <1>4
     DEF DistinctNew, OldWasSigner, WireStaged, WireOwned, WasSigner
<1>6. (NewIsStaged /\ AckedPinned /\ SwapUnasked)'
  BY <1>3, <1>4 DEF NewIsStaged, AckedPinned, SwapUnasked, Busy, Rotating
<1>7. RecoversAlone'
  BY <1>1, <1>2, <1>3, <1>4 DEF RecoversAlone, Busy
<1>8. (JoinsSigner /\ CachedWasSigner /\ PinHasRow /\ RetiredFollowed)'
  BY <1>3 DEF PinInv, JoinsSigner, CachedWasSigner, PinHasRow, RetiredFollowed
<1> QED BY <1>5, <1>6, <1>7, <1>8 DEF PinInv

\* The row a recovery drops is not pinned and cannot be any more.
LEMMA ResolveDropPin ==
    ASSUME SignerInv, TypeOK', PinInv, NEW w \in Worker, ResolveDrop(w)
    PROVE  PinInv'
<1> DEFINE new == rot[w].new
<1>0. TypeOK
  BY DEF SignerInv
<1>1. rot[w] \in Rotation /\ new \in Kid
  BY <1>0 DEF ResolveDrop, TypeOK, Rotation, Recovering
<1>2. /\ UNCHANGED <<pin, wire, active, found, unasked>> /\ pin # new
      /\ \A r \in wire : r.old = NoKey
      /\ \A v \in Worker \ {w} : phase[v] \notin (Rotating \ Reissuing) \cup Recovering
      /\ keys[new] = "staged"
  BY DEF ResolveDrop, PinInv, RecoversAlone, Recovering
<1>3. /\ \A k \in Kid \ {new} : keys'[k] = keys[k]
      /\ phase'[w] = "idle" /\ rot'[w] = NoRotation
      /\ \A v \in Worker \ {w} : phase'[v] = phase[v] /\ rot'[v] = rot[v]
      /\ keys'[new] = "deleted"
  BY <1>0, <1>1, <1>2 DEF ResolveDrop, Drop, Leave, Enter, TypeOK
<1>4. rot'[w] \notin Rotation /\ Active' = Active
  BY <1>1, <1>2, <1>3, KeyConstants DEF NoRotation, Rotation, Active
<1>5. (DistinctNew /\ OldWasSigner)'
  BY <1>2, <1>3, <1>4 DEF PinInv, DistinctNew, OldWasSigner, Rotation, WasSigner
<1>6. (CachedWasSigner /\ JoinsSigner)'
  BY <1>0, <1>2, <1>3 DEF PinInv, CachedWasSigner, JoinsSigner, WasSigner, TypeOK, Request
<1>7. (WireStaged /\ WireOwned)'
  BY <1>2 DEF WireStaged, WireOwned
<1>8. \A v \in Worker \ {w} : phase[v] \in Rotating
          => rot[v].new # new /\ rot[v].new \in Kid
  BY <1>0, <1>1 DEF PinInv, DistinctNew, TypeOK, Rotation
<1>9. (NewIsStaged /\ AckedPinned /\ SwapUnasked)'
  BY <1>2, <1>3, <1>8 DEF PinInv, NewIsStaged, AckedPinned, SwapUnasked, Rotating
<1>10. RecoversAlone'
  BY <1>2, <1>3 DEF RecoversAlone, Recovering
<1>11. (PinHasRow /\ RetiredFollowed)'
  BY <1>0, <1>2, <1>3, <1>4 DEF PinInv, PinHasRow, RetiredFollowed, TypeOK
<1> QED BY <1>5, <1>6, <1>7, <1>9, <1>10, <1>11 DEF PinInv

-----------------------------------------------------------------------------
\* Both invariants hold in every reachable state.
LEMMA PinInvAlways == ASSUME NoLostPin PROVE Spec => [](SignerInv /\ PinInv)
<1>1. Init => PinInv
  <2> SUFFICES ASSUME Init PROVE PinInv
    OBVIOUS
  <2>1. /\ \A w \in Worker : /\ rot[w] \notin Rotation /\ phase[w] \in {"down", "absent"}
                             /\ active[w] = NoKey /\ found[w] = {}
        /\ \A k \in Kid : keys[k] = "unused"
    BY KeyConstants DEF Init, NoRotation, Rotation
  <2> QED
    BY <2>1 DEF Init, PinInv, DistinctNew, OldWasSigner, CachedWasSigner, JoinsSigner,
                WireStaged, WireOwned, NewIsStaged, AckedPinned, SwapUnasked,
                RecoversAlone, PinHasRow, RetiredFollowed, Recovering
<1>2. SignerInv /\ TypeOK' /\ PinInv /\ [Next]_vars => PinInv'
  <2> SUFFICES ASSUME SignerInv, TypeOK', PinInv, [Next]_vars PROVE PinInv'
    OBVIOUS
  <2>1. CASE UNCHANGED vars
    BY <2>1, QuietPinStep DEF vars, SignerInv
  <2>2. ASSUME NEW r \in wire, CourtHandles(r) PROVE PinInv'
    BY <2>2, CourtPin
  <2>3. ASSUME NEW w \in Worker, WorkerStep(w) \/ Onboard(w) \/ RotateCheck(w)
                                   \/ ReissueReads(w) \/ CompleteStaged(w) \/ Crash(w)
        PROVE  PinInv'
    BY <2>3, BootPin, CheckPin, StagePin, PropagatePin, CommitPin, LeavePin,
       CompleteStagedPin, ResolveDropPin DEF WorkerStep
  <2> QED BY <2>1, <2>2, <2>3 DEF Next
<1>3. SignerInv => TypeOK
  BY DEF SignerInv
<1> QED BY <1>1, <1>2, <1>3, SignerInvAlways, PTL DEF Spec

\* In every deployment in which the Court's answers arrive and staged rows
\* are resolved only while nothing is in flight, the private key of the
\* pinned public key stays in the table, through every crash, failed cleanup,
\* failed commit, racing rotation and late join of any number of workers, with
\* a bridge to the Court or without, and it is retired only when the signer is
\* one the Court was not asked to pin.
THEOREM PinnedKeyAlwaysKept == ASSUME NoLostPin PROVE Spec => []PinnedKeyKept
<1>1. SignerInv /\ PinInv => PinnedKeyKept
  BY DEF SignerInv, TypeOK, PinInv, PinHasRow, RetiredFollowed, PinnedKeyKept, WasSigner
<1> QED BY <1>1, PinInvAlways, PTL

\* Under the same conditions no staged key is activated ahead of the Court, if
\* the Court was asked to pin it.
THEOREM ActivationFollowsPin == ASSUME NoLostPin PROVE Spec => ActivatedIsPinned
<1> DEFINE Follows == \A k \in Kid : keys[k] = "staged" /\ keys'[k] = "active"
                                         => pin = k \/ k \in unasked
<1>1. SignerInv /\ PinInv /\ [Next]_vars => [Follows]_vars
  <2> SUFFICES ASSUME SignerInv, PinInv, Next, NEW k \in Kid,
                      keys[k] = "staged", keys'[k] = "active"
               PROVE  pin = k \/ k \in unasked
    BY DEF vars
  <2>0. TypeOK
    BY DEF SignerInv
  <2>1. PICK w \in Worker : Commit(w) \/ ReissueCommits(w)
    <3>1. ASSUME NEW w \in Worker, Adopt(w) \/ Mint(w) \/ StageRow(w) \/ ReissueStages(w)
                   \/ PropagatorRaised(w) \/ ResolveDrop(w)
          PROVE  FALSE
      BY <2>0, <3>1 DEF Adopt, Mint, StageRow, ReissueStages, InsertKey, PropagatorRaised,
                        ResolveDrop, Drop, TypeOK
    <3> QED
      BY <3>1 DEF Next, WorkerStep, CourtHandles, Boot, DetectStaged, TakeMintLock,
                  ReadActive, Onboard, RotateCheck, Propagate, CourtAcks, CommitFails,
                  Refresh, ReissueReads, ReissueFails, Recache, CompleteStaged,
                  ResolveFails, Crash
  <2>2. rot[w].old \in Kid /\ rot[w].new \in Kid
    BY <2>0, <2>1 DEF Commit, ReissueCommits, TypeOK, Rotation, Rotating, Recovering
  <2>3. k = rot[w].new
    BY <2>0, <2>1, <2>2 DEF Commit, ReissueCommits, CanCommit, Committed, TypeOK
  <2> QED BY <2>1, <2>3, CommitAfterPin
<1> QED BY <1>1, PinInvAlways, PTL DEF Spec, ActivatedIsPinned

-----------------------------------------------------------------------------
(***************************************************************************)
(* A lone worker signs with the pinned key.  SignerPinned speaks of a      *)
(* worker at rest; what it did before decides.  A key that is read from    *)
(* the table fits the pin, whatever joins are still under way, and goes on *)
(* fitting it while it stays cached (Fits, JoinFits); only a staged key    *)
(* can take the pin from it, and then the halt is on or the rotation is    *)
(* not over (StagedOwn, SignsPinned).                                      *)
(***************************************************************************)

\* The read of the signer after a commit succeeds.
RefreshWorks == "refresh" \notin Faults

Solo(w) == \A v \in Worker : v # w => phase[v] = "absent"

\* A worker that finds no signer mints the first key.
MintsFirst(w) ==
    /\ phase[w] \in {"mint", "reading", "minting"} => Active = {}
    /\ phase[w] # "adopting"

\* A rotation that asks the Court, and a recovery, know of every staged row.
StagedOwn(w) ==
    /\ phase[w] \in {"checked", "refresh"} => Staged = {}
    /\ phase[w] \in {"staged", "sent", "acked"} \cup Recovering => Staged = {rot[w].new}

\* The pin is on the cached key, on a staged one, or the cached one is a signer
\* the Court was not asked for.
Fits(w) ==
    active[w] # NoKey /\ phase[w] # "refresh"
        => pin \in {NoKey, active[w]} \cup Staged \/ active[w] \in unasked

\* A join that is under way will make the pin fit as well.
JoinFits(w) ==
    active[w] # NoKey /\ pin = NoKey
        => \A r \in wire : r.old = NoKey => r.new = active[w] \/ active[w] \in unasked

\* A worker that signs has no staged key that is pinned or can come to be.
SignsPinned(w) ==
    phase[w] \in {"idle"} \cup Recovering \cup Reissuing /\ ~halted[w]
        => pin \notin Staged /\ \A r \in wire : r.old = NoKey

SoloOK(w) == MintsFirst(w) /\ StagedOwn(w) /\ Fits(w) /\ JoinFits(w) /\ SignsPinned(w)

SoloInv == \A w \in Worker : Solo(w) => SoloOK(w)

\* The current signer fits the pin and every join.
LEMMA SignerFits ==
    ASSUME TypeOK, PinInv, NEW k \in Kid, Active = {k}
    PROVE  /\ pin \in {NoKey, k} \cup Staged \/ k \in unasked
           /\ pin = NoKey => \A r \in wire : r.old = NoKey => r.new = k \/ k \in unasked
<1>1. ASSUME pin \notin {NoKey, k} \cup Staged PROVE k \in unasked
  <2>1. pin \in Kid /\ keys[pin] = "deprecated"
    BY <1>1 DEF TypeOK, PinInv, PinHasRow, WasSigner, Staged, Active
  <2> QED BY <2>1 DEF PinInv, RetiredFollowed
<1>2. ASSUME pin = NoKey, NEW r \in wire, r.old = NoKey, r.new # k PROVE k \in unasked
  <2>1. r.new \in Kid /\ keys[r.new] = "deprecated"
    BY <1>2 DEF TypeOK, Request, PinInv, JoinsSigner, WasSigner, Active
  <2> QED BY <1>2, <2>1 DEF PinInv, RetiredFollowed
<1> QED BY <1>1, <1>2

\* With no staged row no rotation is under way and none is pinned.
LEMMA NothingStaged ==
    ASSUME TypeOK, PinInv, Staged = {}
    PROVE  pin \notin Staged /\ \A r \in wire : r.old = NoKey
BY DEF PinInv, WireStaged, Staged, TypeOK, Request

\* A lone worker boots, or hands out its key.
LEMMA SoloBoot ==
    ASSUME SignerInv, PinInv, TypeOK', NEW w \in Worker, SoloOK(w),
           Boot(w) \/ DetectStaged(w) \/ TakeMintLock(w) \/ ReadActive(w)
             \/ Adopt(w) \/ Mint(w) \/ Onboard(w)
    PROVE  SoloOK(w)'
<1> USE DEF SoloOK, MintsFirst, StagedOwn, Fits, JoinFits, SignsPinned, Recovering, Reissuing
<1>0. TypeOK
  BY DEF SignerInv
<1>1. CASE Boot(w)
  <2>0. UNCHANGED <<keys, pin, wire, unasked>> /\ Active' = Active /\ Staged' = Staged
    BY <1>1 DEF Boot, Active, Staged
  <2>1. CASE \E k \in Active : /\ CurrentSigner(k) /\ Enter(w, "detect")
                              /\ active' = [active EXCEPT ![w] = k]
    <3>1. phase'[w] = "detect" /\ active'[w] \in Kid /\ Active = {active'[w]}
      BY <1>0, <2>1 DEF Enter, CurrentSigner, TypeOK, Active
    <3> QED BY <1>0, <2>0, <3>1, SignerFits
  <2>2. CASE (\A k \in Active : ~CurrentSigner(k)) /\ Enter(w, "mint") /\ UNCHANGED active
    <3>1. phase'[w] = "mint" /\ Active = {} /\ active'[w] = active[w] /\ phase[w] = "down"
      BY <1>0, <1>1, <2>2 DEF Boot, Enter, CurrentSigner, TypeOK, SignerInv, OneActive
    <3> QED BY <2>0, <3>1
  <2> QED BY <1>1, <2>1, <2>2 DEF Boot
<1>2. CASE DetectStaged(w)
  <2>1. /\ phase'[w] = "idle" /\ phase[w] = "detect" /\ UNCHANGED <<keys, pin, wire, active, unasked>>
        /\ Active' = Active /\ Staged' = Staged
    BY <1>0, <1>2 DEF DetectStaged, Enter, TypeOK, Active, Staged
  <2>2. ~halted'[w] => Staged = {}
    BY <1>0, <1>2 DEF DetectStaged, Halt, TypeOK
  <2>3. ~halted'[w] => pin \notin Staged /\ \A r \in wire : r.old = NoKey
    BY <1>0, <2>2, NothingStaged
  <2> QED BY <2>1, <2>3
<1>3. CASE TakeMintLock(w) \/ ReadActive(w)
  <2>1. /\ \/ phase[w] = "mint" /\ phase'[w] = "reading"
           \/ phase[w] = "reading" /\ phase'[w] = (IF Active = {} THEN "minting" ELSE "adopting")
        /\ UNCHANGED <<keys, pin, wire, active, unasked>> /\ Active' = Active /\ Staged' = Staged
    BY <1>0, <1>3 DEF TakeMintLock, ReadActive, Enter, TypeOK, Active, Staged
  <2> QED BY <2>1
<1>4. CASE Adopt(w)
  BY <1>4 DEF Adopt
<1>5. CASE Mint(w)
  <2>1. PICK k \in Kid : InsertKey(k, "active")
    BY <1>5 DEF Mint
  <2>2. wire = {} /\ pin = NoKey
    BY <1>5, NoKeyNoPin DEF Mint
  <2>3. phase'[w] = "idle" /\ wire' = wire /\ pin' = pin
    BY <1>0, <1>5 DEF Mint, Enter, TypeOK
  <2>4. NoKey \notin Staged'
    BY KeyConstants DEF Staged
  <2> QED BY <2>2, <2>3, <2>4
<1>6. CASE Onboard(w)
  <2>1. /\ UNCHANGED <<keys, pin, phase, rot, active, halted, unasked>>
        /\ Active' = Active /\ Staged' = Staged
        /\ \A r \in wire' : r \in wire \/ (r.old = NoKey /\ r.new = active[w])
    BY <1>6 DEF Onboard, Active, Staged
  <2> QED BY <2>1
<1> QED BY <1>1, <1>2, <1>3, <1>4, <1>5, <1>6

\* It rotates, up to the answer.
LEMMA SoloRotates ==
    ASSUME NoLostPin, SignerInv, PinInv, TypeOK', NEW w \in Worker, SoloOK(w),
           RotateCheck(w) \/ StageRow(w) \/ Propagate(w) \/ CourtAcks(w)
             \/ PropagatorRaised(w)
    PROVE  SoloOK(w)'
<1> USE DEF SoloOK, MintsFirst, StagedOwn, Fits, JoinFits, SignsPinned, Recovering, Reissuing
<1>0. TypeOK
  BY DEF SignerInv
<1>1. CASE RotateCheck(w)
  <2>1. /\ phase[w] = "idle" /\ phase'[w] = "checked" /\ Staged = {} /\ Staged' = Staged
        /\ UNCHANGED <<keys, pin, wire, active, unasked>>
    BY <1>0, <1>1 DEF RotateCheck, Enter, TypeOK, Staged
  <2> QED BY <2>1
<1>a. CASE ~RotateCheck(w)
  <2>1. rot[w] \in Rotation /\ rot[w].new \in Kid
    BY <1>0, <1>a DEF StageRow, Propagate, CourtAcks, PropagatorRaised, TypeOK, Rotation, Rotating
  <2>2. CASE StageRow(w)
    <3>1. /\ phase[w] = "checked" /\ phase'[w] = "staged"
          /\ UNCHANGED <<pin, wire, rot, active, unasked>>
      BY <1>0, <2>2 DEF StageRow, Enter, TypeOK
    <3>2. Staged = {} /\ Staged' = {rot[w].new}
      BY <1>0, <2>1, <2>2, <3>1 DEF StageRow, InsertKey, TypeOK, Staged
    <3> QED BY <3>1, <3>2
  <2>3. CASE Propagate(w)
    <3>1. /\ phase[w] = "staged" /\ phase'[w] \in {"sent", "acked"} /\ Staged' = Staged
          /\ UNCHANGED <<keys, pin, rot, active>> /\ unasked \subseteq unasked'
          /\ wire' \subseteq wire \cup {rot[w]}
      BY <1>0, <2>3 DEF Propagate, Enter, TypeOK, Staged
    <3>2. rot[w].old # NoKey
      BY <2>1, KeyConstants DEF Rotation
    <3> QED BY <3>1, <3>2
  <2>4. CASE CourtAcks(w)
    <3>1. /\ phase[w] = "sent" /\ phase'[w] = "acked" /\ Staged' = Staged
          /\ UNCHANGED <<keys, pin, wire, rot, active, unasked>>
      BY <1>0, <2>4 DEF CourtAcks, Enter, TypeOK, Staged
    <3> QED BY <3>1
  <2>5. CASE PropagatorRaised(w)
    <3>1. /\ phase[w] = "sent" /\ phase'[w] = "idle" /\ UNCHANGED <<pin, active, unasked>>
          /\ pin # rot[w].new /\ wire' = wire \ {rot[w]}
          /\ Drop(rot[w].new) \/ UNCHANGED keys
      BY <1>0, <2>5 DEF PropagatorRaised, Leave, Enter, TypeOK, NoLostPin
    <3>2. Staged = {rot[w].new} /\ Staged' \subseteq {rot[w].new}
      BY <1>0, <2>1, <3>1 DEF Drop, Staged, TypeOK
    <3>3. \A r \in wire' : r.old = NoKey
      <4>1. \A r \in wire : r.old # NoKey => r.new \in Staged
        BY <1>0 DEF PinInv, WireStaged, Staged, TypeOK, Request
      <4> QED BY <2>1, <3>1, <3>2, <4>1 DEF PinInv, WireOwned
    <3> QED BY <3>1, <3>2, <3>3
  <2> QED BY <1>a, <2>2, <2>3, <2>4, <2>5
<1> QED BY <1>1, <1>a

\* It commits and reads the signer back.
LEMMA SoloCommits ==
    ASSUME NoLostPin, RefreshWorks, SignerInv, PinInv, TypeOK', NEW w \in Worker, SoloOK(w),
           Commit(w) \/ CommitFails(w) \/ Refresh(w)
    PROVE  SoloOK(w)'
<1> USE DEF SoloOK, MintsFirst, StagedOwn, Fits, JoinFits, SignsPinned, Recovering, Reissuing
<1>0. TypeOK
  BY DEF SignerInv
<1>1. CASE Commit(w)
  <2>1. /\ phase[w] \in {"acked", "activate"} /\ phase'[w] = "refresh"
        /\ UNCHANGED <<pin, wire, active, unasked>> /\ keys' = Committed(rot[w])
        /\ keys[rot[w].new] = "staged" /\ keys[rot[w].old] = "active"
        /\ rot[w].new \in Kid /\ rot[w].old \in Kid
    BY <1>0, <1>1 DEF Commit, CanCommit, Enter, TypeOK, Rotation, Rotating
  <2>2. Staged' = {}
    BY <1>0, <2>1 DEF Committed, Staged, TypeOK
  <2> QED BY <2>1, <2>2
<1>2. CASE CommitFails(w)
  <2>1. /\ phase[w] = "acked" /\ phase'[w] = "idle" /\ halted'[w]
        /\ UNCHANGED <<pin, wire, active, unasked>> /\ Staged' = Staged
    BY <1>0, <1>2 DEF CommitFails, Halt, Leave, Enter, TypeOK, Staged
  <2> QED BY <2>1
<1>3. CASE Refresh(w)
  <2>1. /\ phase[w] = "refresh" /\ phase'[w] = "idle" /\ UNCHANGED <<keys, pin, wire, unasked>>
        /\ Staged = {} /\ Staged' = Staged
    BY <1>0, <1>3 DEF Refresh, Leave, Enter, TypeOK, Staged
  <2>2. PICK k \in Kid : Active = {k}
    <3>1. \E k \in Kid : keys[k] # "unused"
      <4>1. rot[w] \in Rotation
        BY <1>0, <2>1 DEF TypeOK, Rotating
      <4> QED BY <4>1 DEF PinInv, OldWasSigner, Rotation, WasSigner
    <3> QED BY <3>1 DEF SignerInv, OneActive, Active
  <2>3. active' = [active EXCEPT ![w] = CHOOSE j \in Active : TRUE]
    BY <1>3, <2>2 DEF Refresh, RefreshWorks, CurrentSigner
  <2>4. active'[w] = k
    BY <1>0, <2>2, <2>3 DEF TypeOK
  <2>5. \A r \in wire : r.old = NoKey
    BY <1>0, <2>1, NothingStaged
  <2> QED BY <1>0, <2>1, <2>2, <2>4, <2>5, SignerFits
<1> QED BY <1>1, <1>2, <1>3

\* It rotates the Intermediate CA.
LEMMA SoloReissues ==
    ASSUME SignerInv, PinInv, TypeOK', NEW w \in Worker, SoloOK(w),
           ReissueReads(w) \/ ReissueStages(w) \/ ReissueCommits(w) \/ ReissueFails(w)
             \/ Recache(w)
    PROVE  SoloOK(w)'
<1> USE DEF SoloOK, MintsFirst, StagedOwn, Fits, JoinFits, SignsPinned, Recovering, Reissuing
<1>0. TypeOK
  BY DEF SignerInv
<1>a. /\ UNCHANGED <<pin, wire>> /\ halted'[w] = halted[w] /\ unasked \subseteq unasked'
      /\ phase[w] \in {"idle"} \cup Reissuing /\ phase'[w] \in {"idle"} \cup Reissuing
  BY <1>0 DEF ReissueReads, ReissueStages, ReissueCommits, ReissueFails, Recache, Leave,
              Enter, TypeOK
<1>1. CASE ReissueReads(w) \/ ReissueFails(w)
  <2>1. UNCHANGED <<keys, active, unasked>> /\ Staged' = Staged
    BY <1>1 DEF ReissueReads, ReissueFails, Staged
  <2> QED BY <1>a, <2>1
<1>2. CASE ReissueStages(w)
  <2>1. /\ UNCHANGED active /\ rot[w].new \in Kid /\ rot[w].new # NoKey
        /\ keys[rot[w].new] = "unused" /\ keys' = [keys EXCEPT ![rot[w].new] = "staged"]
    BY <1>0, <1>2, KeyConstants DEF ReissueStages, InsertKey, TypeOK, Rotation, Rotating
  <2>2. Staged' = Staged \cup {rot[w].new}
    BY <1>0, <2>1 DEF Staged, TypeOK
  <2>3. pin # rot[w].new
    BY <2>1 DEF PinInv, PinHasRow, WasSigner
  <2> QED BY <1>a, <2>1, <2>2, <2>3
<1>3. CASE ReissueCommits(w)
  <2>1. /\ UNCHANGED active /\ phase[w] = "swap" /\ rot[w].new \in Kid /\ rot[w].old \in Kid
        /\ keys[rot[w].new] = "staged" /\ keys[rot[w].old] = "active"
        /\ keys' = Committed(rot[w])
    BY <1>0, <1>3 DEF ReissueCommits, CanCommit, TypeOK, Rotation, Rotating
  <2>2. Staged' = Staged \ {rot[w].new}
    BY <1>0, <2>1 DEF Committed, Staged, TypeOK
  <2>3. pin # rot[w].new
    BY <2>1 DEF PinInv, SwapUnasked
  <2> QED BY <1>a, <2>1, <2>2, <2>3
<1>4. CASE Recache(w)
  <2>1. UNCHANGED <<keys, unasked>> /\ Staged' = Staged /\ phase[w] = "recache"
    BY <1>4 DEF Recache, Staged
  <2>2. CASE UNCHANGED active
    BY <1>a, <2>1, <2>2
  <2>3. CASE \E k \in Active : CurrentSigner(k) /\ active' = [active EXCEPT ![w] = k]
    <3>1. PICK k \in Kid : Active = {k} /\ active'[w] = k
      BY <1>0, <2>3 DEF CurrentSigner, Active, TypeOK
    <3> QED BY <1>0, <1>a, <2>1, <3>1, SignerFits
  <2> QED BY <1>4, <2>2, <2>3 DEF Recache
<1> QED BY <1>1, <1>2, <1>3, <1>4

\* It recovers, or dies.
LEMMA SoloRecovers ==
    ASSUME NoLostPin, SignerInv, PinInv, TypeOK', NEW w \in Worker, SoloOK(w),
           CompleteStaged(w) \/ ResolveDrop(w) \/ ResolveFails(w) \/ Crash(w)
    PROVE  SoloOK(w)'
<1> USE DEF SoloOK, MintsFirst, StagedOwn, Fits, JoinFits, SignsPinned, Recovering, Reissuing
<1>0. TypeOK
  BY DEF SignerInv
<1>1. CASE CompleteStaged(w)
  <2>1. /\ phase[w] = "idle" /\ phase'[w] \in {"activate", "drop"}
        /\ UNCHANGED <<keys, pin, wire, active, halted>> /\ Staged' = Staged
        /\ unasked \subseteq unasked'
    BY <1>0, <1>1 DEF CompleteStaged, Enter, TypeOK, Staged
  <2>2. Staged = {rot'[w].new}
    BY <1>0, <1>1 DEF CompleteStaged, TypeOK
  <2> QED BY <2>1, <2>2
<1>2. CASE ResolveDrop(w)
  <2>1. /\ phase[w] = "drop" /\ phase'[w] = "idle" /\ UNCHANGED <<pin, wire, active, unasked>>
        /\ rot[w].new \in Kid /\ keys[rot[w].new] = "staged" /\ Drop(rot[w].new)
    BY <1>0, <1>2 DEF ResolveDrop, Leave, Enter, TypeOK, Rotation
  <2>2. Staged' = {}
    BY <1>0, <2>1 DEF Drop, Staged, TypeOK
  <2>3. pin # rot[w].new /\ \A r \in wire : r.old = NoKey
    BY <2>1 DEF PinInv, RecoversAlone
  <2> QED BY <2>1, <2>2, <2>3
<1>3. CASE ResolveFails(w)
  <2>1. /\ phase[w] \in Recovering /\ phase'[w] = "idle"
        /\ UNCHANGED <<keys, pin, wire, active, halted, unasked>> /\ Staged' = Staged
    BY <1>0, <1>3 DEF ResolveFails, Leave, Enter, TypeOK, Staged
  <2> QED BY <2>1
<1>4. CASE Crash(w)
  <2>1. phase'[w] = "down" /\ active'[w] = NoKey
    BY <1>0, <1>4 DEF Crash, Enter, TypeOK
  <2> QED BY <2>1
<1> QED BY <1>1, <1>2, <1>3, <1>4

\* The Court handles a request.
LEMMA SoloCourt ==
    ASSUME SignerInv, PinInv, TypeOK', NEW w \in Worker, SoloOK(w),
           NEW r \in wire, CourtHandles(r)
    PROVE  SoloOK(w)'
<1> USE DEF SoloOK, MintsFirst, StagedOwn, Fits, JoinFits, SignsPinned, Recovering, Reissuing
<1>0. TypeOK
  BY DEF SignerInv
<1>1. /\ UNCHANGED <<keys, phase, rot, active, halted>> /\ wire' = wire \ {r}
      /\ Active' = Active /\ Staged' = Staged
      /\ \/ pin' = pin /\ unasked' = unasked
         \/ pin = r.old /\ pin' = r.new /\ unasked' = unasked \ {r.new}
  BY DEF CourtHandles, Active, Staged
<1>2. CASE pin' = pin /\ unasked' = unasked
  BY <1>1, <1>2
<1>3. CASE pin = r.old /\ pin' = r.new /\ unasked' = unasked \ {r.new}
  <2>1. /\ r.new \in Kid /\ r.new # NoKey
        /\ IF r.old = NoKey THEN r.new \notin Staged ELSE r.new \in Staged
    BY <1>0, KeyConstants DEF PinInv, JoinsSigner, WireStaged, WasSigner, Staged, TypeOK, Request
  <2>2. (MintsFirst(w) /\ StagedOwn(w) /\ JoinFits(w) /\ SignsPinned(w))'
    BY <1>1, <1>3, <2>1
  <2>3. Fits(w)'
    BY <1>1, <1>3, <2>1
  <2> QED BY <2>2, <2>3
<1> QED BY <1>1, <1>2, <1>3

\* The workers that the deployment does not run take no step.
LEMMA AbsentStays ==
    ASSUME TypeOK, NEW v \in Worker, WorkerStep(v) \/ Onboard(v) \/ RotateCheck(v)
                                       \/ ReissueReads(v) \/ CompleteStaged(v) \/ Crash(v)
    PROVE  /\ phase[v] # "absent"
           /\ \A w \in Worker : phase'[w] = "absent" => phase[w] = "absent"
<1> USE DEF TypeOK, Enter, Leave
<1>1. CASE Boot(v) \/ DetectStaged(v) \/ TakeMintLock(v) \/ ReadActive(v) \/ Adopt(v)
             \/ Mint(v) \/ Onboard(v)
  BY <1>1 DEF Boot, DetectStaged, TakeMintLock, ReadActive, Adopt, Mint, Onboard
<1>2. CASE RotateCheck(v) \/ StageRow(v) \/ Propagate(v) \/ CourtAcks(v)
             \/ PropagatorRaised(v)
  BY <1>2 DEF RotateCheck, StageRow, Propagate, CourtAcks, PropagatorRaised
<1>3. CASE Commit(v) \/ CommitFails(v) \/ Refresh(v) \/ CompleteStaged(v)
             \/ ResolveDrop(v) \/ ResolveFails(v) \/ Crash(v)
  BY <1>3 DEF Commit, CommitFails, Refresh, CompleteStaged, ResolveDrop, ResolveFails,
              Crash, Recovering
<1>4. CASE ReissueReads(v) \/ ReissueStages(v) \/ ReissueCommits(v) \/ ReissueFails(v)
             \/ Recache(v)
  BY <1>4 DEF ReissueReads, ReissueStages, ReissueCommits, ReissueFails, Recache
<1> QED BY <1>1, <1>2, <1>3, <1>4 DEF WorkerStep

\* Every step keeps the invariant of a lone worker.
LEMMA SoloStep ==
    ASSUME NoLostPin, RefreshWorks, SignerInv, PinInv, TypeOK', SoloInv, [Next]_vars
    PROVE  SoloInv'
<1>0. TypeOK
  BY DEF SignerInv
<1>1. ASSUME NEW v \in Worker, WorkerStep(v) \/ Onboard(v) \/ RotateCheck(v)
                                 \/ ReissueReads(v) \/ CompleteStaged(v) \/ Crash(v)
      PROVE  SoloInv'
  <2> SUFFICES ASSUME NEW w \in Worker, Solo(w)' PROVE SoloOK(w)'
    BY DEF SoloInv
  <2>1. v = w /\ Solo(w)
    BY <1>0, <1>1, AbsentStays DEF Solo
  <2>2. SoloOK(w)
    BY <2>1 DEF SoloInv
  <2> QED
    BY <1>1, <2>1, <2>2, SoloBoot, SoloRotates, SoloCommits, SoloReissues, SoloRecovers
       DEF WorkerStep
<1>2. ASSUME NEW r \in wire, CourtHandles(r) PROVE SoloInv'
  <2> SUFFICES ASSUME NEW w \in Worker, Solo(w)' PROVE SoloOK(w)'
    BY DEF SoloInv
  <2>1. SoloOK(w)
    BY <1>2 DEF SoloInv, Solo, CourtHandles
  <2> QED BY <1>2, <2>1, SoloCourt
<1>3. CASE UNCHANGED vars
  BY <1>3 DEF vars, SoloInv, Solo, SoloOK, MintsFirst, StagedOwn, Fits, JoinFits,
              SignsPinned, Active, Staged
<1> QED BY <1>1, <1>2, <1>3 DEF Next

\* A deployment of one worker signs with the key the Court has pinned, with one
\* it was not asked to pin, or not at all, for any number of rotations,
\* recoveries, crashes, failed commits, failed cleanups and joins under way, as
\* long as the Court's answers and the read after a commit arrive.
THEOREM LoneSignerPinned ==
    ASSUME NoLostPin, RefreshWorks
    PROVE  Spec => []SignerPinned
<1>1. Init => SoloInv
  <2> SUFFICES ASSUME Init, NEW w \in Worker PROVE SoloOK(w)
    BY DEF SoloInv
  <2>1. phase[w] \in {"down", "absent"} /\ active[w] = NoKey
    BY DEF Init
  <2> QED
    BY <2>1 DEF SoloOK, MintsFirst, StagedOwn, Fits, JoinFits, SignsPinned, Recovering,
                Reissuing
<1>2. SignerInv /\ PinInv /\ SignerInv' /\ SoloInv /\ [Next]_vars => SoloInv'
  BY SoloStep DEF SignerInv
<1>3. SoloInv => SignerPinned
  <2> SUFFICES ASSUME SoloInv, NEW w \in Worker, Deployed = {w}, phase[w] = "idle",
                      ~halted[w], active[w] # NoKey, pin # NoKey
               PROVE  active[w] = pin \/ active[w] \in unasked
    BY DEF SignerPinned
  <2>1. Solo(w)
    BY DEF Solo, Deployed
  <2> QED BY <2>1 DEF SoloInv, SoloOK, SignsPinned, Fits
<1> QED BY <1>1, <1>2, <1>3, PinInvAlways, PTL DEF Spec
=============================================================================
