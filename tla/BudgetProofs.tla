---------------------------- MODULE BudgetProofs ----------------------------
(***************************************************************************)
(* Proofs about Budget: types, CounterExact and UnderCountBounded, for     *)
(* every number of calls, faults, reservation, ceiling and weight.         *)
(***************************************************************************)
EXTENDS Budget, FiniteSetTheorems, WellFoundedInduction, TLAPS

\* The tokens of all calls when call c has f[c] of them.
Total(f) == Cardinality({t \in Call \X (1..Share) : t[2] <= f[t[1]]})

\* Held, for a call in state r.
HeldOf(r, d) ==
    IF r.day # d \/ ~r.budgeted THEN 0
    ELSE IF r.pc \in {"dispatch", "settle"} THEN Reserve
    ELSE IF r.pc \in {"log", "row"} THEN r.weight
    ELSE 0

\* A call of the day before, which settles and logs on the key of today, d.
Moves(r, d, today) ==
    r.budgeted /\ r.pc \notin {"new", "done"} /\ r.day # d /\ d = today

\* A call that has read the counter of d, and charges it from now on.
Past(r, d) ==
    /\ r.budgeted
    /\ r.day = d
    /\ r.pc \in {"again", "reserve", "dispatch", "settle", "log", "row"}

\* What call r takes, or may yet take, from an existing counter of d.
OwedOf(r, d, today) == IF Moves(r, d, today) THEN Share ELSE HeldOf(r, d)

\* What it may charge, uncounted, while there is no counter of d.
RiskOf(r, d, today) == IF Moves(r, d, today) \/ Past(r, d) THEN Share ELSE 0

HeldTotal(d) == Total([x \in Call |-> HeldOf(call[x], d)])
OwedTotal(d) == Total([x \in Call |-> OwedOf(call[x], d, day)])
RiskTotal(d) == Total([x \in Call |-> RiskOf(call[x], d, day)])

-----------------------------------------------------------------------------
(* The inductive invariants. *)

\* Only a call that meets a ceiling reads and settles a counter, and neither a
\* call nor a row is ahead of the day.
CallsInv ==
    /\ \A c \in Call : call[c].pc \in {"get", "seed", "set", "again", "reserve", "settle"}
                         => call[c].budgeted
    /\ day = 0 => chain[1] = 0 /\ \A c \in Call : call[c].day = 0

\* What an undisturbed counter of d says, while it does not exist too.
ExactFor(d) ==
    /\ \A c \in Call : call[c].pc \notin {"new", "done"} => call[c].day = day
    /\ counter[d] # None => counter[d] = chain[d] + HeldTotal(d) + leaked[d]
    /\ counter[d] = None =>
         /\ leaked[d] = 0
         /\ \A c \in Call : ~Past(call[c], d)
         /\ \A c \in Call : At(c, "set") /\ call[c].day = d => call[c].seed = chain[d]

ExactInv == \A d \in Days : redis /\ clean[d] => ExactFor(d)

\* The slack covers what calls may yet take from an existing counter, and what
\* they may charge while there is none, under every seed already read.
UnderFor(d) ==
    /\ counter[d] # None => counter[d] + slack[d] >= chain[d] + OwedTotal(d)
    /\ counter[d] = None =>
         /\ slack[d] >= RiskTotal(d)
         /\ \A c \in Call : At(c, "set") /\ call[c].day = d
              => call[c].seed + slack[d] >= chain[d] + RiskTotal(d)

UnderInv == \A d \in Days : UnderFor(d)

-----------------------------------------------------------------------------
(* Counting tokens. *)

\* Max of two numbers, the clamp of _apply_delta.
LEMMA MaxOfTwo ==
    ASSUME NEW a \in Int, NEW b \in Int
    PROVE  /\ Max({a, b}) \in {a, b}
           /\ Max({a, b}) >= a
           /\ Max({a, b}) >= b
<1>1. \E x \in {a, b} : \A y \in {a, b} : x >= y
  <2>1. CASE a >= b  BY <2>1
  <2>2. CASE ~(a >= b)  BY <2>2
  <2> QED  BY <2>1, <2>2
<1> QED  BY <1>1 DEF Max

\* Min of a set of naturals is its least element.
LEMMA MinOfNats ==
    ASSUME NEW S, S \subseteq Nat, S # {}
    PROVE  Min(S) \in S /\ \A y \in S : Min(S) <= y
<1>1. PICK x \in S : \A y \in S : ~(<<y, x>> \in OpToRel(<, Nat))
  BY NatLessThanWellFounded, WFMin
<1>2. \A y \in S : <<y, x>> \in OpToRel(<, Nat) <=> y < x
  BY DEF OpToRel
<1>3. \A y \in S : x <= y
  <2> TAKE y \in S
  <2>1. ~(y < x)  BY <1>1, <1>2
  <2>2. x \in Nat /\ y \in Nat  OBVIOUS
  <2> QED  BY <2>1, <2>2
<1> QED  BY <1>3 DEF Min

LEMMA ShareFacts == Share \in Nat /\ Reserve <= Share /\ MaxWeight <= Share
<1>1. Reserve \in Nat /\ MaxWeight \in Nat  BY BudgetConstants
<1> QED  BY <1>1, MaxOfTwo DEF Share

Amounts == [Call -> 0..Share]

LEMMA TokensFinite ==
    ASSUME NEW f
    PROVE  /\ IsFiniteSet({t \in Call \X (1..Share) : t[2] <= f[t[1]]})
           /\ Total(f) \in Nat
<1>1. IsFiniteSet(1..Share)  BY ShareFacts, FS_Interval
<1>2. IsFiniteSet(Call \X (1..Share))  BY <1>1, FS_Product, BudgetConstants
<1>3. {t \in Call \X (1..Share) : t[2] <= f[t[1]]} \in SUBSET (Call \X (1..Share))
  OBVIOUS
<1>4. IsFiniteSet({t \in Call \X (1..Share) : t[2] <= f[t[1]]})
  BY <1>2, <1>3, FS_Subset
<1> QED  BY <1>4, FS_CardinalityType DEF Total

\* More tokens for each call are more tokens in all.
LEMMA TotalMonotone ==
    ASSUME NEW f \in Amounts, NEW g \in Amounts, \A c \in Call : f[c] <= g[c]
    PROVE  Total(f) <= Total(g)
<1> DEFINE F == {t \in Call \X (1..Share) : t[2] <= f[t[1]]}
           G == {t \in Call \X (1..Share) : t[2] <= g[t[1]]}
<1>1. ASSUME NEW t \in F  PROVE t \in G
  <2>1. t[1] \in Call /\ t[2] \in Nat /\ t[2] <= f[t[1]]  BY ShareFacts
  <2>2. f[t[1]] \in Nat /\ g[t[1]] \in Nat /\ f[t[1]] <= g[t[1]]
    BY <2>1, ShareFacts DEF Amounts
  <2> QED  BY <2>1, <2>2
<1>2. F \in SUBSET G  BY <1>1
<1>3. IsFiniteSet(G)  BY TokensFinite
<1>4. Cardinality(F) <= Cardinality(G)  BY <1>2, <1>3, FS_Subset
<1> QED  BY <1>4 DEF Total

\* When one call's tokens change, the total changes by as much.
LEMMA TotalChange ==
    ASSUME NEW f \in Amounts, NEW g \in Amounts, NEW c \in Call,
           \A x \in Call \ {c} : f[x] = g[x]
    PROVE  Total(g) = Total(f) - f[c] + g[c]
<1> DEFINE Rest == {t \in Call \X (1..Share) : t[1] # c /\ t[2] <= f[t[1]]}
           Of(n) == {c} \X (1..n)
<1>1. ASSUME NEW h \in Amounts, \A x \in Call \ {c} : f[x] = h[x]
      PROVE  Total(h) = Cardinality(Rest) + h[c] /\ Cardinality(Rest) \in Nat
  <2> DEFINE H == {t \in Call \X (1..Share) : t[2] <= h[t[1]]}
             n == h[c]
  <2>1. n \in Nat /\ n <= Share  BY ShareFacts DEF Amounts
  <2>2. H = Rest \cup Of(n)
    <3>1. ASSUME NEW t \in H  PROVE t \in Rest \cup Of(n)
      <4>1. PICK x \in Call, i \in 1..Share : t = <<x, i>>  OBVIOUS
      <4>2. i <= h[x]  BY <4>1
      <4>3. CASE x = c  BY <4>1, <4>2, <4>3, <2>1, ShareFacts
      <4>4. CASE x # c  BY <4>1, <4>2, <4>4, <1>1
      <4> QED  BY <4>3, <4>4
    <3>2. ASSUME NEW t \in Rest  PROVE t \in H
      <4>1. PICK x \in Call, i \in 1..Share : t = <<x, i>>  OBVIOUS
      <4> QED  BY <4>1, <1>1
    <3>3. ASSUME NEW t \in Of(n)  PROVE t \in H
      <4>1. PICK i \in 1..n : t = <<c, i>>  OBVIOUS
      <4> QED  BY <4>1, <2>1, ShareFacts
    <3> QED  BY <3>1, <3>2, <3>3
  <2>3. Rest \cap Of(n) = {}  OBVIOUS
  <2>4. IsFiniteSet(H)  BY TokensFinite
  <2>5. Rest \in SUBSET H /\ Of(n) \in SUBSET H  BY <2>2
  <2>6. IsFiniteSet(Rest) /\ IsFiniteSet(Of(n))  BY <2>4, <2>5, FS_Subset
  <2>7. Cardinality(Of(n)) = n
    <3>1. IsFiniteSet({c}) /\ Cardinality({c}) = 1  BY FS_Singleton
    <3>2. IsFiniteSet(1..n) /\ Cardinality(1..n) = n  BY <2>1, FS_Interval
    <3>3. Cardinality({c} \X (1..n)) = Cardinality({c}) * Cardinality(1..n)
      BY <3>1, <3>2, FS_Product
    <3> QED  BY <3>1, <3>2, <3>3, <2>1
  <2>8. Cardinality(H) = Cardinality(Rest) + Cardinality(Of(n)) - Cardinality(Rest \cap Of(n))
    BY <2>2, <2>6, FS_Union
  <2>9. Cardinality(Rest \cap Of(n)) = 0  BY <2>3, FS_EmptySet
  <2>10. Cardinality(Rest) \in Nat  BY <2>6, FS_CardinalityType
  <2>11. Total(h) = Cardinality(H)  BY DEF Total
  <2> HIDE DEF H, Rest, Of, n
  <2>12. Total(h) = Cardinality(Rest) + n  BY <2>1, <2>7, <2>8, <2>9, <2>10, <2>11
  <2> QED  BY <2>10, <2>12 DEF n
<1>2. Total(f) = Cardinality(Rest) + f[c] /\ Cardinality(Rest) \in Nat  BY <1>1
<1>3. Total(g) = Cardinality(Rest) + g[c]  BY <1>1
<1>4. f[c] \in Nat /\ g[c] \in Nat  BY ShareFacts DEF Amounts
<1> HIDE DEF Rest
<1> QED  BY <1>2, <1>3, <1>4

\* No tokens anywhere are none in all.
LEMMA TotalZero ==
    ASSUME NEW f \in Amounts, \A c \in Call : f[c] = 0
    PROVE  Total(f) = 0
<1>1. {t \in Call \X (1..Share) : t[2] <= f[t[1]]} = {}
  BY ShareFacts
<1> QED  BY <1>1, FS_EmptySet DEF Total

\* A share for each call of S, as KeyLost and NextDay grant it.
LEMMA TotalShares ==
    ASSUME NEW S, S \subseteq Call
    PROVE  /\ Total([x \in Call |-> IF x \in S THEN Share ELSE 0]) = Share * Cardinality(S)
           /\ Share * Cardinality(S) \in Nat
<1> DEFINE f == [x \in Call |-> IF x \in S THEN Share ELSE 0]
<1>1. {t \in Call \X (1..Share) : t[2] <= f[t[1]]} = S \X (1..Share)
  BY ShareFacts
<1>2. IsFiniteSet(S)  BY FS_Subset, BudgetConstants
<1>3. IsFiniteSet(1..Share) /\ Cardinality(1..Share) = Share
  BY ShareFacts, FS_Interval
<1>4. Cardinality(S \X (1..Share)) = Cardinality(S) * Share
  BY <1>2, <1>3, FS_Product
<1>5. Cardinality(S) \in Nat  BY <1>2, FS_CardinalityType
<1>6. Cardinality(S) * Share = Share * Cardinality(S) /\ Share * Cardinality(S) \in Nat
  BY <1>5, ShareFacts
<1> QED  BY <1>1, <1>4, <1>6 DEF Total

-----------------------------------------------------------------------------
(* One call moves. *)

\* Call c, and no other, changes, to the given state.
Edge(c, p, d, b, n, w) ==
    /\ call' \in [Call -> CallState]
    /\ \A x \in Call \ {c} : call'[x] = call[x]
    /\ call'[c].pc = p
    /\ call'[c].day = d
    /\ call'[c].budgeted = b
    /\ call'[c].seed = n
    /\ call'[c].weight = w

\* It keeps all but its place.
Walk(c, p) == Edge(c, p, call[c].day, call[c].budgeted, call[c].seed, call[c].weight)

LEMMA CallFields ==
    ASSUME TypeOK, NEW c \in Call
    PROVE  /\ call[c] \in CallState
           /\ call[c].pc \in Steps
           /\ call[c].day \in Days
           /\ call[c].budgeted \in BOOLEAN
           /\ call[c].seed \in Nat
           /\ call[c].weight \in 0..MaxWeight
BY DEF TypeOK, CallState

LEMMA EdgeOf ==
    ASSUME TypeOK, NEW c \in Call, NEW s \in CallState, call' = [call EXCEPT ![c] = s]
    PROVE  Edge(c, s.pc, s.day, s.budgeted, s.seed, s.weight)
BY DEF TypeOK, Edge

LEMMA GoWalks ==
    ASSUME TypeOK, NEW c \in Call, NEW p \in Steps, Go(c, p)
    PROVE  Walk(c, p)
<1>1. call \in [Call -> CallState]  BY DEF TypeOK
<1>2. PICK s : s = [call[c] EXCEPT !.pc = p]  OBVIOUS
<1>3. /\ s \in CallState
      /\ s.pc = p /\ s.day = call[c].day /\ s.budgeted = call[c].budgeted
      /\ s.seed = call[c].seed /\ s.weight = call[c].weight
  BY <1>2, CallFields DEF CallState
<1>4. call' = [call EXCEPT ![c] = s]  BY <1>2 DEF Go
<1> QED  BY <1>1, <1>3, <1>4 DEF Edge, Walk

\* What Decide makes of the call: denied, to write its row, or admitted.
Ruled(c) ==
    \/ Edge(c, "log", call[c].day, call[c].budgeted, call[c].seed, 0)
    \/ Edge(c, "reserve", call[c].day, call[c].budgeted, call[c].seed, 0)

LEMMA DecideRules ==
    ASSUME TypeOK, NEW c \in Call, NEW n, Decide(c, n)
    PROVE  Ruled(c)
<1>1. PICK p \in {"log", "reserve"} : call' = [call EXCEPT ![c].pc = p, ![c].weight = 0]
  BY DEF Decide
<1>2. PICK s : s = [call[c] EXCEPT !.pc = p, !.weight = 0]  OBVIOUS
<1>3. p \in Steps /\ 0 \in 0..MaxWeight  BY BudgetConstants DEF Steps
<1>4. /\ s \in CallState
      /\ s.pc = p /\ s.day = call[c].day /\ s.budgeted = call[c].budgeted
      /\ s.seed = call[c].seed /\ s.weight = 0
  BY <1>2, <1>3, CallFields DEF CallState
<1>5. call' = [call EXCEPT ![c] = s]  BY <1>1, <1>2
<1>6. Edge(c, p, call[c].day, call[c].budgeted, call[c].seed, 0)  BY <1>4, <1>5, EdgeOf
<1> QED  BY <1>6 DEF Ruled

\* Begin, with the ceiling b, and BeginMessages, for which there is none.
LEMMA BeginEdge ==
    ASSUME TypeOK, NEW c \in Call, Begin(c) \/ BeginMessages(c)
    PROVE  \E b \in BOOLEAN : Edge(c, IF b THEN "get" ELSE "dispatch", day, b,
                                   call[c].seed, call[c].weight)
<1>1. PICK b \in BOOLEAN :
        call' = [call EXCEPT ![c].pc = IF b THEN "get" ELSE "dispatch",
                             ![c].budgeted = b, ![c].day = day]
  BY DEF Begin, BeginMessages, TypeOK
<1> DEFINE p == IF b THEN "get" ELSE "dispatch"
<1>2. PICK s : s = [call[c] EXCEPT !.pc = p, !.budgeted = b, !.day = day]  OBVIOUS
<1>3. p \in Steps /\ day \in Days  BY DEF Steps, TypeOK
<1>4. /\ s \in CallState
      /\ s.pc = p /\ s.day = day /\ s.budgeted = b
      /\ s.seed = call[c].seed /\ s.weight = call[c].weight
  BY <1>2, <1>3, CallFields DEF CallState
<1>5. call' = [call EXCEPT ![c] = s]  BY <1>1, <1>2
<1>6. Edge(c, p, day, b, call[c].seed, call[c].weight)  BY <1>4, <1>5, EdgeOf
<1> QED  BY <1>6

\* Seed and SeedFails.
LEMMA SeedEdge ==
    ASSUME TypeOK, NEW c \in Call, NEW n \in Nat,
           call' = [call EXCEPT ![c].pc = "set", ![c].seed = n]
    PROVE  Edge(c, "set", call[c].day, call[c].budgeted, n, call[c].weight)
<1>1. PICK s : s = [call[c] EXCEPT !.pc = "set", !.seed = n]  OBVIOUS
<1>2. /\ s \in CallState
      /\ s.pc = "set" /\ s.day = call[c].day /\ s.budgeted = call[c].budgeted
      /\ s.seed = n /\ s.weight = call[c].weight
  BY <1>1, CallFields DEF CallState, Steps
<1>3. call' = [call EXCEPT ![c] = s]  BY <1>1
<1> QED  BY <1>2, <1>3, EdgeOf

\* What Seed reads, and what it leaves unread of the chain of its day.
LEMMA SeedReads ==
    ASSUME TypeOK, NEW c \in Call, Seed(c)
    PROVE  \E n \in Nat :
             /\ n <= Since(chain, call[c].day)
             /\ Edge(c, "set", call[c].day, call[c].budgeted, n, call[c].weight)
             /\ \/ n >= chain[call[c].day] /\ UNCHANGED ghosts
                \/ n < chain[call[c].day] /\ Blurs(call[c].day, chain[call[c].day] - n)
<1>1. PICK n \in 0..Since(chain, call[c].day) :
        /\ call' = [call EXCEPT ![c].pc = "set", ![c].seed = n]
        /\ IF n < chain[call[c].day] THEN Blurs(call[c].day, chain[call[c].day] - n)
           ELSE UNCHANGED ghosts
  BY DEF Seed
<1>2. chain[call[c].day] \in Nat /\ Since(chain, call[c].day) \in Nat
  BY CallFields DEF TypeOK, Since, Days
<1>3. n \in Nat /\ n <= Since(chain, call[c].day)  BY <1>1, <1>2
<1>4. Edge(c, "set", call[c].day, call[c].budgeted, n, call[c].weight)
  BY <1>1, <1>3, SeedEdge
<1> QED  BY <1>1, <1>2, <1>3, <1>4

\* Dispatch.
LEMMA DispatchEdge ==
    ASSUME TypeOK, NEW c \in Call, NEW w \in 0..MaxWeight, Dispatch(c, w)
    PROVE  Edge(c, IF call[c].budgeted THEN "settle" ELSE "log", call[c].day,
                call[c].budgeted, call[c].seed, w)
<1> DEFINE p == IF call[c].budgeted THEN "settle" ELSE "log"
<1>1. PICK s : s = [call[c] EXCEPT !.weight = w, !.pc = p]  OBVIOUS
<1>2. p \in Steps  BY DEF Steps
<1>3. /\ s \in CallState
      /\ s.pc = p /\ s.day = call[c].day /\ s.budgeted = call[c].budgeted
      /\ s.seed = call[c].seed /\ s.weight = w
  BY <1>1, <1>2, CallFields DEF CallState
<1>4. call' = [call EXCEPT ![c] = s]  BY <1>1 DEF Dispatch
<1> QED  BY <1>3, <1>4, EdgeOf

\* Settle, LogAudit and DeltaSkipped: a place and a day.
LEMMA DayEdge ==
    ASSUME TypeOK, NEW c \in Call, NEW p \in Steps, NEW d \in Days,
           call' = [call EXCEPT ![c].pc = p, ![c].day = d]
    PROVE  Edge(c, p, d, call[c].budgeted, call[c].seed, call[c].weight)
<1>1. PICK s : s = [call[c] EXCEPT !.pc = p, !.day = d]  OBVIOUS
<1>2. /\ s \in CallState
      /\ s.pc = p /\ s.day = d /\ s.budgeted = call[c].budgeted
      /\ s.seed = call[c].seed /\ s.weight = call[c].weight
  BY <1>1, CallFields DEF CallState
<1>3. call' = [call EXCEPT ![c] = s]  BY <1>1
<1> QED  BY <1>2, <1>3, EdgeOf

\* DeltaSkipped keeps the day of a reservation, and takes a new one to settle.
LEMMA SkippedEdge ==
    ASSUME TypeOK, NEW c \in Call, DeltaSkipped(c)
    PROVE  \/ /\ call[c].pc = "reserve"
              /\ Walk(c, "dispatch")
           \/ /\ call[c].pc = "settle"
              /\ Edge(c, "log", day, call[c].budgeted, call[c].seed, call[c].weight)
<1> DEFINE p == IF At(c, "settle") THEN "log" ELSE "dispatch"
           d == IF At(c, "settle") THEN day ELSE call[c].day
<1>1. p \in Steps /\ d \in Days  BY CallFields DEF Steps, TypeOK
<1>2. call' = [call EXCEPT ![c].pc = p, ![c].day = d]
  BY DEF DeltaSkipped, TypeOK
<1> HIDE DEF p, d
<1>3. Edge(c, p, d, call[c].budgeted, call[c].seed, call[c].weight)
  BY <1>1, <1>2, DayEdge
<1>4. CASE call[c].pc = "settle"  BY <1>3, <1>4 DEF p, d, At
<1>5. CASE call[c].pc = "reserve"  BY <1>3, <1>5 DEF p, d, At, Walk
<1> QED  BY <1>4, <1>5 DEF DeltaSkipped

\* CallLost.
LEMMA LostEdge ==
    ASSUME TypeOK, NEW c \in Call, CallLost(c)
    PROVE  Edge(c, "done", 0, FALSE, 0, 0)
<1>1. NoCall \in CallState
  BY BudgetConstants DEF NoCall, CallState, Steps, Days
<1>2. /\ Ended \in CallState
      /\ Ended.pc = "done" /\ Ended.day = 0 /\ Ended.budgeted = FALSE
      /\ Ended.seed = 0 /\ Ended.weight = 0
  BY <1>1 DEF Ended, CallState, Steps, NoCall
<1>3. call' = [call EXCEPT ![c] = Ended]  BY DEF CallLost
<1> QED  BY <1>2, <1>3, EdgeOf

-----------------------------------------------------------------------------
(* Types. *)

\* The variables but the calls.
OthersOK ==
    /\ {redis, enforced} \subseteq BOOLEAN
    /\ day \in Days
    /\ counter \in [Days -> Nat \cup {None}]
    /\ chain \in [Days -> Nat]
    /\ rows \in [Days -> Nat]
    /\ faults \in 0..MaxFaults
    /\ slack \in [Days -> Nat]
    /\ leaked \in [Days -> Nat]
    /\ clean \in [Days -> BOOLEAN]

LEMMA TypeParts == TypeOK <=> OthersOK /\ call \in [Call -> CallState]
BY DEF TypeOK, OthersOK

LEMMA HeldType ==
    ASSUME NEW r \in CallState, NEW d
    PROVE  HeldOf(r, d) \in 0..Share
<1>1. r.weight \in 0..MaxWeight  BY DEF CallState
<1>2. Reserve \in Nat /\ MaxWeight \in Nat  BY BudgetConstants
<1> QED  BY <1>1, <1>2, ShareFacts DEF HeldOf

LEMMA HeldIsHeldOf == ASSUME NEW c, NEW d PROVE Held(c, d) = HeldOf(call[c], d)
BY DEF Held, HeldOf

LEMMA MissedType ==
    ASSUME TypeOK, NEW d \in Days
    PROVE  /\ Missed(d) \in Nat
           /\ \A c \in Call : At(c, "set") /\ call[c].day = d
                => call[c].seed + Missed(d) >= chain[d]
<1> DEFINE S == {chain[d]} \cup
                {call[c].seed : c \in {x \in Call : At(x, "set") /\ call[x].day = d}}
<1>1. chain[d] \in Nat  BY DEF TypeOK
<1>2. S \subseteq Nat /\ S # {}  BY <1>1, CallFields
<1>3. Min(S) \in Nat /\ \A y \in S : Min(S) <= y
  <2> HIDE DEF S
  <2> QED  BY <1>2, MinOfNats
<1>4. Missed(d) = chain[d] - Min(S)  BY DEF Missed
<1>5. Min(S) <= chain[d]  BY <1>3
<1>6. ASSUME NEW c \in Call, At(c, "set"), call[c].day = d
      PROVE  Min(S) <= call[c].seed /\ call[c].seed \in Nat
  BY <1>3, <1>6, CallFields
<1> HIDE DEF S
<1> QED  BY <1>1, <1>3, <1>4, <1>5, <1>6

\* _apply_delta leaves a number, and adds at least delta to it.
LEMMA DeltaType ==
    ASSUME TypeOK, NEW d \in Days, NEW delta \in Int, ApplyDelta(d, delta)
    PROVE  /\ counter' \in [Days -> Nat \cup {None}]
           /\ \A e \in Days \ {d} : counter'[e] = counter[e]
           /\ counter[d] = None => counter'[d] = None
           /\ counter[d] # None => /\ counter[d] \in Nat
                                   /\ counter'[d] \in Nat
                                   /\ counter'[d] # None
                                   /\ counter'[d] >= counter[d] + delta
                                   /\ counter[d] + delta >= 0
                                        => counter'[d] = counter[d] + delta
<1>1. counter \in [Days -> Nat \cup {None}]  BY DEF TypeOK
<1>2. None \notin Nat  BY BudgetConstants
<1>3. CASE counter[d] = None  BY <1>1, <1>3 DEF ApplyDelta
<1>4. CASE counter[d] # None
  <2>1. counter[d] \in Nat  BY <1>1, <1>4
  <2>2. PICK m : m = Max({0, counter[d] + delta})  OBVIOUS
  <2>3. /\ m \in Nat
        /\ m >= counter[d] + delta
        /\ counter[d] + delta >= 0 => m = counter[d] + delta
    <3>1. PICK k \in Int : k = counter[d] + delta  BY <2>1
    <3>2. m = Max({0, k})  BY <2>2, <3>1
    <3>3. m \in {0, k} /\ m >= 0 /\ m >= k  BY <3>2, MaxOfTwo
    <3> QED  BY <3>1, <3>3
  <2>4. counter' = [counter EXCEPT ![d] = m]  BY <1>4, <2>2 DEF ApplyDelta
  <2> QED  BY <1>1, <1>2, <1>4, <2>1, <2>3, <2>4
<1> QED  BY <1>3, <1>4

LEMMA BlursType ==
    ASSUME OthersOK, NEW d \in Days, NEW n \in Nat, Blurs(d, n)
    PROVE  /\ slack' \in [Days -> Nat]
           /\ clean' \in [Days -> BOOLEAN]
           /\ leaked' = leaked
           /\ slack'[d] = slack[d] + n
           /\ clean'[d] = FALSE
           /\ \A e \in Days \ {d} : slack'[e] = slack[e] /\ clean'[e] = clean[e]
BY DEF OthersOK, Blurs

LEMMA FaultType ==
    ASSUME OthersOK, Fault
    PROVE  faults' \in 0..MaxFaults /\ redis' = redis /\ enforced' = enforced /\ day' = day
BY BudgetConstants DEF OthersOK, Fault

LEMMA ActiveShares ==
    /\ Share * Cardinality(Active) \in Nat
    /\ Total([x \in Call |-> IF x \in Active THEN Share ELSE 0]) = Share * Cardinality(Active)
<1>1. Active \subseteq Call  BY DEF Active
<1> QED  BY <1>1, TotalShares

LEMMA TypeInit == Init => TypeOK
<1> SUFFICES ASSUME Init PROVE TypeOK  OBVIOUS
<1>1. NoCall \in CallState  BY BudgetConstants DEF NoCall, CallState, Steps, Days
<1>2. call \in [Call -> CallState]  BY <1>1 DEF Init
<1>3. chain \in [Days -> Nat]  BY BudgetConstants DEF Init
<1>4. rows \in [Days -> Nat]  BY DEF Init
<1>5. OthersOK  BY <1>3, <1>4, BudgetConstants DEF Init, OthersOK, Days
<1> QED  BY <1>2, <1>5, TypeParts

\* What every step of a call leaves alone, and what it makes of the rest.
LEMMA TypeStep ==
    ASSUME TypeOK, Next PROVE TypeOK'
<1> USE DEF env, ghosts
<1>0. OthersOK /\ call \in [Call -> CallState]  BY TypeParts
<1>1. ASSUME NEW c \in Call, Begin(c) \/ BeginMessages(c)  PROVE TypeOK'
  <2>1. call' \in [Call -> CallState]  BY <1>1, BeginEdge DEF Edge
  <2>2. OthersOK'  BY <1>0, <1>1 DEF Begin, BeginMessages, OthersOK
  <2> QED  BY <2>1, <2>2, TypeParts DEF TypeOK, OthersOK
<1>2. ASSUME NEW c \in Call, GetCounter(c)  PROVE TypeOK'
  <2>1. Go(c, "seed") \/ \E n : Decide(c, n)  BY <1>2 DEF GetCounter
  <2>2. call' \in [Call -> CallState]
    BY <2>1, GoWalks, DecideRules DEF Walk, Ruled, Edge, Steps
  <2>3. OthersOK'  BY <1>0, <1>2 DEF GetCounter, OthersOK
  <2> QED  BY <2>2, <2>3 DEF TypeOK, OthersOK
<1>3. ASSUME NEW c \in Call, Seed(c)  PROVE TypeOK'
  <2>1. call[c].day \in Days /\ chain[call[c].day] \in Nat  BY CallFields DEF TypeOK
  <2>2. PICK n \in Nat :
          /\ call' \in [Call -> CallState]
          /\ \/ UNCHANGED ghosts
             \/ n < chain[call[c].day] /\ Blurs(call[c].day, chain[call[c].day] - n)
    BY <1>3, SeedReads DEF Edge
  <2>3. UNCHANGED ghosts \/ \E m \in Nat : Blurs(call[c].day, m)
    <3>1. n < chain[call[c].day] => chain[call[c].day] - n \in Nat  BY <2>1
    <3> QED  BY <2>2, <3>1
  <2>4. OthersOK'
    <3>1. CASE UNCHANGED ghosts  BY <1>0, <1>3, <3>1 DEF Seed, OthersOK
    <3>2. ASSUME NEW m \in Nat, Blurs(call[c].day, m)  PROVE OthersOK'
      BY <1>0, <1>3, <2>1, <3>2, BlursType DEF Seed, OthersOK
    <3> QED  BY <2>3, <3>1, <3>2
  <2> QED  BY <2>2, <2>4 DEF TypeOK, OthersOK
<1>4. ASSUME NEW c \in Call, SeedFails(c)  PROVE TypeOK'
  <2>1. call[c].day \in Days /\ chain[call[c].day] \in Nat  BY CallFields DEF TypeOK
  <2>2. call' \in [Call -> CallState]  BY <1>4, SeedEdge DEF SeedFails, Edge
  <2>3. OthersOK'  BY <1>0, <1>4, <2>1, BlursType, FaultType DEF SeedFails, OthersOK
  <2> QED  BY <2>2, <2>3 DEF TypeOK, OthersOK
<1>5. ASSUME NEW c \in Call, SetSeed(c)  PROVE TypeOK'
  <2>1. call[c].day \in Days /\ call[c].seed \in Nat  BY CallFields
  <2>2. call' \in [Call -> CallState]
    BY <1>5, GoWalks DEF SetSeed, Walk, Edge, Steps
  <2>3. counter' \in [Days -> Nat \cup {None}]  BY <1>0, <1>5, <2>1 DEF SetSeed, OthersOK
  <2>4. OthersOK'  BY <1>0, <1>5, <2>3 DEF SetSeed, OthersOK
  <2> QED  BY <2>2, <2>4 DEF TypeOK, OthersOK
<1>6. ASSUME NEW c \in Call, GetAgain(c)  PROVE TypeOK'
  <2>1. Ruled(c)  BY <1>6, DecideRules DEF GetAgain
  <2>2. call' \in [Call -> CallState]  BY <2>1 DEF Ruled, Edge
  <2>3. OthersOK'  BY <1>0, <1>6 DEF GetAgain, OthersOK
  <2> QED  BY <2>2, <2>3 DEF TypeOK, OthersOK
<1>7. ASSUME NEW c \in Call, SeedMemory(c)  PROVE TypeOK'
  <2>1. call[c].day \in Days /\ call[c].seed \in Nat  BY CallFields
  <2>2. Ruled(c)  BY <1>7, DecideRules DEF SeedMemory
  <2>3. call' \in [Call -> CallState]  BY <2>2 DEF Ruled, Edge
  <2>4. PICK m : /\ m = IF counter[call[c].day] = None THEN 0
                        ELSE Max({0, counter[call[c].day] - call[c].seed})
                 /\ slack' = [slack EXCEPT ![call[c].day] = @ + m]
                 /\ counter' = [counter EXCEPT ![call[c].day] = call[c].seed]
    BY <1>7 DEF SeedMemory
  <2>5. m \in Nat
    <3>1. CASE counter[call[c].day] = None  BY <2>4, <3>1
    <3>2. CASE counter[call[c].day] # None
      <4>1. PICK k \in Int : k = counter[call[c].day] - call[c].seed
        BY <1>0, <2>1, <3>2 DEF OthersOK
      <4>2. m \in {0, k} /\ m >= 0  BY <2>4, <3>2, <4>1, MaxOfTwo
      <4> QED  BY <4>1, <4>2
    <3> QED  BY <3>1, <3>2
  <2>6. slack' \in [Days -> Nat]  BY <1>0, <2>1, <2>4, <2>5 DEF OthersOK
  <2>7. counter' \in [Days -> Nat \cup {None}]  BY <1>0, <2>1, <2>4 DEF OthersOK
  <2>8. OthersOK'  BY <1>0, <1>7, <2>6, <2>7 DEF SeedMemory, OthersOK
  <2> QED  BY <2>3, <2>8 DEF TypeOK, OthersOK
<1>8. ASSUME NEW c \in Call, GetFails(c)  PROVE TypeOK'
  <2>1. Ruled(c)  BY <1>8, DecideRules DEF GetFails
  <2>2. call' \in [Call -> CallState]  BY <2>1 DEF Ruled, Edge
  <2>3. call[c].day \in Days  BY CallFields
  <2>4. OthersOK'
    BY <1>0, <1>8, <2>3, ShareFacts, BlursType, FaultType DEF GetFails, OthersOK
  <2> QED  BY <2>2, <2>4 DEF TypeOK, OthersOK
<1>9. ASSUME NEW c \in Call, ReserveTokens(c)  PROVE TypeOK'
  <2>1. call[c].day \in Days /\ Reserve \in Int  BY CallFields, BudgetConstants
  <2>2. call' \in [Call -> CallState]
    BY <1>9, GoWalks DEF ReserveTokens, Walk, Edge, Steps
  <2>3. counter' \in [Days -> Nat \cup {None}]
    BY <1>9, <2>1, DeltaType DEF ReserveTokens
  <2>4. OthersOK'  BY <1>0, <1>9, <2>3 DEF ReserveTokens, OthersOK
  <2> QED  BY <2>2, <2>4 DEF TypeOK, OthersOK
<1>10. ASSUME NEW c \in Call, Settle(c)  PROVE TypeOK'
  <2>1. day \in Days  BY DEF TypeOK
  <2>2. PICK k \in Int : k = call[c].weight - Reserve  BY CallFields, BudgetConstants
  <2>3. call' \in [Call -> CallState]
    BY <1>10, <2>1, DayEdge DEF Settle, Edge, Steps
  <2>4. counter' \in [Days -> Nat \cup {None}]
    BY <1>10, <2>1, <2>2, DeltaType DEF Settle
  <2>5. OthersOK'  BY <1>0, <1>10, <2>4 DEF Settle, OthersOK
  <2> QED  BY <2>3, <2>5 DEF TypeOK, OthersOK
<1>11. ASSUME NEW c \in Call, DeltaSkipped(c)  PROVE TypeOK'
  <2>1. call' \in [Call -> CallState]  BY <1>11, SkippedEdge DEF Walk, Edge
  <2>2. call'[c].day \in Days  BY <2>1 DEF CallState
  <2>3. OthersOK'
    BY <1>0, <1>11, <2>2, ShareFacts, BlursType, FaultType DEF DeltaSkipped, OthersOK
  <2> QED  BY <2>1, <2>3 DEF TypeOK, OthersOK
<1>12. ASSUME NEW c \in Call, LogAudit(c)  PROVE TypeOK'
  <2>1. day \in Days  BY DEF TypeOK
  <2>2. call' \in [Call -> CallState]
    BY <1>12, <2>1, DayEdge DEF LogAudit, Edge, Steps
  <2>3. OthersOK'  BY <1>0, <1>12 DEF LogAudit, OthersOK
  <2> QED  BY <2>2, <2>3 DEF TypeOK, OthersOK
<1>13. ASSUME NEW c \in Call, RowLands(c)  PROVE TypeOK'
  <2>1. call[c].day \in Days /\ call[c].weight \in Nat  BY CallFields, BudgetConstants
  <2>2. call' \in [Call -> CallState]
    BY <1>13, GoWalks DEF RowLands, Walk, Edge, Steps
  <2>3. chain' \in [Days -> Nat] /\ rows' \in [Days -> Nat]
    BY <1>0, <1>13, <2>1 DEF RowLands, OthersOK
  <2>4. CASE call[c].budgeted
    <3>1. OthersOK'  BY <1>0, <1>13, <2>3, <2>4 DEF RowLands, OthersOK
    <3> QED  BY <2>2, <3>1 DEF TypeOK, OthersOK
  <2>5. CASE ~call[c].budgeted
    <3>1. OthersOK'
      BY <1>0, <1>13, <2>1, <2>3, <2>5, BlursType DEF RowLands, OthersOK
    <3> QED  BY <2>2, <3>1 DEF TypeOK, OthersOK
  <2> QED  BY <2>4, <2>5
<1>14. ASSUME NEW c \in Call, NEW w \in 0..MaxWeight, Dispatch(c, w)  PROVE TypeOK'
  <2>1. call' \in [Call -> CallState]  BY <1>14, DispatchEdge DEF Edge
  <2>2. OthersOK'  BY <1>0, <1>14 DEF Dispatch, OthersOK
  <2> QED  BY <2>1, <2>2 DEF TypeOK, OthersOK
<1>15. ASSUME NEW c \in Call, CallLost(c)  PROVE TypeOK'
  <2>1. call' \in [Call -> CallState]  BY <1>15, LostEdge DEF Edge
  <2>2. \A d \in Days : Held(c, d) \in Nat
    BY HeldIsHeldOf, HeldType, CallFields, ShareFacts
  <2>3. leaked' \in [Days -> Nat]  BY <1>0, <1>15, <2>2 DEF CallLost, OthersOK
  <2>4. OthersOK'  BY <1>0, <1>15, <2>3, FaultType DEF CallLost, OthersOK
  <2> QED  BY <2>1, <2>4 DEF TypeOK, OthersOK
<1>16. ASSUME ProcessDies  PROVE TypeOK'
  <2>1. NoCall \in CallState
    BY BudgetConstants DEF NoCall, CallState, Steps, Days
  <2>2. Ended \in CallState  BY <2>1 DEF Ended, CallState, Steps
  <2>3. call' \in [Call -> CallState]  BY <1>0, <1>16, <2>2 DEF ProcessDies
  <2>4. OthersOK'  BY <1>0, <1>16, FaultType DEF ProcessDies, OthersOK
  <2> QED  BY <2>3, <2>4 DEF TypeOK, OthersOK
<1>17. ASSUME NEW d \in Days, KeyLost(d)  PROVE TypeOK'
  <2>1. PICK n \in Nat : n = Share * Cardinality(Active) + Missed(d)
    BY MissedType, ActiveShares
  <2>2. Blurs(d, n)  BY <1>17, <2>1 DEF KeyLost
  <2>3. counter' \in [Days -> Nat \cup {None}]  BY <1>0, <1>17 DEF KeyLost, OthersOK
  <2>4. OthersOK'
    BY <1>0, <1>17, <2>2, <2>3, BlursType, FaultType DEF KeyLost, OthersOK
  <2> QED  BY <1>0, <1>17, <2>4 DEF TypeOK, OthersOK, KeyLost
<1>18. ASSUME NextDay  PROVE TypeOK'
  <2>1. PICK n \in Nat : n = Share * Cardinality(Active)
    BY ActiveShares
  <2> HIDE DEF ghosts
  <2>2. slack' = [slack EXCEPT ![1] = @ + n]  BY <1>18, <2>1 DEF NextDay
  <2>3. slack' \in [Days -> Nat] /\ clean' \in [Days -> BOOLEAN]
    BY <1>0, <1>18, <2>2 DEF NextDay, OthersOK, Days
  <2>4. OthersOK'  BY <1>0, <1>18, <2>3 DEF NextDay, OthersOK, Days
  <2> QED  BY <1>0, <1>18, <2>4 DEF TypeOK, OthersOK, NextDay
<1>19. ASSUME SwitchPolicy  PROVE TypeOK'
  BY <1>0, <1>19, BudgetConstants DEF SwitchPolicy, OthersOK, TypeOK
<1> QED
  BY <1>1, <1>2, <1>3, <1>4, <1>5, <1>6, <1>7, <1>8, <1>9, <1>10, <1>11, <1>12,
     <1>13, <1>14, <1>15, <1>16, <1>17, <1>18, <1>19 DEF Next

\* The budget's state is well typed; in particular no counter is ever negative,
\* whatever refunds, lost keys and midnights meet (_DELTA_LUA, budget.py:164).
THEOREM TypeCorrect == Spec => []TypeOK
<1>1. TypeOK /\ [Next]_vars => TypeOK'
  <2>1. ASSUME TypeOK, UNCHANGED vars PROVE TypeOK'
    BY <2>1 DEF TypeOK, vars, env, ghosts
  <2> QED  BY <2>1, TypeStep
<1> QED  BY <1>1, TypeInit, PTL DEF Spec

-----------------------------------------------------------------------------
(* Totals of the calls. *)

LEMMA OwedAndRisk ==
    ASSUME NEW r \in CallState, NEW d, NEW today
    PROVE  /\ HeldOf(r, d) \in 0..Share
           /\ OwedOf(r, d, today) \in 0..Share
           /\ RiskOf(r, d, today) \in 0..Share
           /\ HeldOf(r, d) <= OwedOf(r, d, today)
           /\ OwedOf(r, d, today) <= RiskOf(r, d, today)
<1>1. HeldOf(r, d) \in 0..Share  BY HeldType
<1>2. Share \in Nat  BY ShareFacts
<1>3. HeldOf(r, d) # 0 => Past(r, d)  BY DEF HeldOf, Past
<1> QED  BY <1>1, <1>2, <1>3 DEF OwedOf, RiskOf

LEMMA AmountsOf ==
    ASSUME call \in [Call -> CallState], NEW d
    PROVE  /\ [x \in Call |-> HeldOf(call[x], d)] \in Amounts
           /\ [x \in Call |-> OwedOf(call[x], d, day)] \in Amounts
           /\ [x \in Call |-> RiskOf(call[x], d, day)] \in Amounts
<1>1. \A x \in Call : call[x] \in CallState  OBVIOUS
<1> QED  BY <1>1, OwedAndRisk DEF Amounts

LEMMA TotalTypes ==
    ASSUME call \in [Call -> CallState], NEW d
    PROVE  /\ HeldTotal(d) \in Nat
           /\ OwedTotal(d) \in Nat
           /\ RiskTotal(d) \in Nat
           /\ HeldTotal(d) <= OwedTotal(d)
           /\ OwedTotal(d) <= RiskTotal(d)
<1>1. \A x \in Call : call[x] \in CallState  OBVIOUS
<1>2. HeldTotal(d) <= OwedTotal(d)
  BY <1>1, AmountsOf, TotalMonotone, OwedAndRisk DEF HeldTotal, OwedTotal
<1>3. OwedTotal(d) <= RiskTotal(d)
  BY <1>1, AmountsOf, TotalMonotone, OwedAndRisk DEF OwedTotal, RiskTotal
<1> QED  BY <1>2, <1>3, TokensFinite DEF HeldTotal, OwedTotal, RiskTotal

\* A step of one call changes each total by what it changes for that call.
LEMMA CallTotals ==
    ASSUME call \in [Call -> CallState], call' \in [Call -> CallState], day' = day,
           NEW c \in Call, \A x \in Call \ {c} : call'[x] = call[x], NEW d
    PROVE  /\ HeldTotal(d)' = HeldTotal(d) - HeldOf(call[c], d) + HeldOf(call'[c], d)
           /\ OwedTotal(d)' = OwedTotal(d) - OwedOf(call[c], d, day) + OwedOf(call'[c], d, day)
           /\ RiskTotal(d)' = RiskTotal(d) - RiskOf(call[c], d, day) + RiskOf(call'[c], d, day)
<1>1. PICK h : h = [x \in Call |-> HeldOf(call'[x], d)]  OBVIOUS
<1>2. PICK o : o = [x \in Call |-> OwedOf(call'[x], d, day)]  OBVIOUS
<1>3. PICK r : r = [x \in Call |-> RiskOf(call'[x], d, day)]  OBVIOUS
<1>4. \A x \in Call : call'[x] \in CallState  OBVIOUS
<1>5. h \in Amounts /\ o \in Amounts /\ r \in Amounts
  BY <1>1, <1>2, <1>3, <1>4, OwedAndRisk DEF Amounts
<1>6. /\ HeldTotal(d)' = Total(h)
      /\ OwedTotal(d)' = Total(o)
      /\ RiskTotal(d)' = Total(r)
  BY <1>1, <1>2, <1>3 DEF HeldTotal, OwedTotal, RiskTotal, Total, HeldOf, OwedOf, RiskOf,
                          Moves, Past
<1>7. PICK f : f = [x \in Call |-> HeldOf(call[x], d)]  OBVIOUS
<1>8. PICK g : g = [x \in Call |-> OwedOf(call[x], d, day)]  OBVIOUS
<1>9. PICK k : k = [x \in Call |-> RiskOf(call[x], d, day)]  OBVIOUS
<1>10. f \in Amounts /\ g \in Amounts /\ k \in Amounts  BY <1>7, <1>8, <1>9, AmountsOf
<1>11. \A x \in Call \ {c} : f[x] = h[x] /\ g[x] = o[x] /\ k[x] = r[x]
  BY <1>1, <1>2, <1>3, <1>7, <1>8, <1>9
<1>12. /\ Total(h) = Total(f) - f[c] + h[c]
       /\ Total(o) = Total(g) - g[c] + o[c]
       /\ Total(r) = Total(k) - k[c] + r[c]
  BY <1>5, <1>10, <1>11, TotalChange
<1> QED
  BY <1>1, <1>2, <1>3, <1>6, <1>7, <1>8, <1>9, <1>12 DEF HeldTotal, OwedTotal, RiskTotal

LEMMA HeldByIsTotal == ASSUME NEW d PROVE HeldBy(d) = HeldTotal(d)
<1>1. PICK f : f = [x \in Call |-> HeldOf(call[x], d)]  OBVIOUS
<1>2. \A t \in Call \X (1..Share) : f[t[1]] = Held(t[1], d)  BY <1>1, HeldIsHeldOf
<1> QED  BY <1>1, <1>2 DEF HeldBy, HeldTotal, Total

-----------------------------------------------------------------------------
(* Steps of one call that disturb neither invariant. *)

\* c moves, the rest of the calls and the day stay.
Moved(c) ==
    /\ TypeOK
    /\ TypeOK'
    /\ day' = day
    /\ \A x \in Call \ {c} : call'[x] = call[x]

\* A step that changes an existing counter by what it changes of the chain and
\* of c's tokens, and does nothing while there is none.
LEMMA ExactQuiet ==
    ASSUME NEW c \in Call, NEW d \in Days, Moved(c), ExactFor(d),
           call'[c].pc \notin {"new", "done"} => call'[c].day = day,
           counter[d] # None =>
             /\ counter'[d] # None
             /\ counter'[d] - chain'[d] - leaked'[d] - HeldOf(call'[c], d)
                  = counter[d] - chain[d] - leaked[d] - HeldOf(call[c], d),
           counter[d] = None =>
             /\ counter'[d] = None
             /\ leaked'[d] = leaked[d]
             /\ chain'[d] = chain[d]
             /\ ~Past(call'[c], d)
             /\ ~(call'[c].pc = "set" /\ call'[c].day = d)
    PROVE  ExactFor(d)'
<1>1. /\ call \in [Call -> CallState] /\ call' \in [Call -> CallState]
      /\ day' = day /\ \A x \in Call \ {c} : call'[x] = call[x]
  BY DEF Moved, TypeOK
<1>2. \A x \in Call : call'[x].pc \notin {"new", "done"} => call'[x].day = day'
  BY <1>1 DEF ExactFor
<1>3. CASE counter[d] # None
  <2>1. /\ chain[d] \in Nat /\ chain'[d] \in Nat /\ leaked[d] \in Nat /\ leaked'[d] \in Nat
        /\ counter[d] \in Nat /\ counter'[d] \in Nat
    BY <1>3 DEF Moved, TypeOK
  <2>2. PICK h, k : h = HeldOf(call[c], d) /\ k = HeldOf(call'[c], d)  OBVIOUS
  <2>3. h \in Nat /\ k \in Nat  BY <1>1, <2>2, HeldType, ShareFacts
  <2>4. HeldTotal(d)' = HeldTotal(d) - h + k  BY <1>1, <2>2, CallTotals
  <2>5. HeldTotal(d) \in Nat  BY <1>1, TotalTypes
  <2>6. counter[d] = chain[d] + HeldTotal(d) + leaked[d]  BY <1>3 DEF ExactFor
  <2>7. counter'[d] - chain'[d] - leaked'[d] - k = counter[d] - chain[d] - leaked[d] - h
    BY <1>3, <2>2
  <2>8. counter'[d] = chain'[d] + HeldTotal(d)' + leaked'[d]
    BY <2>1, <2>3, <2>4, <2>5, <2>6, <2>7
  <2> QED  BY <1>2, <1>3, <2>8 DEF ExactFor
<1>4. CASE counter[d] = None
  <2>1. leaked'[d] = 0  BY <1>4 DEF ExactFor
  <2>2. \A x \in Call : ~Past(call'[x], d)  BY <1>1, <1>4 DEF ExactFor
  <2>3. \A x \in Call : call'[x].pc = "set" /\ call'[x].day = d => call'[x].seed = chain'[d]
    BY <1>1, <1>4 DEF ExactFor, At
  <2> QED  BY <1>2, <1>4, <2>1, <2>2, <2>3 DEF ExactFor, At, Past
<1> QED  BY <1>3, <1>4

\* A step whose slack pays for what it takes.
LEMMA UnderQuiet ==
    ASSUME NEW c \in Call, NEW d \in Days, Moved(c), UnderFor(d),
           chain'[d] >= chain[d],
           counter[d] # None =>
             /\ counter'[d] # None
             /\ counter'[d] + slack'[d] - chain'[d] - OwedOf(call'[c], d, day)
                  >= counter[d] + slack[d] - chain[d] - OwedOf(call[c], d, day),
           counter[d] = None =>
             /\ counter'[d] = None
             /\ slack'[d] - chain'[d] - RiskOf(call'[c], d, day)
                  >= slack[d] - chain[d] - RiskOf(call[c], d, day)
             /\ ~(call'[c].pc = "set" /\ call'[c].day = d)
    PROVE  UnderFor(d)'
<1>1. /\ call \in [Call -> CallState] /\ call' \in [Call -> CallState]
      /\ day' = day /\ \A x \in Call \ {c} : call'[x] = call[x]
  BY DEF Moved, TypeOK
<1>2. chain[d] \in Nat /\ chain'[d] \in Nat /\ slack[d] \in Nat /\ slack'[d] \in Nat
  BY DEF Moved, TypeOK
<1>3. CASE counter[d] # None
  <2>1. counter[d] \in Nat /\ counter'[d] \in Nat  BY <1>3 DEF Moved, TypeOK
  <2>2. PICK h, k : h = OwedOf(call[c], d, day) /\ k = OwedOf(call'[c], d, day)  OBVIOUS
  <2>3. h \in Nat /\ k \in Nat  BY <1>1, <2>2, OwedAndRisk, ShareFacts
  <2>4. OwedTotal(d)' = OwedTotal(d) - h + k  BY <1>1, <2>2, CallTotals
  <2>5. OwedTotal(d) \in Nat  BY <1>1, TotalTypes
  <2>6. counter[d] + slack[d] >= chain[d] + OwedTotal(d)  BY <1>3 DEF UnderFor
  <2>7. counter'[d] + slack'[d] - chain'[d] - k >= counter[d] + slack[d] - chain[d] - h
    BY <1>3, <2>2
  <2>8. counter'[d] + slack'[d] >= chain'[d] + OwedTotal(d)'
    BY <1>2, <2>1, <2>3, <2>4, <2>5, <2>6, <2>7
  <2> QED  BY <1>3, <2>8 DEF UnderFor
<1>4. CASE counter[d] = None
  <2>1. PICK h, k : h = RiskOf(call[c], d, day) /\ k = RiskOf(call'[c], d, day)  OBVIOUS
  <2>2. h \in Nat /\ k \in Nat  BY <1>1, <2>1, OwedAndRisk, ShareFacts
  <2>3. RiskTotal(d)' = RiskTotal(d) - h + k  BY <1>1, <2>1, CallTotals
  <2>4. RiskTotal(d) \in Nat  BY <1>1, TotalTypes
  <2>5. slack'[d] - chain'[d] - k >= slack[d] - chain[d] - h  BY <1>4, <2>1
  <2>6. slack[d] >= RiskTotal(d)  BY <1>4 DEF UnderFor
  <2>7. slack'[d] >= RiskTotal(d)'  BY <1>2, <2>2, <2>3, <2>4, <2>5, <2>6
  <2>8. ASSUME NEW x \in Call, call'[x].pc = "set", call'[x].day = d
        PROVE  call'[x].seed + slack'[d] >= chain'[d] + RiskTotal(d)'
    <3>1. x # c  BY <1>4, <2>8
    <3>2. call'[x] = call[x]  BY <1>1, <3>1
    <3>3. call[x].seed + slack[d] >= chain[d] + RiskTotal(d)
      BY <1>4, <2>8, <3>2 DEF UnderFor, At
    <3>4. call[x].seed \in Nat  BY <1>1 DEF CallState
    <3> QED  BY <1>2, <2>2, <2>3, <2>4, <2>5, <3>2, <3>3, <3>4
  <2> QED  BY <1>4, <2>7, <2>8 DEF UnderFor, At
<1> QED  BY <1>3, <1>4

-----------------------------------------------------------------------------
(* What each step does to the call that takes it. *)

LEMMA GetCounterEdge ==
    ASSUME TypeOK, NEW c \in Call, GetCounter(c)
    PROVE  \/ Walk(c, "seed")
           \/ counter[call[c].day] # None /\ Ruled(c)
<1>1. CASE counter[call[c].day] = None
  BY <1>1, GoWalks DEF GetCounter, Steps
<1>2. CASE counter[call[c].day] # None
  BY <1>2, DecideRules DEF GetCounter
<1> QED  BY <1>1, <1>2

LEMMA DecidedEdge ==
    ASSUME TypeOK, NEW c \in Call, GetAgain(c) \/ SeedMemory(c) \/ GetFails(c)
    PROVE  Ruled(c)
BY DecideRules DEF GetAgain, SeedMemory, GetFails

\* Every step of a call leaves the others, the day and the store alone.
LEMMA MovedBy ==
    ASSUME TypeOK, TypeOK', NEW c \in Call,
           \/ Begin(c) \/ BeginMessages(c) \/ GetCounter(c) \/ Seed(c) \/ SeedFails(c) \/ SetSeed(c)
           \/ GetAgain(c) \/ SeedMemory(c) \/ GetFails(c) \/ ReserveTokens(c)
           \/ Settle(c) \/ DeltaSkipped(c) \/ LogAudit(c) \/ RowLands(c)
           \/ (\E w \in 0..MaxWeight : Dispatch(c, w)) \/ CallLost(c)
    PROVE  Moved(c) /\ redis' = redis
<1>1. day' = day /\ redis' = redis
  BY DEF Begin, BeginMessages, GetCounter, Seed, SeedFails, SetSeed, GetAgain, SeedMemory, GetFails,
         ReserveTokens, Settle, DeltaSkipped, LogAudit, RowLands, Dispatch, CallLost,
         Fault, env
<1>2. \A x \in Call \ {c} : call'[x] = call[x]
  BY DEF Begin, BeginMessages, GetCounter, Seed, SeedFails, SetSeed, GetAgain, SeedMemory, GetFails,
         ReserveTokens, Settle, DeltaSkipped, LogAudit, RowLands, Dispatch, CallLost, Go,
         Decide, TypeOK
<1> QED  BY <1>1, <1>2 DEF Moved

LEMMA CallsInit == Init => CallsInv
BY DEF Init, CallsInv, NoCall, Days

LEMMA CallsKept ==
    ASSUME NEW c \in Call, Moved(c), CallsInv,
           call'[c].pc \in {"get", "seed", "set", "again", "reserve", "settle"}
             => call'[c].budgeted,
           call'[c].day \in {0, call[c].day, day},
           day = 0 => chain'[1] = chain[1]
    PROVE  CallsInv'
BY DEF CallsInv, Moved

LEMMA CallsStep ==
    ASSUME TypeOK, TypeOK', CallsInv, Next PROVE CallsInv'
<1>1. ASSUME NEW c \in Call, Begin(c) \/ BeginMessages(c)  PROVE CallsInv'
  BY <1>1, BeginEdge, MovedBy, CallsKept DEF Begin, BeginMessages, Edge
<1>2. ASSUME NEW c \in Call, GetCounter(c)  PROVE CallsInv'
  <2>1. call[c].budgeted  BY <1>2 DEF GetCounter, At, CallsInv
  <2> QED  BY <1>2, <2>1, GetCounterEdge, MovedBy, CallsKept DEF GetCounter, Walk, Ruled, Edge
<1>3. ASSUME NEW c \in Call, Seed(c) \/ SeedFails(c)  PROVE CallsInv'
  <2>1. call[c].budgeted  BY <1>3 DEF Seed, SeedFails, At, CallsInv
  <2>2. chain[call[c].day] \in Nat  BY CallFields DEF TypeOK
  <2>3. PICK n \in Nat : Edge(c, "set", call[c].day, call[c].budgeted, n, call[c].weight)
    BY <1>3, <2>2, SeedEdge, SeedReads DEF SeedFails
  <2> QED  BY <1>3, <2>1, <2>3, MovedBy, CallsKept DEF Seed, SeedFails, Edge
<1>4. ASSUME NEW c \in Call, SetSeed(c)  PROVE CallsInv'
  <2>1. call[c].budgeted  BY <1>4 DEF SetSeed, At, CallsInv
  <2>2. Walk(c, "again")  BY <1>4, GoWalks DEF SetSeed, Steps
  <2> QED  BY <1>4, <2>1, <2>2, MovedBy, CallsKept DEF SetSeed, Walk, Edge
<1>5. ASSUME NEW c \in Call, GetAgain(c) \/ SeedMemory(c) \/ GetFails(c)  PROVE CallsInv'
  <2>1. call[c].budgeted  BY <1>5 DEF GetAgain, SeedMemory, GetFails, At, CallsInv
  <2> QED  BY <1>5, <2>1, DecidedEdge, MovedBy, CallsKept
         DEF GetAgain, SeedMemory, GetFails, Ruled, Edge
<1>6. ASSUME NEW c \in Call, ReserveTokens(c)  PROVE CallsInv'
  <2>1. Walk(c, "dispatch")  BY <1>6, GoWalks DEF ReserveTokens, Steps
  <2> QED  BY <1>6, <2>1, MovedBy, CallsKept DEF ReserveTokens, Walk, Edge
<1>7. ASSUME NEW c \in Call, Settle(c) \/ LogAudit(c)  PROVE CallsInv'
  <2>1. day \in Days  BY DEF TypeOK
  <2>2. PICK p \in {"log", "row"} :
           Edge(c, p, day, call[c].budgeted, call[c].seed, call[c].weight)
    BY <1>7, <2>1, DayEdge DEF Settle, LogAudit, Steps
  <2> QED  BY <1>7, <2>2, MovedBy, CallsKept DEF Settle, LogAudit, Edge
<1>8. ASSUME NEW c \in Call, DeltaSkipped(c)  PROVE CallsInv'
  BY <1>8, SkippedEdge, MovedBy, CallsKept DEF DeltaSkipped, Walk, Edge
<1>9. ASSUME NEW c \in Call, RowLands(c)  PROVE CallsInv'
  <2>1. Walk(c, "done")  BY <1>9, GoWalks DEF RowLands, Steps
  <2>2. day = 0 => chain'[1] = chain[1]
    <3>1. day = 0 => call[c].day = 0  BY DEF CallsInv
    <3>2. chain' = [chain EXCEPT ![call[c].day] = @ + call[c].weight]  BY <1>9 DEF RowLands
    <3> QED  BY <3>1, <3>2 DEF TypeOK, Days
  <2> QED  BY <1>9, <2>1, <2>2, MovedBy, CallsKept DEF Walk, Edge
<1>10. ASSUME NEW c \in Call, NEW w \in 0..MaxWeight, Dispatch(c, w)  PROVE CallsInv'
  <2>1. Edge(c, IF call[c].budgeted THEN "settle" ELSE "log", call[c].day,
             call[c].budgeted, call[c].seed, w)
    BY <1>10, DispatchEdge
  <2>2. Moved(c) /\ chain' = chain  BY <1>10, MovedBy DEF Dispatch
  <2> QED  BY <2>1, <2>2, CallsKept DEF Edge
<1>11. ASSUME NEW c \in Call, CallLost(c)  PROVE CallsInv'
  BY <1>11, LostEdge, MovedBy, CallsKept DEF CallLost, Edge
<1>12. ASSUME ProcessDies  PROVE CallsInv'
  BY <1>12 DEF ProcessDies, Fault, CallsInv, Ended, NoCall
<1>13. ASSUME NEW d \in Days, KeyLost(d)  PROVE CallsInv'
  BY <1>13 DEF KeyLost, Fault, CallsInv
<1>14. ASSUME NextDay \/ SwitchPolicy  PROVE CallsInv'
  BY <1>14 DEF NextDay, SwitchPolicy, CallsInv
<1> QED
  BY <1>1, <1>2, <1>3, <1>4, <1>5, <1>6, <1>7, <1>8, <1>9, <1>10, <1>11, <1>12, <1>13,
     <1>14 DEF Next

-----------------------------------------------------------------------------
(* CounterExact. *)

\* Nothing has disturbed the counter of d, before and after the step.
Clean(d) ==
    /\ TypeOK /\ TypeOK' /\ CallsInv
    /\ redis /\ clean[d] /\ clean'[d]
    /\ ExactFor(d)

LEMMA ExactInit == Init => ExactInv
<1> SUFFICES ASSUME Init, NEW d \in Days PROVE ExactFor(d)  BY DEF ExactInv
<1>1. \A c \in Call : call[c].pc = "new" /\ ~call[c].budgeted  BY DEF Init, NoCall
<1> QED  BY <1>1 DEF ExactFor, Init, Past, At

\* Steps that touch neither counter nor chain and hold as much after as before.
LEMMA ExactIdle ==
    ASSUME NEW c \in Call, NEW d \in Days, Moved(c), ExactFor(d),
           counter' = counter, chain' = chain, leaked' = leaked,
           call'[c].pc \notin {"new", "done"} => call'[c].day = day,
           HeldOf(call'[c], d) = HeldOf(call[c], d),
           counter[d] = None => /\ ~Past(call'[c], d)
                                /\ ~(call'[c].pc = "set" /\ call'[c].day = d)
    PROVE  ExactFor(d)'
BY ExactQuiet

\* The reads, and what is only a step of the call.
LEMMA ExactReads ==
    ASSUME NEW c \in Call, NEW d \in Days, Clean(d),
           \/ Begin(c) \/ BeginMessages(c) \/ GetCounter(c) \/ GetAgain(c) \/ LogAudit(c)
           \/ (\E w \in 0..MaxWeight : Dispatch(c, w))
    PROVE  ExactFor(d)'
<1>0. TypeOK /\ TypeOK' /\ CallsInv /\ ExactFor(d)  BY DEF Clean
<1>1. Moved(c) /\ counter' = counter /\ chain' = chain /\ leaked' = leaked
  BY <1>0, MovedBy DEF Begin, BeginMessages, GetCounter, GetAgain, LogAudit, Dispatch, ghosts
<1>2. /\ call[c].pc \notin {"new", "done"} => call[c].day = day
      /\ counter[d] = None => ~Past(call[c], d)
  BY <1>0 DEF ExactFor
<1>3. CASE Begin(c) \/ BeginMessages(c)
  <2>1. PICK b \in BOOLEAN : Edge(c, IF b THEN "get" ELSE "dispatch", day, b,
                                 call[c].seed, call[c].weight)
    BY <1>0, <1>3, BeginEdge
  <2>2. call[c].pc = "new"  BY <1>3 DEF Begin, BeginMessages, At
  <2>3. HeldOf(call[c], d) = 0 /\ HeldOf(call'[c], d) = 0 /\ ~Past(call'[c], d)
    BY <2>1, <2>2 DEF Edge, HeldOf, Past
  <2> QED  BY <1>0, <1>1, <2>1, <2>3, ExactIdle DEF Edge
<1>4. CASE GetCounter(c)
  <2>1. \/ Walk(c, "seed")
        \/ counter[call[c].day] # None /\ Ruled(c)
    BY <1>0, <1>4, GetCounterEdge
  <2>2. call[c].pc = "get"  BY <1>4 DEF GetCounter, At
  <2>3. HeldOf(call[c], d) = 0 /\ HeldOf(call'[c], d) = 0
    BY <2>1, <2>2 DEF Walk, Ruled, Edge, HeldOf
  <2>4. counter[d] = None => ~Past(call'[c], d)  BY <2>1 DEF Walk, Ruled, Edge, Past
  <2> QED  BY <1>0, <1>1, <1>2, <2>1, <2>2, <2>3, <2>4, ExactIdle DEF Walk, Ruled, Edge
<1>5. CASE GetAgain(c)
  <2>1. Ruled(c)  BY <1>0, <1>5, DecidedEdge
  <2>2. call[c].pc = "again"  BY <1>5 DEF GetAgain, At
  <2>3. HeldOf(call[c], d) = 0 /\ HeldOf(call'[c], d) = 0
    BY <2>1, <2>2 DEF Walk, Ruled, Edge, HeldOf
  <2>4. counter[d] = None => ~Past(call'[c], d)  BY <1>2, <2>1, <2>2 DEF Walk, Ruled, Edge, Past
  <2> QED  BY <1>0, <1>1, <1>2, <2>1, <2>2, <2>3, <2>4, ExactIdle DEF Walk, Ruled, Edge
<1>6. CASE LogAudit(c)
  <2>1. Edge(c, "row", day, call[c].budgeted, call[c].seed, call[c].weight)
    BY <1>0, <1>6, DayEdge DEF LogAudit, Steps, TypeOK
  <2>2. call[c].pc = "log" /\ call[c].day = day  BY <1>2, <1>6 DEF LogAudit, At
  <2>3. HeldOf(call'[c], d) = HeldOf(call[c], d)
    BY <2>1, <2>2 DEF Edge, HeldOf
  <2>4. counter[d] = None => ~Past(call'[c], d)  BY <1>2, <2>1, <2>2 DEF Edge, Past
  <2> QED  BY <1>0, <1>1, <2>1, <2>3, <2>4, ExactIdle DEF Edge
<1>7. ASSUME NEW w \in 0..MaxWeight, Dispatch(c, w)  PROVE ExactFor(d)'
  <2>1. Edge(c, IF call[c].budgeted THEN "settle" ELSE "log", call[c].day,
             call[c].budgeted, call[c].seed, w)
    BY <1>0, <1>7, DispatchEdge
  <2>2. call[c].pc = "dispatch" /\ call[c].day = day  BY <1>2, <1>7 DEF Dispatch, At
  <2>3. HeldOf(call'[c], d) = HeldOf(call[c], d)
    BY <2>1, <2>2 DEF Edge, HeldOf
  <2>4. counter[d] = None => ~Past(call'[c], d)  BY <1>2, <2>1, <2>2 DEF Edge, Past
  <2> QED  BY <1>0, <1>1, <2>1, <2>2, <2>3, <2>4, ExactIdle DEF Edge
<1> QED  BY <1>3, <1>4, <1>5, <1>6, <1>7

\* A seeder reads the chain while the counter does not exist: all there is.
LEMMA ExactSeed ==
    ASSUME NEW c \in Call, NEW d \in Days, Clean(d), Seed(c)
    PROVE  ExactFor(d)'
<1>0. TypeOK /\ TypeOK' /\ CallsInv /\ ExactFor(d)  BY DEF Clean
<1>1. Moved(c) /\ counter' = counter /\ chain' = chain /\ leaked' = leaked
  BY <1>0, MovedBy DEF Seed, ghosts, Blurs
<1>2. call[c].pc = "seed" /\ call[c].day = day /\ call[c].day \in Days
  BY <1>0, CallFields DEF Seed, At, ExactFor
<1>3. PICK n \in Nat :
        /\ n <= Since(chain, call[c].day)
        /\ Edge(c, "set", call[c].day, call[c].budgeted, n, call[c].weight)
        /\ \/ n >= chain[call[c].day]
           \/ n < chain[call[c].day] /\ Blurs(call[c].day, chain[call[c].day] - n)
  BY <1>0, SeedReads
<1>4. /\ Edge(c, "set", call[c].day, call[c].budgeted, n, call[c].weight)
      /\ d = call[c].day => n = chain[d]
  <2>1. chain[0] \in Nat /\ chain[1] \in Nat /\ chain[call[c].day] \in Nat
    BY <1>0, <1>2 DEF TypeOK, Days
  <2>2. Since(chain, call[c].day) = chain[call[c].day]
    BY <1>0, <1>2, <2>1 DEF CallsInv, Since, Days
  <2>3. ASSUME n < chain[call[c].day], Blurs(call[c].day, chain[call[c].day] - n)
        PROVE  d # call[c].day
    <3>1. PICK m \in Nat : m = chain[call[c].day] - n  BY <2>1, <2>3
    <3>2. Blurs(call[c].day, m)  BY <2>3, <3>1
    <3>3. ~clean'[call[c].day]  BY <1>0, <1>2, <3>2, BlursType, TypeParts
    <3> QED  BY <3>3 DEF Clean
  <2>4. d = call[c].day => n >= chain[d]  BY <1>3, <2>3
  <2> QED  BY <1>3, <2>1, <2>2, <2>4
<1>5. HeldOf(call[c], d) = 0 /\ HeldOf(call'[c], d) = 0 /\ ~Past(call'[c], d)
  BY <1>2, <1>4 DEF Edge, HeldOf, Past
<1>6. CASE counter[d] # None  BY <1>0, <1>1, <1>2, <1>4, <1>5, <1>6, ExactIdle DEF Edge
<1>7. CASE counter[d] = None
  <2>1. \A x \in Call : call'[x].pc \notin {"new", "done"} => call'[x].day = day'
    BY <1>0, <1>1, <1>2, <1>4 DEF ExactFor, Edge, Moved
  <2>2. \A x \in Call : ~Past(call'[x], d)
    BY <1>0, <1>4, <1>5, <1>7 DEF ExactFor, Edge
  <2>3. \A x \in Call : call'[x].pc = "set" /\ call'[x].day = d => call'[x].seed = chain'[d]
    BY <1>0, <1>1, <1>4, <1>7 DEF ExactFor, Edge, At
  <2>4. leaked'[d] = 0  BY <1>0, <1>1, <1>7 DEF ExactFor
  <2> QED  BY <1>1, <1>7, <2>1, <2>2, <2>3, <2>4 DEF ExactFor, At, Past
<1> QED  BY <1>6, <1>7

\* SET NX creates the counter with all there is, or finds it.
LEMMA ExactSetSeed ==
    ASSUME NEW c \in Call, NEW d \in Days, Clean(d), SetSeed(c)
    PROVE  ExactFor(d)'
<1>0. TypeOK /\ TypeOK' /\ CallsInv /\ ExactFor(d)  BY DEF Clean
<1>1. Moved(c) /\ chain' = chain /\ leaked' = leaked
  BY <1>0, MovedBy DEF SetSeed, ghosts
<1>2. call[c].pc = "set" /\ call[c].day = day /\ call[c].day \in Days
  BY <1>0, CallFields DEF SetSeed, At, ExactFor
<1>3. Walk(c, "again")  BY <1>0, GoWalks DEF SetSeed, Steps
<1>4. HeldOf(call[c], d) = 0 /\ HeldOf(call'[c], d) = 0
  BY <1>2, <1>3 DEF Walk, Edge, HeldOf
<1>5. counter' = [counter EXCEPT ![call[c].day] = IF @ = None THEN call[c].seed ELSE @]
  BY DEF SetSeed
<1>6. counter \in [Days -> Nat \cup {None}]  BY <1>0 DEF TypeOK
<1>7. CASE d # call[c].day
  <2>1. counter'[d] = counter[d] /\ ~Past(call'[c], d)
    BY <1>3, <1>5, <1>6, <1>7 DEF Walk, Edge, Past
  <2> QED  BY <1>0, <1>1, <1>2, <1>3, <1>4, <1>7, <2>1, ExactQuiet DEF Walk, Edge
<1>8. CASE d = call[c].day /\ counter[d] # None
  <2>1. counter'[d] = counter[d]  BY <1>5, <1>6, <1>8
  <2> QED  BY <1>0, <1>1, <1>2, <1>3, <1>4, <1>8, <2>1, ExactQuiet DEF Walk, Edge
<1>9. CASE d = call[c].day /\ counter[d] = None
  <2>1. counter'[d] = chain[d] /\ leaked[d] = 0
    BY <1>0, <1>2, <1>5, <1>6, <1>9 DEF ExactFor, At
  <2>2. chain[d] \in Nat /\ None \notin Nat  BY <1>0, BudgetConstants DEF TypeOK
  <2>3. /\ call \in [Call -> CallState] /\ call' \in [Call -> CallState] /\ day' = day
        /\ \A x \in Call \ {c} : call'[x] = call[x]
    BY <1>1 DEF Moved, TypeOK
  <2>4. HeldTotal(d) = 0
    <3>1. \A x \in Call : HeldOf(call[x], d) = 0
      BY <1>0, <1>9 DEF ExactFor, Past, HeldOf
    <3>2. PICK f : f = [x \in Call |-> HeldOf(call[x], d)]  OBVIOUS
    <3>3. f \in Amounts /\ \A x \in Call : f[x] = 0  BY <2>3, <3>1, <3>2, AmountsOf
    <3>4. Total(f) = 0  BY <3>3, TotalZero
    <3> QED  BY <3>2, <3>4 DEF HeldTotal
  <2>5. HeldTotal(d)' = HeldTotal(d) - HeldOf(call[c], d) + HeldOf(call'[c], d)
    BY <2>3, CallTotals
  <2>6. counter'[d] = chain'[d] + HeldTotal(d)' + leaked'[d] /\ counter'[d] # None
    BY <1>1, <1>4, <2>1, <2>2, <2>4, <2>5
  <2>7. \A x \in Call : call'[x].pc \notin {"new", "done"} => call'[x].day = day'
    BY <1>0, <1>2, <1>3, <2>3 DEF ExactFor, Walk, Edge
  <2> QED  BY <2>6, <2>7 DEF ExactFor
<1> QED  BY <1>7, <1>8, <1>9

\* A reservation is charged to the counter the call read.
LEMMA ExactReserve ==
    ASSUME NEW c \in Call, NEW d \in Days, Clean(d), ReserveTokens(c)
    PROVE  ExactFor(d)'
<1>0. TypeOK /\ TypeOK' /\ CallsInv /\ ExactFor(d)  BY DEF Clean
<1>1. Moved(c) /\ chain' = chain /\ leaked' = leaked
  BY <1>0, MovedBy DEF ReserveTokens, ghosts
<1>2. /\ call[c].pc = "reserve" /\ call[c].day = day /\ call[c].day \in Days
      /\ call[c].budgeted
  BY <1>0, CallFields DEF ReserveTokens, At, ExactFor, CallsInv
<1>3. Walk(c, "dispatch")  BY <1>0, GoWalks DEF ReserveTokens, Steps
<1>4. Reserve \in Nat  BY BudgetConstants
<1>5. ApplyDelta(call[c].day, Reserve)  BY DEF ReserveTokens
<1>6. CASE d # call[c].day
  <2>1. counter'[d] = counter[d]  BY <1>0, <1>2, <1>4, <1>5, <1>6, DeltaType
  <2>2. HeldOf(call[c], d) = 0 /\ HeldOf(call'[c], d) = 0 /\ ~Past(call'[c], d)
    BY <1>3, <1>6 DEF Walk, Edge, HeldOf, Past
  <2> QED  BY <1>0, <1>1, <1>2, <1>3, <2>1, <2>2, ExactQuiet DEF Walk, Edge
<1>7. CASE d = call[c].day
  <2>1. counter[d] # None  BY <1>0, <1>2, <1>7 DEF ExactFor, Past
  <2>2. counter[d] \in Nat  BY <1>0, <2>1 DEF TypeOK
  <2>3. counter'[d] = counter[d] + Reserve /\ counter'[d] # None
    BY <1>0, <1>2, <1>4, <1>5, <1>7, <2>1, <2>2, DeltaType
  <2>4. HeldOf(call[c], d) = 0 /\ HeldOf(call'[c], d) = Reserve
    BY <1>2, <1>3, <1>7 DEF Walk, Edge, HeldOf
  <2>5. chain[d] \in Nat /\ leaked[d] \in Nat  BY <1>0 DEF TypeOK
  <2>6. counter'[d] - chain'[d] - leaked'[d] - HeldOf(call'[c], d)
          = counter[d] - chain[d] - leaked[d] - HeldOf(call[c], d)
    BY <1>1, <1>4, <2>2, <2>3, <2>4, <2>5
  <2> QED  BY <1>0, <1>1, <1>2, <1>3, <2>1, <2>3, <2>6, ExactQuiet DEF Walk, Edge
<1> QED  BY <1>6, <1>7

\* Settling takes back a reservation the counter holds, so it is never clamped.
LEMMA ExactSettle ==
    ASSUME NEW c \in Call, NEW d \in Days, Clean(d), Settle(c)
    PROVE  ExactFor(d)'
<1>0. TypeOK /\ TypeOK' /\ CallsInv /\ ExactFor(d)  BY DEF Clean
<1>1. Moved(c) /\ chain' = chain /\ leaked' = leaked
  BY <1>0, MovedBy DEF Settle, ghosts
<1>2. /\ call[c].pc = "settle" /\ call[c].day = day /\ call[c].budgeted
      /\ day \in Days /\ call[c].weight \in Nat /\ Reserve \in Nat
  BY <1>0, CallFields, BudgetConstants DEF Settle, At, ExactFor, CallsInv
<1>3. Edge(c, "log", day, call[c].budgeted, call[c].seed, call[c].weight)
  BY <1>0, <1>2, DayEdge DEF Settle, Steps
<1>4. PICK k \in Int : k = call[c].weight - Reserve  BY <1>2
<1>5. ApplyDelta(day, k)  BY <1>4 DEF Settle
<1>6. CASE d # day
  <2>1. counter'[d] = counter[d]  BY <1>0, <1>2, <1>5, <1>6, DeltaType
  <2>2. HeldOf(call[c], d) = 0 /\ HeldOf(call'[c], d) = 0 /\ ~Past(call'[c], d)
    BY <1>2, <1>3, <1>6 DEF Edge, HeldOf, Past
  <2> QED  BY <1>0, <1>1, <1>2, <1>3, <2>1, <2>2, ExactQuiet DEF Edge
<1>7. CASE d = day
  <2>1. counter[d] # None  BY <1>0, <1>2, <1>7 DEF ExactFor, Past
  <2>2. /\ counter[d] \in Nat /\ chain[d] \in Nat /\ leaked[d] \in Nat
        /\ call \in [Call -> CallState]
    BY <1>0, <2>1 DEF TypeOK
  <2>3. HeldOf(call[c], d) = Reserve /\ HeldOf(call'[c], d) = call[c].weight
    BY <1>2, <1>3, <1>7 DEF Edge, HeldOf
  <2>4. Reserve <= HeldTotal(d) /\ HeldTotal(d) \in Nat
    <3>1. PICK f : f = [x \in Call |-> HeldOf(call[x], d)]  OBVIOUS
    <3>2. PICK g : g = [x \in Call |-> IF x = c THEN 0 ELSE HeldOf(call[x], d)]  OBVIOUS
    <3>3. f \in Amounts  BY <2>2, <3>1, AmountsOf
    <3>4. g \in Amounts /\ \A x \in Call \ {c} : f[x] = g[x]
      BY <3>1, <3>2, <3>3, ShareFacts DEF Amounts
    <3>5. Total(g) = Total(f) - f[c] + g[c]  BY <3>3, <3>4, TotalChange
    <3>6. f[c] = Reserve /\ g[c] = 0  BY <2>3, <3>1, <3>2
    <3>7. Total(f) \in Nat /\ Total(g) \in Nat  BY TokensFinite
    <3>8. HeldTotal(d) = Total(f)  BY <3>1 DEF HeldTotal
    <3> QED  BY <1>2, <3>5, <3>6, <3>7, <3>8
  <2>5. counter[d] = chain[d] + HeldTotal(d) + leaked[d]  BY <1>0, <2>1 DEF ExactFor
  <2>6. counter[d] + k >= 0  BY <1>2, <1>4, <2>2, <2>4, <2>5
  <2>7. counter'[d] = counter[d] + k /\ counter'[d] # None
    BY <1>0, <1>2, <1>5, <1>7, <2>1, <2>6, DeltaType
  <2>8. counter'[d] - chain'[d] - leaked'[d] - HeldOf(call'[c], d)
          = counter[d] - chain[d] - leaked[d] - HeldOf(call[c], d)
    BY <1>1, <1>2, <1>4, <2>2, <2>3, <2>7
  <2> QED  BY <1>0, <1>1, <1>2, <1>3, <2>1, <2>7, <2>8, ExactQuiet DEF Edge
<1> QED  BY <1>6, <1>7

\* Tokens go from what the call holds to the chain, when its row lands, or to
\* what is leaked, when the call dies.
LEMMA ExactEnds ==
    ASSUME NEW c \in Call, NEW d \in Days, Clean(d), RowLands(c) \/ CallLost(c)
    PROVE  ExactFor(d)'
<1>0. TypeOK /\ TypeOK' /\ CallsInv /\ ExactFor(d)  BY DEF Clean
<1>1. Moved(c) /\ counter' = counter
  BY <1>0, MovedBy DEF RowLands, CallLost
<1>2. HeldOf(call[c], d) \in Nat /\ chain[d] \in Nat /\ leaked[d] \in Nat
  BY <1>0, CallFields, HeldType, ShareFacts DEF TypeOK
<1>3. counter[d] = None => ~Past(call[c], d)  BY <1>0 DEF ExactFor
<1>4. counter[d] = None => HeldOf(call[c], d) = 0  BY <1>3 DEF HeldOf, Past
<1>5. counter[d] # None => counter[d] \in Nat  BY <1>0 DEF TypeOK
<1>6. CASE RowLands(c)
  <2>1. Walk(c, "done")  BY <1>0, <1>6, GoWalks DEF RowLands, Steps
  <2>2. call[c].pc = "row" /\ call[c].day = day /\ call[c].day \in Days /\ call[c].weight \in Nat
    BY <1>0, <1>6, CallFields, BudgetConstants DEF RowLands, At, ExactFor
  <2>3. HeldOf(call'[c], d) = 0 /\ ~Past(call'[c], d)  BY <2>1 DEF Walk, Edge, HeldOf, Past
  <2>4. CASE call[c].budgeted
    <3>1. leaked' = leaked /\ chain' = [chain EXCEPT ![call[c].day] = @ + call[c].weight]
      BY <1>6, <2>4 DEF RowLands, ghosts
    <3>2. chain'[d] = chain[d] + HeldOf(call[c], d)
      BY <1>0, <1>2, <2>2, <2>4, <3>1 DEF HeldOf, TypeOK
    <3>3. counter[d] # None =>
            counter'[d] - chain'[d] - leaked'[d] - HeldOf(call'[c], d)
              = counter[d] - chain[d] - leaked[d] - HeldOf(call[c], d)
      BY <1>1, <1>2, <1>5, <2>3, <3>1, <3>2
    <3>4. counter[d] = None => chain'[d] = chain[d]  BY <1>2, <1>4, <3>2
    <3> QED  BY <1>0, <1>1, <2>1, <2>3, <3>1, <3>3, <3>4, ExactQuiet DEF Walk, Edge
  <2>5. CASE ~call[c].budgeted
    <3>1. leaked' = leaked /\ chain' = [chain EXCEPT ![call[c].day] = @ + call[c].weight]
      BY <1>6, <2>5 DEF RowLands, Blurs
    <3>2. Blurs(call[c].day, call[c].weight)  BY <1>6, <2>5 DEF RowLands
    <3>3. ~clean'[call[c].day]  BY <1>0, <2>2, <3>2, BlursType, TypeParts
    <3>4. d # call[c].day  BY <3>3 DEF Clean
    <3>5. chain'[d] = chain[d]  BY <1>0, <2>2, <3>1, <3>4 DEF TypeOK
    <3>6. HeldOf(call[c], d) = 0  BY <3>4 DEF HeldOf
    <3> QED  BY <1>0, <1>1, <2>1, <2>3, <3>1, <3>5, <3>6, ExactQuiet DEF Walk, Edge
  <2> QED  BY <2>4, <2>5
<1>7. CASE CallLost(c)
  <2>1. Edge(c, "done", 0, FALSE, 0, 0)  BY <1>0, <1>7, LostEdge
  <2>2. HeldOf(call'[c], d) = 0 /\ ~Past(call'[c], d)  BY <2>1 DEF Edge, HeldOf, Past
  <2>3. chain' = chain /\ leaked'[d] = leaked[d] + HeldOf(call[c], d)
    BY <1>7, HeldIsHeldOf DEF CallLost
  <2>4. counter[d] # None =>
          counter'[d] - chain'[d] - leaked'[d] - HeldOf(call'[c], d)
            = counter[d] - chain[d] - leaked[d] - HeldOf(call[c], d)
    BY <1>1, <1>2, <1>5, <2>2, <2>3
  <2>5. counter[d] = None => leaked'[d] = leaked[d]  BY <1>2, <1>4, <2>3
  <2> QED  BY <1>0, <1>1, <2>1, <2>2, <2>3, <2>4, <2>5, ExactQuiet DEF Edge
<1> QED  BY <1>6, <1>7

\* A failed read or command blurs the counter of its own day; any other one is
\* left alone.
LEMMA ExactFaults ==
    ASSUME NEW c \in Call, NEW d \in Days, Clean(d),
           SeedFails(c) \/ GetFails(c) \/ DeltaSkipped(c)
    PROVE  ExactFor(d)'
<1>0. TypeOK /\ TypeOK' /\ CallsInv /\ ExactFor(d) /\ clean'[d]  BY DEF Clean
<1>1. Moved(c) /\ counter' = counter /\ chain' = chain /\ leaked' = leaked
  BY <1>0, MovedBy DEF SeedFails, GetFails, DeltaSkipped, Blurs
<1>2. call[c].day = day /\ call[c].day \in Days
  BY <1>0, CallFields DEF SeedFails, GetFails, DeltaSkipped, At, ExactFor
<1>3. call'[c].day = day
  <2>1. CASE SeedFails(c)  BY <1>0, <1>2, <2>1, SeedEdge DEF SeedFails, Edge
  <2>2. CASE GetFails(c)  BY <1>0, <1>2, <2>2, DecidedEdge DEF Ruled, Edge
  <2>3. CASE DeltaSkipped(c)  BY <1>0, <1>2, <2>3, SkippedEdge DEF Walk, Edge
  <2> QED  BY <2>1, <2>2, <2>3
<1>4. PICK n \in Nat : Blurs(day, n)
  <2>1. CASE SeedFails(c)
    <3>1. chain[day] \in Nat  BY <1>0, <1>2 DEF TypeOK
    <3> QED  BY <1>2, <2>1, <3>1 DEF SeedFails
  <2>2. CASE GetFails(c)  BY <1>2, <2>2, ShareFacts DEF GetFails
  <2>3. CASE DeltaSkipped(c)  BY <1>3, <2>3, ShareFacts DEF DeltaSkipped
  <2> QED  BY <2>1, <2>2, <2>3
<1>5. d # day  BY <1>0, <1>2, <1>4, BlursType, TypeParts
<1>6. HeldOf(call[c], d) = 0 /\ HeldOf(call'[c], d) = 0 /\ ~Past(call'[c], d)
  BY <1>2, <1>3, <1>5 DEF HeldOf, Past
<1> QED  BY <1>0, <1>1, <1>3, <1>5, <1>6, ExactIdle

\* Steps of the surroundings: the calls stay, and so does what each holds.
LEMMA ExactStill ==
    ASSUME NEW d \in Days, ExactFor(d), call' = call,
           counter'[d] = counter[d], chain'[d] = chain[d], leaked'[d] = leaked[d],
           \A c \in Call : call[c].pc \notin {"new", "done"} => call[c].day = day'
    PROVE  ExactFor(d)'
<1>1. HeldTotal(d)' = HeldTotal(d)  BY DEF HeldTotal, Total, HeldOf
<1> QED  BY <1>1 DEF ExactFor, At, Past

LEMMA ExactStep ==
    ASSUME TypeOK, TypeOK', CallsInv, ExactInv, Next
    PROVE  ExactInv'
<1>1. ASSUME NEW c \in Call, NEW d \in Days, redis', clean'[d],
             \/ Begin(c) \/ BeginMessages(c) \/ GetCounter(c) \/ Seed(c) \/ SeedFails(c) \/ SetSeed(c)
             \/ GetAgain(c) \/ SeedMemory(c) \/ GetFails(c) \/ ReserveTokens(c)
             \/ Settle(c) \/ DeltaSkipped(c) \/ LogAudit(c) \/ RowLands(c)
             \/ (\E w \in 0..MaxWeight : Dispatch(c, w)) \/ CallLost(c)
      PROVE  ExactFor(d)'
  <2>1. redis /\ ~SeedMemory(c)  BY <1>1, MovedBy DEF SeedMemory
  <2>2. clean'[d] => clean[d]
    <3>1. clean \in [Days -> BOOLEAN]  BY DEF TypeOK
    <3>2. \/ clean' = clean
          \/ \E e \in Days, n \in Nat : Blurs(e, n)
      <4>1. /\ call[c].day \in Days /\ call[c].weight \in Nat /\ Share \in Nat
            /\ chain[call[c].day] \in Nat /\ call'[c].day \in Days
        BY CallFields, ShareFacts, BudgetConstants DEF TypeOK, CallState
      <4>2. CASE SeedFails(c)  BY <4>1, <4>2 DEF SeedFails
      <4>3. CASE GetFails(c)  BY <4>1, <4>3 DEF GetFails
      <4>4. CASE DeltaSkipped(c)  BY <4>1, <4>4 DEF DeltaSkipped
      <4>5. CASE RowLands(c)  BY <4>1, <4>5 DEF RowLands, ghosts
      <4>6. CASE Seed(c)
        <5>1. PICK n \in Nat :
                \/ UNCHANGED ghosts
                \/ n < chain[call[c].day] /\ Blurs(call[c].day, chain[call[c].day] - n)
          BY <4>6, SeedReads
        <5>2. n < chain[call[c].day] => chain[call[c].day] - n \in Nat  BY <4>1
        <5> QED  BY <4>1, <5>1, <5>2 DEF ghosts
      <4>7. CASE ~(Seed(c) \/ SeedFails(c) \/ GetFails(c) \/ DeltaSkipped(c) \/ RowLands(c))
        BY <1>1, <4>7 DEF Begin, BeginMessages, GetCounter, SetSeed, GetAgain, SeedMemory,
          ReserveTokens, Settle, LogAudit, Dispatch, CallLost, ghosts
      <4> QED  BY <4>2, <4>3, <4>4, <4>5, <4>6, <4>7
    <3> QED  BY <3>1, <3>2 DEF Blurs
  <2>3. Clean(d)  BY <1>1, <2>1, <2>2 DEF Clean, ExactInv
  <2> QED
    BY <1>1, <2>1, <2>3, ExactReads, ExactSeed, ExactSetSeed, ExactReserve, ExactSettle,
       ExactEnds, ExactFaults
<1>2. ASSUME ProcessDies  PROVE ExactInv'
  BY <1>2 DEF ProcessDies, Fault, ExactInv
<1>3. ASSUME NEW e \in Days, KeyLost(e)  PROVE ExactInv'
  <2> SUFFICES ASSUME NEW d \in Days, redis', clean'[d] PROVE ExactFor(d)'
    BY DEF ExactInv
  <2>1. PICK n \in Nat : n = Share * Cardinality(Active) + Missed(e)
    BY MissedType, ActiveShares
  <2>2. Blurs(e, n)  BY <1>3, <2>1 DEF KeyLost
  <2>3. d # e /\ clean[d] /\ leaked' = leaked  BY <2>2, BlursType, TypeParts
  <2>4. redis /\ day' = day /\ call' = call /\ chain' = chain
    BY <1>3 DEF KeyLost, Fault
  <2>5. counter'[d] = counter[d]  BY <1>3, <2>3 DEF KeyLost, TypeOK
  <2>6. ExactFor(d)  BY <2>3, <2>4 DEF ExactInv
  <2> QED  BY <2>3, <2>4, <2>5, <2>6, ExactStill DEF ExactFor
<1>4. ASSUME NextDay  PROVE ExactInv'
  <2> SUFFICES ASSUME NEW d \in Days, redis', clean'[d] PROVE ExactFor(d)'
    BY DEF ExactInv
  <2>1. redis /\ call' = call /\ counter' = counter /\ chain' = chain /\ leaked' = leaked
    BY <1>4 DEF NextDay
  <2>2. clean[d] /\ Active = {}  BY <1>4 DEF NextDay
  <2>3. ExactFor(d)  BY <2>1, <2>2 DEF ExactInv
  <2> QED  BY <2>1, <2>2, <2>3, ExactStill DEF Active
<1>5. ASSUME SwitchPolicy  PROVE ExactInv'
  <2> SUFFICES ASSUME NEW d \in Days, redis', clean'[d] PROVE ExactFor(d)'
    BY DEF ExactInv
  <2>1. /\ redis /\ call' = call /\ counter' = counter /\ chain' = chain
        /\ leaked' = leaked /\ day' = day /\ clean[d]
    BY <1>5 DEF SwitchPolicy, ghosts
  <2>2. ExactFor(d)  BY <2>1 DEF ExactInv
  <2> QED  BY <2>1, <2>2, ExactStill DEF ExactFor
<1> QED  BY <1>1, <1>2, <1>3, <1>4, <1>5 DEF Next, ExactInv

-----------------------------------------------------------------------------
(* UnderCountBounded. *)

Bounded(d) == TypeOK /\ TypeOK' /\ CallsInv /\ UnderFor(d)

LEMMA UnderInit == Init => UnderInv
<1> SUFFICES ASSUME Init, NEW d \in Days PROVE UnderFor(d)  BY DEF UnderInv
<1>1. \A c \in Call : call[c].pc = "new" /\ ~call[c].budgeted  BY DEF Init, NoCall
<1>2. call \in [Call -> CallState]  BY TypeInit DEF TypeOK
<1>3. PICK f : f = [x \in Call |-> RiskOf(call[x], d, day)]  OBVIOUS
<1>4. f \in Amounts  BY <1>2, <1>3, AmountsOf
<1>5. \A x \in Call : f[x] = 0  BY <1>1, <1>3 DEF RiskOf, Moves, Past
<1>6. RiskTotal(d) = 0  BY <1>3, <1>4, <1>5, TotalZero DEF RiskTotal
<1> QED  BY <1>1, <1>6 DEF UnderFor, Init, At

\* The three amounts of a call before and after its step are numbers.
LEMMA StepAmounts ==
    ASSUME TypeOK, TypeOK', NEW c \in Call, NEW d
    PROVE  /\ OwedOf(call[c], d, day) \in 0..Share /\ OwedOf(call'[c], d, day) \in 0..Share
           /\ RiskOf(call[c], d, day) \in 0..Share /\ RiskOf(call'[c], d, day) \in 0..Share
<1>1. call[c] \in CallState /\ call'[c] \in CallState  BY DEF TypeOK
<1> QED  BY <1>1, OwedAndRisk

\* Steps that take nothing more than before from the counter of d.
LEMMA UnderIdle ==
    ASSUME NEW c \in Call, NEW d \in Days, Moved(c), UnderFor(d),
           counter'[d] = counter[d], chain'[d] = chain[d], slack'[d] = slack[d],
           OwedOf(call'[c], d, day) <= OwedOf(call[c], d, day),
           counter[d] = None =>
             /\ RiskOf(call'[c], d, day) <= RiskOf(call[c], d, day)
             /\ ~(call'[c].pc = "set" /\ call'[c].day = d)
    PROVE  UnderFor(d)'
<1>1. TypeOK /\ TypeOK'  BY DEF Moved
<1>2. chain[d] \in Nat /\ slack[d] \in Nat  BY <1>1 DEF TypeOK
<1>3. counter[d] # None => counter[d] \in Nat  BY <1>1 DEF TypeOK
<1>4. PICK h, k : h = OwedOf(call[c], d, day) /\ k = OwedOf(call'[c], d, day)  OBVIOUS
<1>5. PICK i, j : i = RiskOf(call[c], d, day) /\ j = RiskOf(call'[c], d, day)  OBVIOUS
<1>6. h \in Nat /\ k \in Nat /\ i \in Nat /\ j \in Nat
  BY <1>1, <1>4, <1>5, StepAmounts, ShareFacts
<1>7. counter[d] # None =>
        counter'[d] + slack'[d] - chain'[d] - k >= counter[d] + slack[d] - chain[d] - h
  BY <1>2, <1>3, <1>4, <1>6
<1>8. counter[d] = None => slack'[d] - chain'[d] - j >= slack[d] - chain[d] - i
  BY <1>2, <1>5, <1>6
<1> QED  BY <1>2, <1>4, <1>5, <1>7, <1>8, UnderQuiet

\* A step on d for which the slack of d grows by a share.
LEMMA UnderShare ==
    ASSUME NEW c \in Call, NEW d \in Days, Moved(c), UnderFor(d),
           counter'[d] = counter[d], chain'[d] = chain[d], slack'[d] = slack[d] + Share,
           ~(call'[c].pc = "set" /\ call'[c].day = d)
    PROVE  UnderFor(d)'
<1>1. TypeOK /\ TypeOK'  BY DEF Moved
<1>2. chain[d] \in Nat /\ slack[d] \in Nat /\ Share \in Nat  BY <1>1, ShareFacts DEF TypeOK
<1>3. counter[d] # None => counter[d] \in Nat  BY <1>1 DEF TypeOK
<1>4. PICK h, k : h = OwedOf(call[c], d, day) /\ k = OwedOf(call'[c], d, day)  OBVIOUS
<1>5. PICK i, j : i = RiskOf(call[c], d, day) /\ j = RiskOf(call'[c], d, day)  OBVIOUS
<1>6. h \in 0..Share /\ k \in 0..Share /\ i \in 0..Share /\ j \in 0..Share
  BY <1>1, <1>4, <1>5, StepAmounts
<1>7. counter[d] # None =>
        counter'[d] + slack'[d] - chain'[d] - k >= counter[d] + slack[d] - chain[d] - h
  BY <1>2, <1>3, <1>6
<1>8. slack'[d] - chain'[d] - j >= slack[d] - chain[d] - i
  BY <1>2, <1>6
<1> QED  BY <1>2, <1>4, <1>5, <1>7, <1>8, UnderQuiet

\* The reads, the steps of the call alone, and its death.
LEMMA UnderReads ==
    ASSUME NEW c \in Call, NEW d \in Days, Bounded(d),
           \/ Begin(c) \/ BeginMessages(c) \/ GetCounter(c) \/ GetAgain(c) \/ LogAudit(c)
           \/ (\E w \in 0..MaxWeight : Dispatch(c, w)) \/ CallLost(c)
    PROVE  UnderFor(d)'
<1>0. TypeOK /\ TypeOK' /\ CallsInv /\ UnderFor(d)  BY DEF Bounded
<1>1. Moved(c) /\ counter' = counter /\ chain' = chain /\ slack' = slack
  BY <1>0, MovedBy DEF Begin, BeginMessages, GetCounter, GetAgain, LogAudit, Dispatch, CallLost, ghosts
<1>2. /\ OwedOf(call[c], d, day) \in 0..Share /\ RiskOf(call[c], d, day) \in 0..Share
      /\ OwedOf(call'[c], d, day) \in 0..Share /\ RiskOf(call'[c], d, day) \in 0..Share
      /\ Share \in Nat
  BY <1>0, StepAmounts, ShareFacts
<1>3. CASE Begin(c) \/ BeginMessages(c)
  <2>1. PICK b \in BOOLEAN : Edge(c, IF b THEN "get" ELSE "dispatch", day, b,
                                 call[c].seed, call[c].weight)
    BY <1>0, <1>3, BeginEdge
  <2>3. OwedOf(call'[c], d, day) = 0 /\ RiskOf(call'[c], d, day) = 0
    BY <2>1 DEF Edge, OwedOf, RiskOf, Moves, Past, HeldOf
  <2>4. ~(call'[c].pc = "set")  BY <2>1 DEF Edge
  <2> QED  BY <1>0, <1>1, <1>2, <2>3, <2>4, UnderIdle
<1>4. CASE GetCounter(c)
  <2>1. \/ Walk(c, "seed")
        \/ counter[call[c].day] # None /\ Ruled(c)
    BY <1>0, <1>4, GetCounterEdge
  <2>2. call[c].pc = "get"  BY <1>4 DEF GetCounter, At
  <2>3. OwedOf(call'[c], d, day) <= OwedOf(call[c], d, day)
    BY <1>2, <2>1, <2>2 DEF Walk, Ruled, Edge, OwedOf, Moves, HeldOf
  <2>4. counter[d] = None => RiskOf(call'[c], d, day) <= RiskOf(call[c], d, day)
    BY <1>2, <2>1, <2>2 DEF Walk, Ruled, Edge, RiskOf, Moves, Past
  <2>5. ~(call'[c].pc = "set")  BY <2>1 DEF Walk, Ruled, Edge
  <2> QED  BY <1>0, <1>1, <2>3, <2>4, <2>5, UnderIdle
<1>5. CASE GetAgain(c)
  <2>1. Ruled(c)  BY <1>0, <1>5, DecidedEdge
  <2>2. call[c].pc = "again"  BY <1>5 DEF GetAgain, At
  <2>3. OwedOf(call'[c], d, day) <= OwedOf(call[c], d, day)
    BY <1>2, <2>1, <2>2 DEF Walk, Ruled, Edge, OwedOf, Moves, HeldOf
  <2>4. RiskOf(call'[c], d, day) <= RiskOf(call[c], d, day)
    BY <1>2, <2>1, <2>2 DEF Walk, Ruled, Edge, RiskOf, Moves, Past
  <2>5. ~(call'[c].pc = "set")  BY <2>1 DEF Walk, Ruled, Edge
  <2> QED  BY <1>0, <1>1, <2>3, <2>4, <2>5, UnderIdle
<1>6. CASE LogAudit(c)
  <2>1. Edge(c, "row", day, call[c].budgeted, call[c].seed, call[c].weight)
    BY <1>0, <1>6, DayEdge DEF LogAudit, Steps, TypeOK
  <2>2. call[c].pc = "log"  BY <1>6 DEF LogAudit, At
  <2>3. OwedOf(call'[c], d, day) <= OwedOf(call[c], d, day)
    BY <1>2, <2>1, <2>2 DEF Edge, OwedOf, Moves, HeldOf
  <2>4. RiskOf(call'[c], d, day) <= RiskOf(call[c], d, day)
    BY <1>2, <2>1, <2>2 DEF Edge, RiskOf, Moves, Past
  <2>5. ~(call'[c].pc = "set")  BY <2>1 DEF Edge
  <2> QED  BY <1>0, <1>1, <2>3, <2>4, <2>5, UnderIdle
<1>7. ASSUME NEW w \in 0..MaxWeight, Dispatch(c, w)  PROVE UnderFor(d)'
  <2>1. Edge(c, IF call[c].budgeted THEN "settle" ELSE "log", call[c].day,
             call[c].budgeted, call[c].seed, w)
    BY <1>0, <1>7, DispatchEdge
  <2>2. call[c].pc = "dispatch"  BY <1>7 DEF Dispatch, At
  <2>3. OwedOf(call'[c], d, day) <= OwedOf(call[c], d, day)
    BY <1>2, <2>1, <2>2 DEF Edge, OwedOf, Moves, HeldOf
  <2>4. RiskOf(call'[c], d, day) <= RiskOf(call[c], d, day)
    BY <1>2, <2>1, <2>2 DEF Edge, RiskOf, Moves, Past
  <2>5. ~(call'[c].pc = "set")  BY <2>1 DEF Edge
  <2> QED  BY <1>0, <1>1, <2>3, <2>4, <2>5, UnderIdle
<1>8. CASE CallLost(c)
  <2>1. Edge(c, "done", 0, FALSE, 0, 0)  BY <1>0, <1>8, LostEdge
  <2>2. OwedOf(call'[c], d, day) = 0 /\ RiskOf(call'[c], d, day) = 0
    BY <2>1 DEF Edge, OwedOf, RiskOf, Moves, Past, HeldOf
  <2>3. ~(call'[c].pc = "set")  BY <2>1 DEF Edge
  <2> QED  BY <1>0, <1>1, <1>2, <2>2, <2>3, UnderIdle
<1> QED  BY <1>3, <1>4, <1>5, <1>6, <1>7, <1>8

\* A failed command blurs its day by a share.
LEMMA UnderFaults ==
    ASSUME NEW c \in Call, NEW d \in Days, Bounded(d), GetFails(c) \/ DeltaSkipped(c)
    PROVE  UnderFor(d)'
<1>0. TypeOK /\ TypeOK' /\ CallsInv /\ UnderFor(d)  BY DEF Bounded
<1>1. Moved(c) /\ counter' = counter /\ chain' = chain
  BY <1>0, MovedBy DEF GetFails, DeltaSkipped
<1>2. /\ \/ Ruled(c) \/ Walk(c, "dispatch")
         \/ Edge(c, "log", day, call[c].budgeted, call[c].seed, call[c].weight)
      /\ call[c].pc \in {"get", "set", "again", "reserve", "settle"}
      /\ Walk(c, "dispatch") => call[c].pc = "reserve"
  BY <1>0, DecidedEdge, SkippedEdge DEF GetFails, DeltaSkipped, Walk, Ruled, Edge
<1>3. Blurs(call'[c].day, Share) /\ call'[c].day \in Days
  <2>1. CASE GetFails(c)
    BY <1>0, <2>1, CallFields, DecidedEdge DEF GetFails, Ruled, Edge
  <2>2. CASE DeltaSkipped(c)
    <3>1. call' \in [Call -> CallState]  BY <1>0 DEF TypeOK
    <3> QED  BY <2>2, <3>1 DEF DeltaSkipped, CallState
  <2> QED  BY <2>1, <2>2
<1>4. ~(call'[c].pc = "set")  BY <1>2 DEF Walk, Ruled, Edge
<1>5. CASE d = call'[c].day
  <2>1. slack'[d] = slack[d] + Share
    BY <1>0, <1>3, <1>5, ShareFacts, BlursType, TypeParts
  <2> QED  BY <1>0, <1>1, <1>4, <2>1, UnderShare
<1>6. CASE d # call'[c].day
  <2>1. slack'[d] = slack[d]
    BY <1>0, <1>3, <1>6, ShareFacts, BlursType, TypeParts
  <2>2. /\ OwedOf(call[c], d, day) \in 0..Share /\ RiskOf(call[c], d, day) \in 0..Share
        /\ OwedOf(call'[c], d, day) \in 0..Share /\ RiskOf(call'[c], d, day) \in 0..Share
        /\ Share \in Nat
    BY <1>0, StepAmounts, ShareFacts
  <2>3. OwedOf(call'[c], d, day) <= OwedOf(call[c], d, day)
    BY <1>2, <1>6, <2>2 DEF Walk, Ruled, Edge, OwedOf, Moves, HeldOf
  <2>4. RiskOf(call'[c], d, day) <= RiskOf(call[c], d, day)
    BY <1>2, <1>6, <2>2 DEF Walk, Ruled, Edge, RiskOf, Moves, Past
  <2> QED  BY <1>0, <1>1, <1>4, <2>1, <2>3, <2>4, UnderIdle
<1> QED  BY <1>5, <1>6

\* A reservation, and what settling leaves of it.
LEMMA UnderCharges ==
    ASSUME NEW c \in Call, NEW d \in Days, Bounded(d), ReserveTokens(c) \/ Settle(c)
    PROVE  UnderFor(d)'
<1>0. TypeOK /\ TypeOK' /\ CallsInv /\ UnderFor(d)  BY DEF Bounded
<1>1. Moved(c) /\ chain' = chain /\ slack' = slack
  BY <1>0, MovedBy DEF ReserveTokens, Settle, ghosts
<1>2. /\ OwedOf(call[c], d, day) \in 0..Share /\ RiskOf(call[c], d, day) \in 0..Share
      /\ OwedOf(call'[c], d, day) \in 0..Share /\ RiskOf(call'[c], d, day) \in 0..Share
      /\ Share \in Nat /\ Reserve \in Nat /\ MaxWeight \in Nat /\ Reserve <= Share
  BY <1>0, StepAmounts, ShareFacts, BudgetConstants
<1>3. /\ call[c].budgeted /\ call[c].day \in Days /\ day \in Days
      /\ call[c].weight \in Nat /\ chain[d] \in Nat /\ slack[d] \in Nat
  BY <1>0, <1>2, CallFields DEF ReserveTokens, Settle, At, CallsInv, TypeOK
<1>4. PICK e \in Days, k \in Int, p \in {"dispatch", "log"} :
        /\ ApplyDelta(e, k)
        /\ Edge(c, p, e, call[c].budgeted, call[c].seed, call[c].weight)
        /\ \/ /\ call[c].pc = "reserve" /\ p = "dispatch"
              /\ e = call[c].day /\ k = Reserve
           \/ /\ call[c].pc = "settle" /\ p = "log"
              /\ e = day /\ k = call[c].weight - Reserve
  <2>1. CASE ReserveTokens(c)
    <3>1. Walk(c, "dispatch")  BY <1>0, <2>1, GoWalks DEF ReserveTokens, Steps
    <3>2. PICK k \in Int : k = Reserve  BY <1>2
    <3>3. PICK e \in Days : e = call[c].day  BY <1>3
    <3>4. ApplyDelta(e, k) /\ call[c].pc = "reserve"
      BY <2>1, <3>2, <3>3 DEF ReserveTokens, At
    <3>5. Edge(c, "dispatch", e, call[c].budgeted, call[c].seed, call[c].weight)
      BY <3>1, <3>3 DEF Walk
    <3> QED  BY <3>2, <3>3, <3>4, <3>5
  <2>2. CASE Settle(c)
    <3>1. Edge(c, "log", day, call[c].budgeted, call[c].seed, call[c].weight)
      BY <1>0, <1>3, <2>2, DayEdge DEF Settle, Steps
    <3>2. PICK k \in Int : k = call[c].weight - Reserve  BY <1>2, <1>3
    <3>3. ApplyDelta(day, k) /\ call[c].pc = "settle"  BY <2>2, <3>2 DEF Settle, At
    <3> QED  BY <1>3, <3>1, <3>2, <3>3
  <2> QED  BY <2>1, <2>2
<1>5. ~(call'[c].pc = "set")  BY <1>4 DEF Edge
<1>6. CASE d # e
  <2>1. counter'[d] = counter[d]  BY <1>0, <1>4, <1>6, DeltaType
  <2>2. OwedOf(call'[c], d, day) <= OwedOf(call[c], d, day)
    BY <1>2, <1>3, <1>4, <1>6 DEF Edge, OwedOf, Moves, HeldOf
  <2>3. RiskOf(call'[c], d, day) <= RiskOf(call[c], d, day)
    BY <1>2, <1>3, <1>4, <1>6 DEF Edge, RiskOf, Moves, Past
  <2> QED  BY <1>0, <1>1, <1>5, <2>1, <2>2, <2>3, UnderIdle
<1>7. CASE d = e /\ counter[d] = None
  <2>1. counter'[d] = counter[d]  BY <1>0, <1>4, <1>7, DeltaType
  <2>2. RiskOf(call[c], d, day) = Share
    BY <1>3, <1>4, <1>7 DEF RiskOf, Moves, Past
  <2>3. slack'[d] - chain'[d] - RiskOf(call'[c], d, day)
          >= slack[d] - chain[d] - RiskOf(call[c], d, day)
    BY <1>1, <1>2, <1>3, <2>2
  <2>4. chain'[d] >= chain[d]  BY <1>1, <1>3
  <2> QED  BY <1>0, <1>1, <1>5, <1>7, <2>1, <2>3, <2>4, UnderQuiet
<1>8. CASE d = e /\ counter[d] # None
  <2>1. /\ counter[d] \in Nat /\ counter'[d] \in Nat /\ counter'[d] # None
        /\ counter'[d] >= counter[d] + k
    BY <1>0, <1>4, <1>8, DeltaType
  <2>2. OwedOf(call'[c], d, day) <= OwedOf(call[c], d, day) + k
    <3>1. CASE call[c].pc = "reserve"
      BY <1>2, <1>3, <1>4, <1>8, <3>1 DEF Edge, OwedOf, Moves, HeldOf
    <3>2. CASE call[c].pc = "settle" /\ call[c].day = d
      BY <1>2, <1>3, <1>4, <1>8, <3>2 DEF Edge, OwedOf, Moves, HeldOf
    <3>3. CASE call[c].pc = "settle" /\ call[c].day # d
      <4>1. OwedOf(call[c], d, day) = Share
        BY <1>3, <1>4, <1>8, <3>3 DEF OwedOf, Moves
      <4>2. OwedOf(call'[c], d, day) = call[c].weight
        BY <1>3, <1>4, <1>8, <3>3 DEF Edge, OwedOf, Moves, HeldOf
      <4> QED  BY <1>2, <1>3, <1>4, <3>3, <4>1, <4>2
    <3> QED  BY <1>4, <3>1, <3>2, <3>3
  <2>3. counter'[d] + slack'[d] - chain'[d] - OwedOf(call'[c], d, day)
          >= counter[d] + slack[d] - chain[d] - OwedOf(call[c], d, day)
    BY <1>1, <1>2, <1>3, <2>1, <2>2
  <2>4. chain'[d] >= chain[d]  BY <1>1, <1>3
  <2> QED  BY <1>0, <1>1, <1>8, <2>1, <2>3, <2>4, UnderQuiet
<1> QED  BY <1>6, <1>7, <1>8

\* A row takes its tokens from the call to the chain.
LEMMA UnderRow ==
    ASSUME NEW c \in Call, NEW d \in Days, Bounded(d), RowLands(c)
    PROVE  UnderFor(d)'
<1>0. TypeOK /\ TypeOK' /\ CallsInv /\ UnderFor(d)  BY DEF Bounded
<1>1. Moved(c) /\ counter' = counter  BY <1>0, MovedBy DEF RowLands
<1>2. Walk(c, "done")  BY <1>0, GoWalks DEF RowLands, Steps
<1>3. /\ OwedOf(call[c], d, day) \in 0..Share /\ RiskOf(call[c], d, day) \in 0..Share
      /\ Share \in Nat /\ MaxWeight \in Nat /\ MaxWeight <= Share
  BY <1>0, StepAmounts, ShareFacts, BudgetConstants
<1>4. /\ call[c].pc = "row" /\ call[c].day \in Days /\ call[c].weight \in 0..MaxWeight
      /\ chain[d] \in Nat /\ slack[d] \in Nat
  BY <1>0, CallFields DEF RowLands, At, TypeOK
<1>5. OwedOf(call'[c], d, day) = 0 /\ RiskOf(call'[c], d, day) = 0 /\ ~(call'[c].pc = "set")
  BY <1>2 DEF Walk, Edge, OwedOf, RiskOf, Moves, Past, HeldOf
<1>6. chain' = [chain EXCEPT ![call[c].day] = @ + call[c].weight]  BY DEF RowLands
<1>7. counter[d] # None => counter[d] \in Nat  BY <1>0 DEF TypeOK
<1>8. PICK w \in Nat, n \in Nat :
        /\ chain'[d] = chain[d] + w
        /\ slack'[d] = slack[d] + n
        /\ w <= OwedOf(call[c], d, day) + n
        /\ w <= RiskOf(call[c], d, day) + n
  <2>1. CASE call[c].budgeted
    <3>1. slack' = slack  BY <2>1 DEF RowLands, ghosts
    <3>2. CASE call[c].day = d
      <4>1. chain'[d] = chain[d] + call[c].weight  BY <1>0, <1>4, <1>6, <3>2 DEF TypeOK
      <4>2. OwedOf(call[c], d, day) = call[c].weight
        BY <1>4, <2>1, <3>2 DEF OwedOf, Moves, HeldOf
      <4>3. RiskOf(call[c], d, day) = Share
        BY <1>4, <2>1, <3>2 DEF RiskOf, Moves, Past
      <4> QED  BY <1>3, <1>4, <3>1, <4>1, <4>2, <4>3
    <3>3. CASE call[c].day # d
      <4>1. chain'[d] = chain[d] + 0  BY <1>0, <1>4, <1>6, <3>3 DEF TypeOK
      <4> QED  BY <1>3, <1>4, <3>1, <4>1
    <3> QED  BY <3>2, <3>3
  <2>2. CASE ~call[c].budgeted
    <3>1. call[c].weight \in Nat  BY <1>3, <1>4
    <3>2. Blurs(call[c].day, call[c].weight)  BY <2>2 DEF RowLands
    <3>3. CASE call[c].day = d
      <4>1. slack'[d] = slack[d] + call[c].weight
        BY <1>0, <1>4, <3>1, <3>2, <3>3, BlursType, TypeParts
      <4>2. chain'[d] = chain[d] + call[c].weight  BY <1>0, <1>4, <1>6, <3>3 DEF TypeOK
      <4> QED  BY <1>3, <3>1, <4>1, <4>2
    <3>4. CASE call[c].day # d
      <4>1. slack'[d] = slack[d]
        BY <1>0, <1>4, <3>1, <3>2, <3>4, BlursType, TypeParts
      <4>2. chain'[d] = chain[d]  BY <1>0, <1>4, <1>6, <3>4 DEF TypeOK
      <4>3. chain'[d] = chain[d] + 0 /\ slack'[d] = slack[d] + 0  BY <1>4, <4>1, <4>2
      <4> QED  BY <1>3, <4>3
    <3> QED  BY <3>3, <3>4
  <2> QED  BY <2>1, <2>2
<1>9. counter[d] # None =>
        counter'[d] + slack'[d] - chain'[d] - OwedOf(call'[c], d, day)
          >= counter[d] + slack[d] - chain[d] - OwedOf(call[c], d, day)
  BY <1>1, <1>3, <1>4, <1>5, <1>7, <1>8
<1>10. slack'[d] - chain'[d] - RiskOf(call'[c], d, day)
         >= slack[d] - chain[d] - RiskOf(call[c], d, day)
  BY <1>3, <1>4, <1>5, <1>8
<1>11. chain'[d] >= chain[d]  BY <1>4, <1>8
<1> QED  BY <1>0, <1>1, <1>5, <1>9, <1>10, <1>11, UnderQuiet

\* A seed is blurred by all it misses: nothing, or what the cap cut, or all.
LEMMA UnderSeed ==
    ASSUME NEW c \in Call, NEW d \in Days, Bounded(d), Seed(c) \/ SeedFails(c)
    PROVE  UnderFor(d)'
<1>0. TypeOK /\ TypeOK' /\ CallsInv /\ UnderFor(d)  BY DEF Bounded
<1>1. Moved(c) /\ counter' = counter /\ chain' = chain
  BY <1>0, MovedBy DEF Seed, SeedFails
<1>2. call[c].pc = "seed" /\ call[c].day \in Days /\ chain[call[c].day] \in Nat
  BY <1>0, CallFields DEF Seed, SeedFails, At, TypeOK
<1>3. PICK n \in Nat, m \in Nat :
        /\ Edge(c, "set", call[c].day, call[c].budgeted, n, call[c].weight)
        /\ slack'[call[c].day] = slack[call[c].day] + m
        /\ \A e \in Days \ {call[c].day} : slack'[e] = slack[e]
        /\ n + m >= chain[call[c].day]
  <2>1. CASE Seed(c)
    <3>1. PICK n \in Nat :
            /\ Edge(c, "set", call[c].day, call[c].budgeted, n, call[c].weight)
            /\ \/ n >= chain[call[c].day] /\ UNCHANGED ghosts
               \/ n < chain[call[c].day] /\ Blurs(call[c].day, chain[call[c].day] - n)
      BY <1>0, <2>1, SeedReads
    <3>2. CASE n >= chain[call[c].day] /\ UNCHANGED ghosts
      <4>1. slack' = slack /\ slack[call[c].day] \in Nat
        BY <1>0, <1>2, <3>2 DEF ghosts, TypeOK
      <4>2. slack'[call[c].day] = slack[call[c].day] + 0  BY <4>1
      <4>3. n + 0 >= chain[call[c].day]  BY <1>2, <3>2
      <4> QED  BY <3>1, <4>1, <4>2, <4>3
    <3>3. CASE n < chain[call[c].day] /\ Blurs(call[c].day, chain[call[c].day] - n)
      <4>1. PICK m \in Nat : m = chain[call[c].day] - n  BY <1>2, <3>3
      <4>2. Blurs(call[c].day, m)  BY <3>3, <4>1
      <4>3. /\ slack'[call[c].day] = slack[call[c].day] + m
            /\ \A e \in Days \ {call[c].day} : slack'[e] = slack[e]
        BY <1>0, <1>2, <4>2, BlursType, TypeParts
      <4>4. n + m >= chain[call[c].day]  BY <1>2, <4>1
      <4> QED  BY <3>1, <4>3, <4>4
    <3> QED  BY <3>1, <3>2, <3>3
  <2>2. CASE SeedFails(c)
    <3>1. Edge(c, "set", call[c].day, call[c].budgeted, 0, call[c].weight)
      BY <1>0, <2>2, SeedEdge DEF SeedFails
    <3>2. Blurs(call[c].day, chain[call[c].day])  BY <2>2 DEF SeedFails
    <3>3. /\ slack'[call[c].day] = slack[call[c].day] + chain[call[c].day]
          /\ \A e \in Days \ {call[c].day} : slack'[e] = slack[e]
      BY <1>0, <1>2, <3>2, BlursType, TypeParts
    <3>4. 0 + chain[call[c].day] >= chain[call[c].day]  BY <1>2
    <3> QED  BY <1>2, <3>1, <3>3, <3>4
  <2> QED  BY <2>1, <2>2
<1>4. /\ OwedOf(call[c], d, day) \in 0..Share /\ RiskOf(call[c], d, day) \in 0..Share
      /\ OwedOf(call'[c], d, day) = OwedOf(call[c], d, day)
      /\ RiskOf(call'[c], d, day) = RiskOf(call[c], d, day)
      /\ Share \in Nat
  BY <1>0, <1>2, <1>3, StepAmounts, ShareFacts DEF Edge, OwedOf, RiskOf, Moves, Past, HeldOf
<1>5. chain[d] \in Nat /\ slack[d] \in Nat /\ (counter[d] # None => counter[d] \in Nat)
  BY <1>0 DEF TypeOK
<1>6. CASE d # call[c].day
  <2>1. slack'[d] = slack[d]  BY <1>3, <1>6
  <2>2. ~(call'[c].day = d)  BY <1>3, <1>6 DEF Edge
  <2> QED  BY <1>0, <1>1, <1>4, <2>1, <2>2, UnderIdle
<1>7. CASE d = call[c].day /\ counter[d] # None
  <2>1. slack'[d] = slack[d] + m  BY <1>3, <1>7
  <2>2. counter'[d] + slack'[d] - chain'[d] - OwedOf(call'[c], d, day)
          >= counter[d] + slack[d] - chain[d] - OwedOf(call[c], d, day)
    BY <1>1, <1>3, <1>4, <1>5, <1>7, <2>1
  <2>3. chain'[d] >= chain[d]  BY <1>1, <1>5
  <2> QED  BY <1>0, <1>1, <1>7, <2>2, <2>3, UnderQuiet
<1>8. CASE d = call[c].day /\ counter[d] = None
  <2>1. /\ call \in [Call -> CallState] /\ call' \in [Call -> CallState] /\ day' = day
        /\ \A x \in Call \ {c} : call'[x] = call[x]
    BY <1>1 DEF Moved, TypeOK
  <2>2. RiskTotal(d)' = RiskTotal(d) - RiskOf(call[c], d, day) + RiskOf(call'[c], d, day)
    BY <2>1, CallTotals
  <2>3. RiskTotal(d) \in Nat  BY <2>1, TotalTypes
  <2>4. RiskTotal(d)' = RiskTotal(d)  BY <1>4, <2>2, <2>3
  <2>5. slack[d] >= RiskTotal(d)  BY <1>0, <1>8 DEF UnderFor
  <2>6. slack'[d] = slack[d] + m /\ n + m >= chain[d]  BY <1>3, <1>8
  <2>7. slack'[d] >= RiskTotal(d)'  BY <1>5, <2>3, <2>4, <2>5, <2>6
  <2>8. ASSUME NEW x \in Call, call'[x].pc = "set", call'[x].day = d
        PROVE  call'[x].seed + slack'[d] >= chain'[d] + RiskTotal(d)'
    <3>1. CASE x = c
      <4>1. call'[x].seed = n  BY <1>3, <3>1 DEF Edge
      <4> QED  BY <1>1, <1>3, <1>5, <2>3, <2>4, <2>5, <2>6, <4>1
    <3>2. CASE x # c
      <4>1. call'[x] = call[x] /\ call[x].seed \in Nat
        BY <1>0, <2>1, <3>2, CallFields
      <4>2. call[x].seed + slack[d] >= chain[d] + RiskTotal(d)
        BY <1>0, <1>8, <2>8, <4>1 DEF UnderFor, At
      <4> QED  BY <1>1, <1>3, <1>5, <2>3, <2>4, <2>6, <4>1, <4>2
    <3> QED  BY <3>1, <3>2
  <2> QED  BY <1>1, <1>8, <2>7, <2>8 DEF UnderFor, At
<1> QED  BY <1>6, <1>7, <1>8

\* The seed is written: to a counter that did not exist, or, without Redis, over
\* one that another seeder has created and calls have charged since.
LEMMA UnderSetSeed ==
    ASSUME NEW c \in Call, NEW d \in Days, Bounded(d), SetSeed(c) \/ SeedMemory(c)
    PROVE  UnderFor(d)'
<1>0. TypeOK /\ TypeOK' /\ CallsInv /\ UnderFor(d)  BY DEF Bounded
<1>1. Moved(c) /\ chain' = chain
  BY <1>0, MovedBy DEF SetSeed, SeedMemory
<1>2. /\ call[c].pc = "set" /\ call[c].day \in Days /\ call[c].seed \in Nat
      /\ call[c].budgeted
  BY <1>0, CallFields DEF SetSeed, SeedMemory, At, CallsInv
<1>3. PICK p \in {"again", "log", "reserve"} :
        /\ call'[c].pc = p
        /\ call'[c].day = call[c].day
        /\ call'[c].budgeted = call[c].budgeted
        /\ p = "log" => call'[c].weight = 0
  <2>1. CASE SetSeed(c)
    <3>1. Walk(c, "again")  BY <1>0, <2>1, GoWalks DEF SetSeed, Steps
    <3> QED  BY <3>1 DEF Walk, Edge
  <2>2. CASE SeedMemory(c)
    <3>1. Ruled(c)  BY <1>0, <2>2, DecidedEdge
    <3> QED  BY <3>1 DEF Ruled, Edge
  <2> QED  BY <2>1, <2>2
<1>4. /\ OwedOf(call[c], d, day) \in 0..Share /\ RiskOf(call[c], d, day) \in 0..Share
      /\ OwedOf(call'[c], d, day) <= OwedOf(call[c], d, day)
      /\ OwedOf(call'[c], d, day) \in 0..Share
      /\ call[c].day # d => RiskOf(call'[c], d, day) <= RiskOf(call[c], d, day)
      /\ Share \in Nat
  <2>1. /\ OwedOf(call[c], d, day) \in 0..Share /\ RiskOf(call[c], d, day) \in 0..Share
        /\ OwedOf(call'[c], d, day) \in 0..Share
        /\ Share \in Nat
    BY <1>0, StepAmounts, ShareFacts
  <2>2. OwedOf(call'[c], d, day) <= OwedOf(call[c], d, day)
    BY <1>2, <1>3, <2>1 DEF OwedOf, Moves, HeldOf
  <2>3. call[c].day # d => RiskOf(call'[c], d, day) <= RiskOf(call[c], d, day)
    BY <1>2, <1>3, <2>1 DEF RiskOf, Moves, Past
  <2> QED  BY <2>1, <2>2, <2>3
<1>5. ~(call'[c].pc = "set")  BY <1>3
<1>6. /\ chain[d] \in Nat /\ slack[d] \in Nat /\ None \notin Nat
      /\ counter[d] # None => counter[d] \in Nat
      /\ counter \in [Days -> Nat \cup {None}] /\ slack \in [Days -> Nat]
  BY <1>0, BudgetConstants DEF TypeOK
<1>7. PICK m \in Nat, v \in Nat :
        /\ counter' = [counter EXCEPT ![call[c].day] = v]
        /\ slack' = [slack EXCEPT ![call[c].day] = @ + m]
        /\ counter[call[c].day] = None => v = call[c].seed
        /\ counter[call[c].day] # None => v + m >= counter[call[c].day]
  <2>1. CASE SetSeed(c)
    <3>1. PICK v : v = IF counter[call[c].day] = None THEN call[c].seed
                       ELSE counter[call[c].day]
      OBVIOUS
    <3>2. v \in Nat  BY <1>2, <1>6, <3>1
    <3>3. counter' = [counter EXCEPT ![call[c].day] = v]  BY <2>1, <3>1 DEF SetSeed
    <3>4. slack' = [slack EXCEPT ![call[c].day] = @ + 0]
      BY <1>2, <1>6, <2>1 DEF SetSeed, ghosts
    <3>5. counter[call[c].day] # None => v + 0 >= counter[call[c].day]
      BY <1>2, <1>6, <3>1, <3>2
    <3> QED  BY <3>1, <3>2, <3>3, <3>4, <3>5
  <2>2. CASE SeedMemory(c)
    <3>1. PICK m : /\ m = IF counter[call[c].day] = None THEN 0
                          ELSE Max({0, counter[call[c].day] - call[c].seed})
                   /\ slack' = [slack EXCEPT ![call[c].day] = @ + m]
                   /\ counter' = [counter EXCEPT ![call[c].day] = call[c].seed]
      BY <2>2 DEF SeedMemory
    <3>2. CASE counter[call[c].day] = None  BY <1>2, <3>1, <3>2
    <3>3. CASE counter[call[c].day] # None
      <4>1. counter[call[c].day] \in Nat  BY <1>2, <1>6, <3>3
      <4>2. PICK k \in Int : k = counter[call[c].day] - call[c].seed
        BY <1>2, <4>1
      <4>3. m = Max({0, k})  BY <3>1, <3>3, <4>2
      <4>4. m \in {0, k} /\ m >= 0 /\ m >= k
        <5>1. /\ Max({0, k}) \in {0, k}
              /\ Max({0, k}) >= 0
              /\ Max({0, k}) >= k
          BY MaxOfTwo
        <5> QED  BY <4>3, <5>1
      <4>5. m \in Nat /\ call[c].seed + m >= counter[call[c].day]
        BY <1>2, <4>1, <4>2, <4>4
      <4> QED  BY <1>2, <3>1, <3>3, <4>5
    <3> QED  BY <3>2, <3>3
  <2> QED  BY <2>1, <2>2
<1>8. CASE d # call[c].day
  <2>1. counter'[d] = counter[d] /\ slack'[d] = slack[d]  BY <1>6, <1>7, <1>8
  <2>2. chain'[d] = chain[d]  BY <1>1
  <2> QED  BY <1>0, <1>1, <1>4, <1>5, <1>8, <2>1, <2>2, UnderIdle
<1>9. CASE d = call[c].day /\ counter[d] # None
  <2>1. counter'[d] = v /\ slack'[d] = slack[d] + m /\ v + m >= counter[d]
    BY <1>6, <1>7, <1>9
  <2>2. counter'[d] + slack'[d] - chain'[d] - OwedOf(call'[c], d, day)
          >= counter[d] + slack[d] - chain[d] - OwedOf(call[c], d, day)
    BY <1>1, <1>4, <1>6, <1>9, <2>1
  <2>3. chain'[d] >= chain[d] /\ counter'[d] # None  BY <1>1, <1>6, <2>1
  <2> QED  BY <1>0, <1>1, <1>9, <2>2, <2>3, UnderQuiet
<1>10. CASE d = call[c].day /\ counter[d] = None
  <2>1. counter'[d] = call[c].seed /\ slack'[d] = slack[d] + m
    BY <1>6, <1>7, <1>10
  <2>2. call[c].seed + slack[d] >= chain[d] + RiskTotal(d)
    BY <1>0, <1>2, <1>10 DEF UnderFor, At
  <2>3. /\ call \in [Call -> CallState] /\ call' \in [Call -> CallState] /\ day' = day
        /\ \A x \in Call \ {c} : call'[x] = call[x]
    BY <1>1 DEF Moved, TypeOK
  <2>4. OwedTotal(d)' = OwedTotal(d) - OwedOf(call[c], d, day) + OwedOf(call'[c], d, day)
    BY <2>3, CallTotals
  <2>5. OwedTotal(d) \in Nat /\ RiskTotal(d) \in Nat /\ OwedTotal(d) <= RiskTotal(d)
    BY <2>3, TotalTypes
  <2>6. OwedTotal(d)' <= RiskTotal(d) /\ OwedTotal(d)' \in Int  BY <1>4, <2>4, <2>5
  <2>7. counter'[d] + slack'[d] >= chain'[d] + OwedTotal(d)'
    BY <1>1, <1>2, <1>6, <1>7, <2>1, <2>2, <2>5, <2>6
  <2>8. counter'[d] # None  BY <1>2, <1>6, <2>1
  <2> QED  BY <2>7, <2>8 DEF UnderFor
<1> QED  BY <1>8, <1>9, <1>10

\* The calls and the totals of d stay.
LEMMA UnderStill ==
    ASSUME NEW d \in Days, UnderFor(d), call' = call, day' = day,
           counter'[d] = counter[d], chain'[d] = chain[d], slack'[d] = slack[d]
    PROVE  UnderFor(d)'
<1>1. OwedTotal(d)' = OwedTotal(d) /\ RiskTotal(d)' = RiskTotal(d)
  BY DEF OwedTotal, RiskTotal, Total, OwedOf, RiskOf, HeldOf, Moves, Past
<1> QED  BY <1>1 DEF UnderFor, At

\* Every active call may have lost a share, and every seed what it missed.
LEMMA UnderKeyLost ==
    ASSUME NEW d \in Days, TypeOK, TypeOK', KeyLost(d)
    PROVE  UnderFor(d)'
<1>1. PICK n \in Nat : n = Share * Cardinality(Active)  BY ActiveShares
<1>2. PICK m \in Nat : m = Missed(d)  BY MissedType
<1>3. PICK k \in Nat : k = n + m  OBVIOUS
<1>4. Blurs(d, k)  BY <1>1, <1>2, <1>3 DEF KeyLost
<1>5. slack'[d] = slack[d] + k /\ slack[d] \in Nat /\ chain[d] \in Nat
  BY <1>4, BlursType, TypeParts DEF TypeOK
<1>6. call' = call /\ chain' = chain /\ day' = day /\ counter'[d] = None
  BY DEF KeyLost, Fault, TypeOK
<1>7. PICK f : f = [x \in Call |-> RiskOf(call[x], d, day)]  OBVIOUS
<1>8. PICK g : g = [x \in Call |-> IF x \in Active THEN Share ELSE 0]  OBVIOUS
<1>9. f \in Amounts /\ g \in Amounts
  <2>1. f \in Amounts  BY <1>7, AmountsOf DEF TypeOK
  <2>2. g \in Amounts  BY <1>8, ShareFacts DEF Amounts
  <2> QED  BY <2>1, <2>2
<1>10. \A x \in Call : f[x] <= g[x]
  <2> TAKE x \in Call
  <2>1. x \notin Active => RiskOf(call[x], d, day) = 0
    BY DEF RiskOf, Moves, Past, Active
  <2>2. f[x] \in 0..Share /\ Share \in Nat  BY <1>9, ShareFacts DEF Amounts
  <2> QED  BY <1>7, <1>8, <2>1, <2>2
<1>11. Total(f) <= Total(g)  BY <1>9, <1>10, TotalMonotone
<1>12. RiskTotal(d)' = Total(f)
  BY <1>6, <1>7 DEF RiskTotal, Total, RiskOf, Moves, Past
<1>13. Total(g) = n /\ Total(f) \in Nat  BY <1>1, <1>8, ActiveShares, TokensFinite
<1>14. slack'[d] >= RiskTotal(d)'  BY <1>3, <1>5, <1>11, <1>12, <1>13
<1>15. ASSUME NEW x \in Call, call[x].pc = "set", call[x].day = d
       PROVE  call[x].seed + slack'[d] >= chain'[d] + RiskTotal(d)'
  <2>1. call[x].seed + m >= chain[d] /\ call[x].seed \in Nat
    BY <1>2, <1>15, MissedType, CallFields DEF At
  <2> QED  BY <1>3, <1>5, <1>6, <1>11, <1>12, <1>13, <2>1
<1> QED  BY <1>6, <1>14, <1>15 DEF UnderFor, At

\* At midnight every active call may yet charge the new counter.
LEMMA UnderNextDay ==
    ASSUME NEW d \in Days, TypeOK, TypeOK', CallsInv, UnderFor(d), NextDay
    PROVE  UnderFor(d)'
<1>1. PICK n \in Nat : n = Share * Cardinality(Active)  BY ActiveShares
<1>2. /\ day = 0 /\ day' = 1 /\ call' = call /\ chain' = chain /\ counter' = counter
      /\ slack' = [slack EXCEPT ![1] = @ + n]
  BY <1>1 DEF NextDay
<1>3. /\ slack \in [Days -> Nat] /\ chain[d] \in Nat /\ call \in [Call -> CallState]
      /\ counter[d] # None => counter[d] \in Nat
  BY DEF TypeOK
<1>4. \A x \in Call : call[x].day = 0  BY <1>2 DEF CallsInv
<1>5. PICK f : f = [x \in Call |-> RiskOf(call[x], d, 1)]  OBVIOUS
<1>6. PICK h : h = [x \in Call |-> OwedOf(call[x], d, 1)]  OBVIOUS
<1>7. f \in Amounts /\ h \in Amounts
  BY <1>3, <1>5, <1>6, OwedAndRisk DEF Amounts
<1>8. RiskTotal(d)' = Total(f) /\ OwedTotal(d)' = Total(h)
  BY <1>2, <1>5, <1>6 DEF RiskTotal, OwedTotal, Total, RiskOf, OwedOf, HeldOf, Moves, Past
<1>9. CASE d = 0
  <2>1. slack'[d] = slack[d]  BY <1>2, <1>3, <1>9
  <2>2. PICK i, j : /\ i = [x \in Call |-> RiskOf(call[x], d, day)]
                    /\ j = [x \in Call |-> OwedOf(call[x], d, day)]
    OBVIOUS
  <2>3. \A x \in Call : f[x] = i[x] /\ h[x] = j[x]
    BY <1>2, <1>4, <1>5, <1>6, <1>9, <2>2 DEF RiskOf, OwedOf, Moves
  <2>4. f = i /\ h = j  BY <1>5, <1>6, <2>2, <2>3
  <2>5. RiskTotal(d)' = RiskTotal(d) /\ OwedTotal(d)' = OwedTotal(d)
    BY <1>8, <2>2, <2>4 DEF RiskTotal, OwedTotal
  <2> QED  BY <1>2, <2>1, <2>5 DEF UnderFor, At
<1>10. CASE d = 1
  <2>1. slack'[d] = slack[d] + n /\ slack[d] \in Nat  BY <1>2, <1>3, <1>10
  <2>2. PICK g : g = [x \in Call |-> IF x \in Active THEN Share ELSE 0]  OBVIOUS
  <2>3. g \in Amounts  BY <2>2, ShareFacts DEF Amounts
  <2>4. \A x \in Call : f[x] <= g[x] /\ h[x] <= g[x]
    <3> TAKE x \in Call
    <3>1. ~(call[x].day = d)  BY <1>4, <1>10
    <3>2. x \notin Active => ~Moves(call[x], d, 1)  BY DEF Moves, Active
    <3>3. x \notin Active => RiskOf(call[x], d, 1) = 0 /\ OwedOf(call[x], d, 1) = 0
      BY <3>1, <3>2 DEF RiskOf, OwedOf, HeldOf, Past
    <3>4. f[x] \in 0..Share /\ h[x] \in 0..Share /\ Share \in Nat
      BY <1>7, ShareFacts DEF Amounts
    <3> QED  BY <1>5, <1>6, <2>2, <3>3, <3>4
  <2>5. Total(f) <= Total(g) /\ Total(h) <= Total(g)  BY <1>7, <2>3, <2>4, TotalMonotone
  <2>6. Total(g) = n /\ Total(f) \in Nat /\ Total(h) \in Nat
    BY <1>1, <2>2, ActiveShares, TokensFinite
  <2>7. counter[d] # None => counter[d] + slack[d] >= chain[d]
    <3>1. OwedTotal(d) \in Nat  BY <1>3, TotalTypes
    <3> QED  BY <1>3, <2>1, <3>1 DEF UnderFor
  <2>8. ~(\E x \in Call : call[x].day = d)  BY <1>4, <1>10
  <2>9. counter'[d] # None => counter'[d] + slack'[d] >= chain'[d] + OwedTotal(d)'
    BY <1>2, <1>3, <1>8, <2>1, <2>5, <2>6, <2>7
  <2>10. slack'[d] >= RiskTotal(d)'  BY <1>8, <2>1, <2>5, <2>6
  <2> QED  BY <1>2, <2>8, <2>9, <2>10 DEF UnderFor, At
<1> QED  BY <1>9, <1>10 DEF Days

LEMMA UnderProcessDies ==
    ASSUME NEW d \in Days, TypeOK, TypeOK', ProcessDies
    PROVE  UnderFor(d)'
<1>1. counter'[d] = None /\ slack' = slack /\ slack[d] \in Nat /\ day' = day
  BY DEF ProcessDies, Fault, ghosts, TypeOK
<1>2. Ended.pc = "done" /\ Ended.budgeted = FALSE  BY DEF Ended, NoCall
<1>3. \A x \in Call : call'[x].pc \in {"new", "done"}
  BY <1>2 DEF ProcessDies, Active
<1>4. PICK f : f = [x \in Call |-> RiskOf(call'[x], d, day)]  OBVIOUS
<1>5. \A x \in Call : f[x] = 0  BY <1>3, <1>4 DEF RiskOf, Moves, Past
<1>6. f \in Amounts  BY <1>4, <1>5, ShareFacts DEF Amounts
<1>7. Total(f) = 0  BY <1>5, <1>6, TotalZero
<1>8. RiskTotal(d)' = Total(f)
  BY <1>1, <1>4 DEF RiskTotal, Total, RiskOf, Moves, Past
<1> QED  BY <1>1, <1>3, <1>7, <1>8 DEF UnderFor, At

LEMMA UnderStep ==
    ASSUME TypeOK, TypeOK', CallsInv, UnderInv, Next
    PROVE  UnderInv'
<1> SUFFICES ASSUME NEW d \in Days PROVE UnderFor(d)'  BY DEF UnderInv
<1>0. UnderFor(d) /\ Bounded(d)  BY DEF UnderInv, Bounded
<1>1. ASSUME NEW c \in Call,
             \/ Begin(c) \/ BeginMessages(c) \/ GetCounter(c) \/ Seed(c) \/ SeedFails(c) \/ SetSeed(c)
             \/ GetAgain(c) \/ SeedMemory(c) \/ GetFails(c) \/ ReserveTokens(c)
             \/ Settle(c) \/ DeltaSkipped(c) \/ LogAudit(c) \/ RowLands(c)
             \/ (\E w \in 0..MaxWeight : Dispatch(c, w)) \/ CallLost(c)
      PROVE  UnderFor(d)'
  BY <1>0, <1>1, UnderReads, UnderFaults, UnderCharges, UnderRow, UnderSeed, UnderSetSeed
<1>2. ASSUME NEW e \in Days, KeyLost(e)  PROVE UnderFor(d)'
  <2>1. CASE d = e  BY <1>2, <2>1, UnderKeyLost
  <2>2. CASE d # e
    <3>1. /\ counter'[d] = counter[d] /\ slack'[d] = slack[d]
          /\ call' = call /\ chain' = chain /\ day' = day
      BY <1>2, <2>2 DEF KeyLost, Blurs, Fault, TypeOK
    <3> QED  BY <1>0, <3>1, UnderStill
  <2> QED  BY <2>1, <2>2
<1>3. ASSUME SwitchPolicy  PROVE UnderFor(d)'
  BY <1>0, <1>3, UnderStill DEF SwitchPolicy, ghosts
<1> QED
  BY <1>0, <1>1, <1>2, <1>3, UnderNextDay, UnderProcessDies DEF Next

-----------------------------------------------------------------------------
(* The theorems. *)

BudgetInv == TypeOK /\ CallsInv /\ ExactInv /\ UnderInv

LEMMA BudgetStutter ==
    ASSUME BudgetInv, UNCHANGED vars PROVE BudgetInv'
<1>1. TypeOK' /\ CallsInv'  BY DEF BudgetInv, TypeOK, CallsInv, vars, env, ghosts
<1>2. /\ call' = call /\ day' = day /\ counter' = counter /\ chain' = chain
      /\ slack' = slack /\ leaked' = leaked /\ redis' = redis /\ clean' = clean
  BY DEF vars, env, ghosts
<1>3. ExactInv'
  <2>1. ASSUME NEW d \in Days, redis', clean'[d]  PROVE ExactFor(d)'
    <3>1. ExactFor(d)  BY <1>2, <2>1 DEF BudgetInv, ExactInv
    <3> QED  BY <1>2, <3>1, ExactStill DEF ExactFor
  <2> QED  BY <2>1 DEF ExactInv
<1>4. UnderInv'
  <2>1. ASSUME NEW d \in Days  PROVE UnderFor(d)'
    BY <1>2, UnderStill DEF BudgetInv, UnderInv
  <2> QED  BY <2>1 DEF UnderInv
<1> QED  BY <1>1, <1>3, <1>4 DEF BudgetInv

LEMMA BudgetInvHolds == Spec => []BudgetInv
<1>1. Init => BudgetInv
  BY TypeInit, CallsInit, ExactInit, UnderInit DEF BudgetInv
<1>2. BudgetInv /\ [Next]_vars => BudgetInv'
  BY TypeStep, CallsStep, ExactStep, UnderStep, BudgetStutter DEF BudgetInv
<1> QED  BY <1>1, <1>2, PTL DEF Spec

\* With Redis and nothing disturbed (CounterExact names what disturbs, a row of
\* POST /v1/messages among it), the counter is the chain plus what calls under
\* way hold plus what calls that died had charged, for any number of concurrent
\* seeders and charges (_get's SET NX, _apply_delta; budget.py:141, 182).
THEOREM CounterStaysExact == Spec => []CounterExact
<1>1. BudgetInv => CounterExact
  BY HeldByIsTotal DEF BudgetInv, ExactInv, ExactFor, CounterExact
<1> QED  BY <1>1, BudgetInvHolds, PTL

\* The counter never runs further below the tokens spent than the causes that
\* UnderCountBounded names explain, whatever faults, midnights, uncharged calls,
\* capped seeds and seeders without Redis interleave.
THEOREM UnderCountStaysBounded == Spec => []UnderCountBounded
<1>1. ASSUME BudgetInv PROVE UnderCountBounded
  <2> SUFFICES ASSUME NEW d \in Days, counter[d] # None
               PROVE  counter[d] + slack[d] >= chain[d] + HeldBy(d)
    BY DEF UnderCountBounded
  <2>1. TypeOK /\ UnderFor(d)  BY <1>1 DEF BudgetInv, UnderInv
  <2>2. counter[d] \in Nat /\ slack[d] \in Nat /\ chain[d] \in Nat
    BY <2>1 DEF TypeOK
  <2>3. HeldTotal(d) \in Nat /\ OwedTotal(d) \in Nat /\ HeldTotal(d) <= OwedTotal(d)
    BY <2>1, TotalTypes DEF TypeOK
  <2>4. counter[d] + slack[d] >= chain[d] + OwedTotal(d)  BY <2>1 DEF UnderFor
  <2>5. HeldBy(d) = HeldTotal(d)  BY HeldByIsTotal
  <2> QED  BY <2>2, <2>3, <2>4, <2>5
<1> QED  BY <1>1, BudgetInvHolds, PTL

=============================================================================
