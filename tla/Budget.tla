------------------------------- MODULE Budget -------------------------------
(***************************************************************************)
(* The token budget of one agent (egress/budget.py) as chat_completions    *)
(* uses it (egress/llm_chat_router.py): a counter per period, seeded from  *)
(* the audit chain, charged with a reservation at admission, settled to    *)
(* the tokens used, before the audit row that carries them is written.     *)
(* POST /v1/messages (egress/anthropic_messages_router.py) writes the same *)
(* rows for the same agent, and neither reads nor charges the counter.     *)
(*                                                                         *)
(* One ceiling, say tokens_per_day: the counter of a period without a      *)
(* ceiling gets the same calls and is never compared with anything.        *)
(* The counter is a Redis key shared by the workers, or, without Redis, a  *)
(* dictionary in the only process.  Plain and streamed completions differ  *)
(* in how the tokens are found, not in what is charged and in which order. *)
(***************************************************************************)
EXTENDS Integers, FiniteSetsExt

CONSTANTS
    Call,         \* chat completions and messages of the agent
    Limit,        \* the ceiling
    Reserve,      \* _reservation_tokens
    MaxWeight,    \* bound: tokens one completion uses
    Prior,        \* bound: tokens in the chain when the period is first seen
    ScanCap,      \* _USAGE_SCAN_CAP
    MaxFaults,    \* bound: faults and switches of the policy
    None

ASSUME BudgetConstants ==
    /\ IsFiniteSet(Call)
    /\ {Limit, Reserve, MaxWeight, Prior, ScanCap, MaxFaults} \subseteq Nat
    /\ None \notin Nat

VARIABLES
    redis,      \* TRUE: the counter is in Redis
    enforced,   \* effective_budget is above 0
    day,        \* the current period
    counter,    \* for each period, the counter, or None
    chain,      \* for each period, the tokens in audit rows of the period
    rows,       \* for each period, the number of these rows
    call,       \* the calls
    faults,
    slack,      \* history: how far each counter may lie below its true value
    leaked,     \* history: charges of calls that died before their row
    clean       \* history: nothing has disturbed the counter of the period

env == <<redis, enforced, day, faults>>
ghosts == <<slack, leaked, clean>>
vars == <<env, counter, chain, rows, call, ghosts>>

Days == {0, 1}

\* What one call can take away from a counter it does not belong to.
Share == Max({Reserve, MaxWeight})

NoCall == [pc |-> "new", day |-> 0, budgeted |-> FALSE, seed |-> 0, weight |-> 0]

Active == {c \in Call : call[c].pc \notin {"new", "done"}}

Init ==
    /\ redis \in BOOLEAN
    /\ enforced \in BOOLEAN
    /\ day = 0
    /\ counter = [d \in Days |-> None]
    /\ chain \in {[d \in Days |-> IF d = 0 THEN n ELSE 0] : n \in {0, Prior}}
    /\ rows = [d \in Days |-> IF chain[d] = 0 THEN 0 ELSE 1]
    /\ call = [c \in Call |-> NoCall]
    /\ faults = 0
    /\ slack = [d \in Days |-> 0]
    /\ leaked = [d \in Days |-> 0]
    /\ clean = [d \in Days |-> TRUE]

At(c, pc) == call[c].pc = pc

Go(c, pc) == call' = [call EXCEPT ![c].pc = pc]

\* used >= budget is denied, with an audit row that has no tokens.
Decide(c, used) ==
    call' = [call EXCEPT ![c].pc = IF used >= Limit THEN "log" ELSE "reserve",
                         ![c].weight = 0]

Fault ==
    /\ faults < MaxFaults
    /\ faults' = faults + 1
    /\ UNCHANGED <<redis, enforced, day>>

\* A fault that lets the counter of d run up to n below its true value.
Blurs(d, n) ==
    /\ slack' = [slack EXCEPT ![d] = @ + n]
    /\ clean' = [clean EXCEPT ![d] = FALSE]
    /\ UNCHANGED leaked

-----------------------------------------------------------------------------
(* Admission. *)

\* effective_budget, and now is taken.
Begin(c) ==
    /\ At(c, "new")
    /\ call' = [call EXCEPT ![c].pc = IF enforced THEN "get" ELSE "dispatch",
                            ![c].budgeted = enforced, ![c].day = day]
    /\ UNCHANGED <<env, counter, chain, rows, ghosts>>

\* anthropic_messages: dispatched whatever the ceiling.
BeginMessages(c) ==
    /\ At(c, "new")
    /\ call' = [call EXCEPT ![c].pc = "dispatch", ![c].budgeted = FALSE, ![c].day = day]
    /\ UNCHANGED <<env, counter, chain, rows, ghosts>>

\* _get, first GET: a warm key is the answer, a cold one must be seeded.
GetCounter(c) ==
    /\ At(c, "get")
    /\ LET used == counter[call[c].day] IN
         IF used = None THEN Go(c, "seed") ELSE Decide(c, used)
    /\ UNCHANGED <<env, counter, chain, rows, ghosts>>

\* Of the rows with timestamp >= the start of d: the window has no upper end.
Since(f, d) == IF d = 0 THEN f[0] + f[1] ELSE f[1]

\* sum_principal_tokens_since: above the cap it sums the newest rows only, and
\* may miss any part of the rest.
Seed(c) ==
    /\ At(c, "seed")
    /\ LET d == call[c].day IN
         \E n \in 0..Since(chain, d) :
            /\ Since(rows, d) <= ScanCap => n = Since(chain, d)
            /\ call' = [call EXCEPT ![c].pc = "set", ![c].seed = n]
            /\ IF n < chain[d] THEN Blurs(d, chain[d] - n) ELSE UNCHANGED ghosts
    /\ UNCHANGED <<env, counter, chain, rows>>

\* _seed_from_chain: a failed read seeds 0.
SeedFails(c) ==
    /\ At(c, "seed")
    /\ Fault
    /\ call' = [call EXCEPT ![c].pc = "set", ![c].seed = 0]
    /\ Blurs(call[c].day, chain[call[c].day])
    /\ UNCHANGED <<counter, chain, rows>>

\* Variant: SET without NX.
SetSeed_Overwrites(c) ==
    /\ At(c, "set")
    /\ redis
    /\ counter' = [counter EXCEPT ![call[c].day] = call[c].seed]
    /\ Go(c, "again")
    /\ UNCHANGED <<env, chain, rows, ghosts>>

\* SET NX.
SetSeed(c) ==
    /\ At(c, "set")
    /\ redis
    /\ counter' = [counter EXCEPT ![call[c].day] = IF @ = None THEN call[c].seed ELSE @]
    /\ Go(c, "again")
    /\ UNCHANGED <<env, chain, rows, ghosts>>

\* The second GET.
GetAgain(c) ==
    /\ At(c, "again")
    /\ LET used == counter[call[c].day] IN
         Decide(c, IF used = None THEN call[c].seed ELSE used)
    /\ UNCHANGED <<env, counter, chain, rows, ghosts>>

\* Without Redis the seed is assigned after the await, whatever is there by now.
SeedMemory(c) ==
    /\ At(c, "set")
    /\ ~redis
    /\ LET d == call[c].day
           lost == IF counter[d] = None THEN 0 ELSE Max({0, counter[d] - call[c].seed})
       IN /\ counter' = [counter EXCEPT ![d] = call[c].seed]
          /\ slack' = [slack EXCEPT ![d] = @ + lost]
    /\ Decide(c, call[c].seed)
    /\ UNCHANGED <<env, chain, rows, leaked, clean>>

\* Redis fails during _get: nothing is used, the call is admitted.
GetFails(c) ==
    /\ call[c].pc \in {"get", "set", "again"}
    /\ redis
    /\ Fault
    /\ Decide(c, 0)
    /\ Blurs(call[c].day, Share)
    /\ UNCHANGED <<counter, chain, rows>>

-----------------------------------------------------------------------------
(* Charging. *)

\* Variant: INCRBY without EXISTS.
ApplyDelta_Creates(d, delta) ==
    counter' = [counter EXCEPT ![d] = Max({0, (IF @ = None THEN 0 ELSE @) + delta})]

\* Variant: no clamp at 0.
ApplyDelta_Unclamped(d, delta) ==
    counter' = [counter EXCEPT ![d] = IF @ = None THEN None ELSE @ + delta]

\* _apply_delta: never creates the counter, never takes it below 0.
ApplyDelta(d, delta) ==
    counter' = [counter EXCEPT ![d] = IF @ = None THEN None ELSE Max({0, @ + delta})]

\* add_delta(reserve_tokens, now), with the now of the admission.
ReserveTokens(c) ==
    /\ At(c, "reserve")
    /\ ApplyDelta(call[c].day, Reserve)
    /\ Go(c, "dispatch")
    /\ UNCHANGED <<env, chain, rows, ghosts>>

\* dispatch, or the stream, ends and has used w tokens; 0 is a gateway error.
Dispatch(c, w) ==
    /\ At(c, "dispatch")
    /\ call' = [call EXCEPT ![c].weight = w,
                            ![c].pc = IF call[c].budgeted THEN "settle" ELSE "log"]
    /\ UNCHANGED <<env, counter, chain, rows, ghosts>>

\* add_delta(weight - reserve_tokens, now), with a new now.
Settle(c) ==
    /\ At(c, "settle")
    /\ ApplyDelta(day, call[c].weight - Reserve)
    /\ call' = [call EXCEPT ![c].pc = "log", ![c].day = day]
    /\ UNCHANGED <<env, chain, rows, ghosts>>

\* Redis fails during _apply_delta: the delta is skipped.
DeltaSkipped(c) ==
    /\ call[c].pc \in {"reserve", "settle"}
    /\ redis
    /\ Fault
    /\ call' = [call EXCEPT ![c].pc = IF At(c, "settle") THEN "log" ELSE "dispatch",
                            ![c].day = IF At(c, "settle") THEN day ELSE @]
    /\ Blurs(call'[c].day, Share)
    /\ UNCHANGED <<counter, chain, rows>>

\* log_audit is called: the row gets its timestamp.
LogAudit(c) ==
    /\ At(c, "log")
    /\ call' = [call EXCEPT ![c].pc = "row", ![c].day = day]
    /\ UNCHANGED <<env, counter, chain, rows, ghosts>>

\* The row is in audit_log, at once or with the next batch.
RowLands(c) ==
    /\ At(c, "row")
    /\ chain' = [chain EXCEPT ![call[c].day] = @ + call[c].weight]
    /\ rows' = [rows EXCEPT ![call[c].day] = @ + 1]
    /\ Go(c, "done")
    /\ IF call[c].budgeted
       THEN UNCHANGED ghosts
       ELSE Blurs(call[c].day, call[c].weight)
    /\ UNCHANGED <<env, counter>>

-----------------------------------------------------------------------------
(* What the calls still have in the counter, and the environment. *)

\* What call c has in the counter of d that is not yet in the chain.
Held(c, d) ==
    IF call[c].day # d \/ ~call[c].budgeted THEN 0
    ELSE IF call[c].pc \in {"dispatch", "settle"} THEN Reserve
    ELSE IF call[c].pc \in {"log", "row"} THEN call[c].weight
    ELSE 0

\* The tokens the calls hold between them, as the set of each call's tokens.
HeldBy(d) == Cardinality({t \in Call \X (1..Share) : t[2] <= Held(t[1], d)})

Ended == [NoCall EXCEPT !.pc = "done"]

\* The handler is cancelled, fails with anything but a GatewayError, or its
\* worker dies: what the call has charged stays charged.
CallLost(c) ==
    /\ c \in Active
    /\ Fault
    /\ call' = [call EXCEPT ![c] = Ended]
    /\ leaked' = [d \in Days |-> leaked[d] + Held(c, d)]
    /\ UNCHANGED <<counter, chain, rows, slack, clean>>

\* Without Redis there is one process; its calls and its counters die together.
ProcessDies ==
    /\ ~redis
    /\ Fault
    /\ call' = [c \in Call |-> IF c \in Active THEN Ended ELSE call[c]]
    /\ counter' = [d \in Days |-> None]
    /\ UNCHANGED <<chain, rows, ghosts>>

\* What a SET NX under way for the counter of d would miss of the chain: its
\* seed was read when the counter did not exist yet, and may be older than rows
\* that have landed since.
Missed(d) ==
    chain[d] - Min({chain[d]} \cup
                   {call[c].seed : c \in {x \in Call : At(x, "set") /\ call[x].day = d}})

\* Redis restarts, or evicts the key.
KeyLost(d) ==
    /\ redis
    /\ counter[d] # None
    /\ Fault
    /\ counter' = [counter EXCEPT ![d] = None]
    /\ Blurs(d, Share * Cardinality(Active) + Missed(d))
    /\ UNCHANGED <<chain, rows, call>>

\* Midnight: the calls under way settle on the new key.
NextDay ==
    /\ day = 0
    /\ day' = 1
    /\ slack' = [slack EXCEPT ![1] = @ + Share * Cardinality(Active)]
    /\ clean' = [d \in Days |-> clean[d] /\ Active = {}]
    /\ UNCHANGED <<redis, enforced, faults, counter, chain, rows, call, leaked>>

\* An admin sets or clears the ceiling (upsert_agent_budget).
SwitchPolicy ==
    /\ faults < MaxFaults
    /\ faults' = faults + 1
    /\ enforced' = ~enforced
    /\ UNCHANGED <<redis, day, counter, chain, rows, call, ghosts>>

Next ==
    \/ \E c \in Call :
         \/ Begin(c) \/ BeginMessages(c) \/ GetCounter(c) \/ Seed(c) \/ SeedFails(c)
         \/ SetSeed(c) \/ GetAgain(c) \/ SeedMemory(c) \/ GetFails(c)
         \/ ReserveTokens(c) \/ Settle(c) \/ DeltaSkipped(c)
         \/ LogAudit(c) \/ RowLands(c)
         \/ \E w \in 0..MaxWeight : Dispatch(c, w)
    \/ \E c \in Call : CallLost(c)
    \/ ProcessDies
    \/ \E d \in Days : KeyLost(d)
    \/ NextDay
    \/ SwitchPolicy

Spec == Init /\ [][Next]_vars

-----------------------------------------------------------------------------
Steps == {"new", "get", "seed", "set", "again", "reserve", "dispatch", "settle",
          "log", "row", "done"}

CallState == [pc : Steps, day : Days, budgeted : BOOLEAN, seed : Nat, weight : 0..MaxWeight]

\* Shape of the state; no counter is ever negative, also when a refund meets a
\* counter that does not hold its reservation (_DELTA_LUA, budget.py:164).
TypeOK ==
    /\ {redis, enforced} \subseteq BOOLEAN
    /\ day \in Days
    /\ counter \in [Days -> Nat \cup {None}]
    /\ chain \in [Days -> Nat]
    /\ rows \in [Days -> Nat]
    /\ call \in [Call -> CallState]
    /\ faults \in 0..MaxFaults
    /\ slack \in [Days -> Nat]
    /\ leaked \in [Days -> Nat]
    /\ clean \in [Days -> BOOLEAN]

\* With Redis and nothing disturbed, the counter is at every step the tokens in
\* the chain, plus what the calls under way hold, plus what calls that died had
\* charged: concurrent seeders and charges lose nothing and count nothing twice
\* (_get and its SET NX, budget.py:142; add_delta at each end of a call).  What
\* disturbs a counter: a failed Redis command or chain read, a lost key, a seed
\* that the scan cap cut, a call under way at midnight, and a row with tokens
\* that never went through the counter, of a call made while no ceiling was set
\* or of any POST /v1/messages (anthropic_messages_router.py:391).
CounterExact ==
    \A d \in Days :
        redis /\ clean[d] /\ counter[d] # None
            => counter[d] = chain[d] + HeldBy(d) + leaked[d]

\* A counter never lies below the chain and the calls under way by more than
\* the known causes explain: one share for each call that was under way when the
\* key was lost or the day ended, or whose Redis command failed; the sum that a
\* failed seed, or one cut by the scan cap, did not see, and the rows that landed
\* after a seed was read, when the key is lost before its SET NX; the tokens of
\* calls made while no ceiling was set, and, with no fault at all, those of every
\* POST /v1/messages; and without Redis what a second seeder overwrote
\* (budget.py:141, 155, 182; db.py:1136; anthropic_messages_router.py:391).
UnderCountBounded ==
    \A d \in Days :
        counter[d] # None => counter[d] + slack[d] >= chain[d] + HeldBy(d)

=============================================================================
