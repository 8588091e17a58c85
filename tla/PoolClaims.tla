----------------------------- MODULE PoolClaims -----------------------------
(***************************************************************************)
(* Concurrency pools: the claim, renewal, expiry and release of pool slots *)
(* by the steps of runs, against the three tables concurrency_pools,       *)
(* concurrency_slots and pending_steps.                                    *)
(*                                                                         *)
(* Sources: rust/rivers-core/src/storage/surrealdb_backend/pools.rs,       *)
(* backend.rs and per_code_location.rs (the storage operations) and        *)
(* python/src/executor/dispatch/{pool_claim,step_lifecycle,failure}.rs     *)
(* (the step that claims, works, retries and releases).                    *)
(*                                                                         *)
(* Time.  Every lease comparison in the code is between two absolute       *)
(* timestamps, `lease_expires_at > $now`.  The model keeps differences: a  *)
(* row's ttl is lease_expires_at minus the current time, and an open claim *)
(* attempt's age is the current time minus the `now_ns` the attempt read   *)
(* when it began.  A row is live for that attempt iff ttl + age > 0.       *)
(*                                                                         *)
(* Transactions.  SurrealDB runs a claim's BEGIN..COMMIT on a snapshot and *)
(* aborts it when a record it writes was written by somebody else since.   *)
(* txn_begin takes the snapshot's decision; the flag stale stands for "a   *)
(* record of this transaction's write set has been written since".         *)
(***************************************************************************)
EXTENDS Integers, FiniteSets

CONSTANTS
    Steps,         \* step instances: one (run_id, step_key) each
    Runs,          \* run ids
    RunOf,         \* the run a step belongs to
    Pools,         \* pool keys of one code location
    AssetPools,    \* the implicit "__asset__:" pools among them
    MaxSlots,      \* largest number of slots a step asks of one pool
    Slots,         \* slots_needed, 0 for a pool the step does not claim
    Scope,         \* the AssetScope of each step
    Limits,        \* per pool, the limits `rivers pools set` gives it; negative = unlimited
    CancelRuns,    \* bound: runs somebody may ask to cancel
    Lease,         \* DEFAULT_LEASE_DURATION_SECS, in clock ticks
    MaxAge,        \* bound: ticks one claim attempt may take
    ClaimTimeout,  \* RIVERS_CLAIM_TIMEOUT, in ticks
    MaxRetries,    \* bound: contended attempts before the claim gives up
    MaxTries,      \* bound: times a step is run (retries and resumes together)
    TimelyRenewal  \* TRUE: a live holder renews before its lease runs out

PoolsOf(s) == {p \in Pools : Slots[s][p] > 0}

ASSUME ConstantsAssumption ==
    /\ IsFiniteSet(Steps)
    /\ RunOf \in [Steps -> Runs]
    /\ AssetPools \subseteq Pools
    /\ MaxSlots \in Nat
    /\ Slots \in [Steps -> [Pools -> 0 .. MaxSlots]]
    /\ \A s \in Steps : PoolsOf(s) # {}
    /\ \A s \in Steps : /\ Scope[s].exclusive \in BOOLEAN
                        /\ Scope[s].whole \in BOOLEAN
    /\ Limits \in [Pools -> SUBSET Int]
    /\ CancelRuns \subseteq Runs
    /\ Lease \in Nat /\ MaxAge \in Nat /\ ClaimTimeout \in Nat
    /\ MaxRetries \in Nat /\ MaxTries \in Nat
    /\ TimelyRenewal \in BOOLEAN
    /\ TimelyRenewal => MaxAge < Lease

VARIABLES
    limit,       \* concurrency_pools.slot_limit
    configured,  \* pools that have a concurrency_pools row
    row,         \* rows of concurrency_slots, one per (step, pool)
    ttl,         \* lease_expires_at of a row, relative to the current time
    pending,     \* steps with a pending_steps row
    cancelled,   \* runs whose cancellation flag is set
    pc,          \* where each step's lifecycle stands
    tries,       \* times each step has been run again
    left,        \* time left to the deadline of a claim in progress
    retries,     \* its contended attempts so far
    age,         \* time since the attempt under way read its now_ns
    todo,        \* pools the attempt has still to pre-check
    limited,     \* limited_pools: pools the attempt will claim
    blocked,     \* pools found blocking
    admit,       \* steps whose open transaction's IF was true
    stale        \* steps whose open transaction has lost a write-write race

db      == <<limit, configured, row, ttl, pending, cancelled>>
budget  == <<left, retries>>
attempt == <<age, todo, limited, blocked, admit, stale>>
vars    == <<limit, configured, row, ttl, pending, cancelled, pc, tries,
             left, retries, age, todo, limited, blocked, admit, stale>>

PCs == {"idle", "check", "commit", "polled", "wait", "claimed", "work",
        "releasing", "yielding", "backoff", "crashed", "over"}

\* The PoolGuard exists and its renewal task runs.
Holding(s) == pc[s] \in {"claimed", "work"}

LimitMaps == {f \in [Pools -> UNION {Limits[p] : p \in Pools}] :
                \A p \in Pools : f[p] \in Limits[p]}

TypeOK ==
    /\ limit \in LimitMaps
    /\ configured \in SUBSET Pools
    /\ row \in SUBSET (Steps \X Pools)
    /\ ttl \in [Steps -> [Pools -> -MaxAge .. Lease]]
    /\ pending \in SUBSET Steps
    /\ cancelled \in SUBSET Runs
    /\ pc \in [Steps -> PCs]
    /\ tries \in [Steps -> 0 .. MaxTries]
    /\ left \in [Steps -> 0 .. ClaimTimeout]
    /\ retries \in [Steps -> 0 .. MaxRetries]
    /\ age \in [Steps -> 0 .. MaxAge]
    /\ todo \in [Steps -> SUBSET Pools]
    /\ limited \in [Steps -> SUBSET Pools]
    /\ blocked \in [Steps -> SUBSET Pools]
    /\ admit \in SUBSET Steps
    /\ stale \in SUBSET Steps

-----------------------------------------------------------------------------
(* The admission rule, shared by the pre-check and the claim transaction.  *)

\* lease_expires_at > $now, for an observer that read its $now `a` ticks ago.
\* Here and below, a definition X_Y just before X is X with a plausible bug,
\* used only to show that the properties notice it.
Live_Unexpiring(t, p, a) == <<t, p>> \in row
Live(t, p, a) == <<t, p>> \in row /\ ttl[t][p] + a > 0

\* The slots the steps of T take from p, as a set of (step, unit) pairs:
\* its cardinality is math::sum(slots_consumed).
Units(T, p) == {u \in T \X (1 .. MaxSlots) : u[2] <= Slots[u[1]][p]}

OthersLive(s, p, a) == {t \in Steps \ {s} : Live(t, p, a)}

\* query_pool_usage with claiming_step = s, and $used_i of the transaction
query_pool_usage(s, p, a) == Cardinality(Units(OthersLive(s, p, a), p))

\* asset_conflict_predicate between two steps' scopes
asset_conflict_MineOnly(s, t) ==
    /\ Scope[s].exclusive
    /\ \/ Scope[s].whole
       \/ Scope[t].whole
       \/ Scope[s].parts \cap Scope[t].parts # {}
asset_conflict(s, t) ==
    /\ Scope[s].exclusive \/ Scope[t].exclusive
    /\ \/ Scope[s].whole
       \/ Scope[t].whole
       \/ Scope[s].parts \cap Scope[t].parts # {}

\* A pool that blocks the claim of s at a reading of age a
PoolBlocks(s, p, a) ==
    IF p \in AssetPools
    THEN \E t \in OthersLive(s, p, a) : asset_conflict(s, t)
    ELSE query_pool_usage(s, p, a) + Slots[s][p] > limit[p]

\* Asset pools are never dropped as unlimited.
IsLimited(p) == p \in AssetPools \/ limit[p] >= 0

\* Records the claim transaction of s writes besides its own slot rows: the
\* claim_version bump of every pool it claims.
claim_version_bumps_Unfenced(s) == {}
claim_version_bumps(s) == limited[s]

\* Open transactions that lose their write-write race when the pool rows in
\* P and the slot rows in R are written.
Overtaken(P, R) ==
    {t \in Steps :
        /\ pc[t] = "commit"
        /\ \/ claim_version_bumps(t) \cap P # {}
           \/ \E p \in limited[t] : <<t, p>> \in R}

-----------------------------------------------------------------------------
(* claim_concurrency_slots and the polling loop around it.                 *)

\* A fresh attempt reads its now_ns and has the pools P to check.
Attempt(s, P) ==
    /\ age' = [age EXCEPT ![s] = 0]
    /\ todo' = [todo EXCEPT ![s] = P]
    /\ limited' = [limited EXCEPT ![s] = {}]
    /\ blocked' = [blocked EXCEPT ![s] = {}]
    /\ admit' = admit \ {s}
    /\ stale' = stale \ {s}

Budget(s, timeLeft, contended) ==
    /\ left' = [left EXCEPT ![s] = timeLeft]
    /\ retries' = [retries EXCEPT ![s] = contended]

\* DELETE FROM pending_steps of one step
unpend_Skipped(s) == pending
unpend(s) == pending \ {s}

Goto(s, label) == pc' = [pc EXCEPT ![s] = label]

\* The claim is over, one way or the other: its locals are gone.
End(s, label) == Goto(s, label) /\ Attempt(s, {}) /\ Budget(s, 0, 0)

\* PoolGuard::acquire: claim_async_poll sets its deadline and makes the
\* first attempt.
acquire(s) ==
    /\ pc[s] = "idle"
    /\ Goto(s, "check")
    /\ Attempt(s, PoolsOf(s)) /\ Budget(s, ClaimTimeout, 0)
    /\ UNCHANGED <<db, tries>>

\* One pool of the pre-check, a read of its own.  A missing pool row is an
\* error that fails the step; an unlimited pool is left out of the claim.
precheck(s, p) ==
    /\ pc[s] = "check" /\ p \in todo[s]
    /\ \/ p \notin configured /\ End(s, "over")
       \/ /\ p \in configured
          /\ todo' = [todo EXCEPT ![s] = @ \ {p}]
          /\ limited' = IF IsLimited(p)
                         THEN [limited EXCEPT ![s] = @ \cup {p}] ELSE limited
          /\ blocked' = IF IsLimited(p) /\ PoolBlocks(s, p, age[s])
                         THEN [blocked EXCEPT ![s] = @ \cup {p}] ELSE blocked
          /\ UNCHANGED <<pc, age, admit, stale, budget>>
    /\ UNCHANGED <<db, tries>>

Checked(s) == pc[s] = "check" /\ todo[s] = {}

\* Every pool turned out unlimited: Claimed, with nothing written.
claim_unlimited(s) ==
    /\ Checked(s) /\ limited[s] = {}
    /\ End(s, "claimed")
    /\ UNCHANGED <<db, tries>>

\* Blocked: the pending_steps row is written and the poll loop looks at its
\* deadline.  A wait on asset pools alone starts the deadline afresh.
claim_pending(s) ==
    LET onlyAssetPools == blocked[s] \subseteq AssetPools
        timeLeft == IF onlyAssetPools THEN ClaimTimeout ELSE left[s]
    IN
    /\ Checked(s) /\ blocked[s] # {}
    /\ pending' = pending \cup {s}
    /\ \/ ~ onlyAssetPools /\ timeLeft = 0 /\ End(s, "over")
       \/ /\ onlyAssetPools \/ timeLeft > 0
          /\ Goto(s, "polled")
          /\ Attempt(s, {}) /\ Budget(s, timeLeft, 0)
    /\ UNCHANGED <<limit, configured, row, ttl, cancelled, tries>>

\* The poll loop's cancellation probe: ClaimCancelled ends the step.
poll_cancelled(s) ==
    /\ pc[s] = "polled"
    /\ \/ RunOf[s] \in cancelled /\ End(s, "over")
       \/ RunOf[s] \notin cancelled /\ Goto(s, "wait") /\ UNCHANGED <<attempt, budget>>
    /\ UNCHANGED <<db, tries>>

\* The sleep is over: claim_concurrency_slots is called again.
poll(s) ==
    /\ pc[s] = "wait"
    /\ Goto(s, "check")
    /\ Attempt(s, PoolsOf(s)) /\ UNCHANGED budget
    /\ UNCHANGED <<db, tries>>

\* BEGIN TRANSACTION: the IF of build_claim_transaction, on the snapshot.
txn_begin(s) ==
    /\ Checked(s) /\ limited[s] # {} /\ blocked[s] = {}
    /\ Goto(s, "commit")
    /\ admit' = IF \A p \in limited[s] : ~ PoolBlocks(s, p, age[s])
                THEN admit \cup {s} ELSE admit
    /\ UNCHANGED <<db, tries, age, todo, limited, blocked, stale, budget>>

\* COMMIT TRANSACTION of an admitted claim: bump claim_version, write the
\* slot rows with the lease counted from the attempt's now, and delete the
\* pending row.
txn_commit(s) ==
    LET mine == {s} \X limited[s] IN
    /\ pc[s] = "commit" /\ s \in admit /\ s \notin stale
    /\ row' = row \cup mine
    /\ ttl' = [ttl EXCEPT ![s] = [p \in Pools |->
                 IF p \in limited[s] THEN Lease - age[s] ELSE ttl[s][p]]]
    /\ stale' = (stale \cup Overtaken(claim_version_bumps(s), mine)) \ {s}
    /\ age' = [age EXCEPT ![s] = 0]
    /\ limited' = [limited EXCEPT ![s] = {}]
    /\ admit' = admit \ {s}
    /\ Budget(s, 0, 0)
    /\ pending' = unpend(s)
    /\ Goto(s, "claimed")
    /\ UNCHANGED <<todo, blocked, limit, configured, cancelled, tries>>

txn_contended_OffByOne(s) ==
    /\ pc[s] = "commit" /\ (s \notin admit \/ s \in stale)
    /\ \/ /\ retries[s] <= MaxRetries
          /\ Goto(s, "check")
          /\ Attempt(s, PoolsOf(s)) /\ Budget(s, left[s], retries[s] + 1)
       \/ End(s, "over")
    /\ UNCHANGED <<db, tries>>

\* A lost write-write race, or PoolContended (the IF was false): with_retry_if
\* starts the attempt over, or is out of time and the step fails.
txn_contended(s) ==
    /\ pc[s] = "commit" /\ (s \notin admit \/ s \in stale)
    /\ \/ /\ retries[s] < MaxRetries
          /\ Goto(s, "check")
          /\ Attempt(s, PoolsOf(s)) /\ Budget(s, left[s], retries[s] + 1)
       \/ End(s, "over")
    /\ UNCHANGED <<db, tries>>

-----------------------------------------------------------------------------
(* The step's lifecycle around the claim.                                  *)

\* The cancellation probe before every attempt: a cancelled run starts no
\* more work and gives its slots back.
start_attempt(s) ==
    /\ pc[s] = "claimed"
    /\ Goto(s, IF RunOf[s] \in cancelled THEN "releasing" ELSE "work")
    /\ UNCHANGED <<db, tries, attempt, budget>>

\* The step succeeded, or failed for good: process_outcome, then release.
work_done(s) ==
    /\ pc[s] = "work"
    /\ Goto(s, "releasing")
    /\ UNCHANGED <<db, tries, attempt, budget>>

\* admit_retry: with no delay the claim is kept; a backoff gives it back.
work_retry(s) ==
    /\ pc[s] = "work" /\ tries[s] < MaxTries
    /\ tries' = [tries EXCEPT ![s] = @ + 1]
    /\ Goto(s, "claimed") \/ Goto(s, "yielding")
    /\ UNCHANGED <<db, attempt, budget>>

\* PoolGuard::release, at the end or before a backoff.  An error of the
\* delete is only logged: the rows may stay until their lease runs out.
release(s) ==
    /\ pc[s] \in {"releasing", "yielding"}
    /\ \/ /\ row' = row \ ({s} \X Pools)
          /\ ttl' = [ttl EXCEPT ![s] = [p \in Pools |-> 0]]
          /\ pending' = unpend(s)
       \/ UNCHANGED <<row, ttl, pending>>
    /\ Goto(s, IF pc[s] = "releasing" THEN "over" ELSE "backoff")
    /\ UNCHANGED <<limit, configured, cancelled, tries, attempt, budget>>

\* backoff_sleep_cancellable: the last slice of the sleep is not probed.
backoff_done(s) ==
    /\ pc[s] = "backoff"
    /\ \/ Goto(s, "idle")
       \/ RunOf[s] \in cancelled /\ Goto(s, "over")
    /\ UNCHANGED <<db, tries, attempt, budget>>

\* spawn_lease_renewal: renew_slot_lease writes every row of the step,
\* whatever the state of its lease.  With no row left the task ends.
renew_slot_lease(s) ==
    /\ Holding(s)
    /\ \E p \in Pools : <<s, p>> \in row
    /\ ttl' = [ttl EXCEPT ![s] = [p \in Pools |->
                 IF <<s, p>> \in row THEN Lease ELSE ttl[s][p]]]
    /\ UNCHANGED <<limit, configured, row, pending, cancelled, pc, tries, attempt, budget>>

\* The process or pod dies: no release, and no more renewals.
crash(s) ==
    /\ pc[s] \notin {"idle", "crashed", "over"}
    /\ End(s, "crashed")
    /\ UNCHANGED <<db, tries>>

\* The step is run again under its run and step key, or given up.
resume(s) ==
    /\ pc[s] = "crashed"
    /\ \/ /\ tries[s] < MaxTries
          /\ tries' = [tries EXCEPT ![s] = @ + 1]
          /\ Goto(s, "idle")
       \/ Goto(s, "over") /\ UNCHANGED tries
    /\ UNCHANGED <<db, attempt, budget>>

-----------------------------------------------------------------------------
(* Everybody else.                                                         *)

\* End of execute_plan: the run-level sweep of leaked slots.  It belongs to
\* the process that ran the whole plan, never to a step pod.
StepsOf(r) == {s \in Steps : RunOf[s] = r}
RunFinished_AnyStep(r) == \E s \in StepsOf(r) : pc[s] = "over"
RunFinished(r) == \A s \in StepsOf(r) : pc[s] = "over"

free_concurrency_slots_for_run(r) ==
    LET mine == StepsOf(r) IN
    /\ RunFinished(r)
    /\ row' = row \ (mine \X Pools)
    /\ ttl' = [s \in Steps |-> IF s \in mine THEN [p \in Pools |-> 0] ELSE ttl[s]]
    /\ pending' = pending \ mine
    /\ UNCHANGED <<limit, configured, cancelled, pc, tries, attempt, budget>>

request_cancellation(r) ==
    /\ cancelled' = cancelled \cup {r}
    /\ UNCHANGED <<limit, configured, row, ttl, pending, pc, tries, attempt, budget>>

set_pool_limit_Unfenced(p, l) ==
    /\ limit' = [limit EXCEPT ![p] = l]
    /\ configured' = configured \cup {p}
    /\ UNCHANGED <<row, ttl, pending, cancelled, pc, tries, attempt, budget>>

\* Writes the pool row, so it overtakes every open claim on that pool.
set_pool_limit(p, l) ==
    /\ limit' = [limit EXCEPT ![p] = l]
    /\ configured' = configured \cup {p}
    /\ stale' = stale \cup Overtaken({p}, {})
    /\ UNCHANGED <<row, ttl, pending, cancelled, pc, tries,
                   age, todo, limited, blocked, admit, budget>>

\* The coordinator's sweep: DELETE ... WHERE lease_expires_at <= $now.
free_expired_leases ==
    LET dead == {r \in row : ttl[r[1]][r[2]] <= 0} IN
    /\ row' = row \ dead
    /\ ttl' = [s \in Steps |-> [p \in Pools |->
                 IF <<s, p>> \in dead THEN 0 ELSE ttl[s][p]]]
    /\ stale' = stale \cup Overtaken({}, dead)
    /\ UNCHANGED <<limit, configured, pending, cancelled, pc, tries,
                   age, todo, limited, blocked, admit, budget>>

InAttempt(s) == pc[s] \in {"check", "commit"}
Waiting(s) == pc[s] \in {"check", "commit", "polled", "wait"}

\* Time passes.  An expired row is not counted further down than an attempt
\* can look back.
Tick ==
    /\ \A s \in Steps : InAttempt(s) => age[s] < MaxAge
    /\ TimelyRenewal =>
         \A s \in Steps : Holding(s) =>
            \A p \in Pools : <<s, p>> \in row => ttl[s][p] > 1
    /\ ttl' = [s \in Steps |-> [p \in Pools |->
                 IF <<s, p>> \in row /\ ttl[s][p] > -MaxAge
                 THEN ttl[s][p] - 1 ELSE ttl[s][p]]]
    /\ age' = [s \in Steps |-> IF InAttempt(s) THEN age[s] + 1 ELSE age[s]]
    /\ left' = [s \in Steps |-> IF left[s] > 0 THEN left[s] - 1 ELSE left[s]]
    /\ UNCHANGED <<limit, configured, row, pending, cancelled, pc, tries,
                   retries, todo, limited, blocked, admit, stale>>

-----------------------------------------------------------------------------
Init ==
    /\ limit \in LimitMaps
    /\ configured \in SUBSET Pools
    /\ row = {} /\ ttl = [s \in Steps |-> [p \in Pools |-> 0]]
    /\ pending = {} /\ cancelled = {}
    /\ pc = [s \in Steps |-> "idle"]
    /\ tries = [s \in Steps |-> 0]
    /\ left = [s \in Steps |-> 0] /\ retries = [s \in Steps |-> 0]
    /\ age = [s \in Steps |-> 0]
    /\ todo = [s \in Steps |-> {}]
    /\ limited = [s \in Steps |-> {}] /\ blocked = [s \in Steps |-> {}]
    /\ admit = {} /\ stale = {}

\* What the step's own process does, in the order its code does it.
StepNext(s) ==
    \/ acquire(s)
    \/ \E p \in Pools : precheck(s, p)
    \/ claim_unlimited(s) \/ claim_pending(s)
    \/ poll_cancelled(s) \/ poll(s)
    \/ txn_begin(s) \/ txn_commit(s) \/ txn_contended(s)
    \/ start_attempt(s) \/ work_done(s) \/ work_retry(s)
    \/ release(s) \/ backoff_done(s) \/ resume(s)

Next ==
    \/ \E s \in Steps : StepNext(s) \/ renew_slot_lease(s) \/ crash(s)
    \/ \E r \in Runs : free_concurrency_slots_for_run(r)
    \/ \E r \in CancelRuns : request_cancellation(r)
    \/ \E p \in Pools : \E l \in Limits[p] : set_pool_limit(p, l)
    \/ free_expired_leases
    \/ Tick

Spec == Init /\ [][Next]_vars

\* The tokio runtime keeps running a live step and its renewal task, and time
\* passes.  Nothing is assumed of the coordinator's sweep, of the run-level
\* cleanup or of the operator's commands.
Fairness ==
    /\ \A s \in Steps : WF_vars(StepNext(s)) /\ WF_vars(renew_slot_lease(s))
    /\ WF_vars(Tick)

FairSpec == Spec /\ Fairness

-----------------------------------------------------------------------------
(* Properties.                                                             *)

LiveUse(p) == Cardinality(Units({t \in Steps : Live(t, p, 0)}, p))

\* Pools every claim writes a slot row for: nobody ever lifts their limit.
NeverUnlimited(p) == p \in AssetPools \/ \A l \in Limits[p] : l >= 0

\* Snapshot transactions, stale `now` values, lapsed and taken-over rows
\* notwithstanding, the live slots of a counted pool grow only up to the
\* limit the pool has at that moment (build_claim_transaction's claim_version
\* fence).  An operator may lower a limit below what is in use, so this is
\* about growth, not about every state.
PoolCapacity ==
    [][\A p \in Pools \ AssetPools :
          /\ NeverUnlimited(p)
          /\ LiveUse(p)' > LiveUse(p)
          => LiveUse(p)' <= limit'[p]]_vars

\* Two steps whose scopes on a shared asset pool conflict are never at work
\* at the same time (asset_conflict_predicate, docs/api-reference/assets.md
\* on ActionConcurrency.Exclusive), whatever limit the asset pool is given.
AssetExclusion ==
    \A s, t \in Steps :
        /\ s # t /\ pc[s] = "work" /\ pc[t] = "work"
        /\ PoolsOf(s) \cap PoolsOf(t) \cap AssetPools # {}
        => ~ asset_conflict(s, t)

KeepsSlots(s) ==
    Holding(s) => \A p \in PoolsOf(s) : NeverUnlimited(p) => Live(s, p, 0)

\* While a step holds its PoolGuard nobody takes its slots away: the sweep of
\* expired leases, another run's cleanup, a taken-over row and a changed limit
\* all leave every slot row of the holder in place and live.
HolderKeepsSlots == \A s \in Steps : KeepsSlots(s)

\* A step that was given its slots is no longer listed as waiting for them
\* (the claim transaction deletes its pending_steps row).
NoHolderPending == \A s \in Steps : Holding(s) => s \notin pending

\* Every claim ends: with the slots, with an error, or with its process
\* killed.  In particular a wait on an asset pool, which has no timeout,
\* outlasts a holder that crashed or failed to release only by its lease.
ClaimEnds ==
    \A s \in Steps :
        Waiting(s) ~> (Holding(s) \/ pc[s] \in {"over", "crashed"})

-----------------------------------------------------------------------------
(* What the pools promise.                                                 *)

Guarded == {p \in Pools : NeverUnlimited(p)}

Service == INSTANCE PoolService WITH
    Pools <- Guarded, AssetPools <- AssetPools,
    Conflicts <- {x \in Steps \X Steps : asset_conflict(x[1], x[2])},
    limit <- [p \in Guarded |-> limit[p]],
    holders <- {s \in Steps : Holding(s)},
    slots <- {x \in Steps \X Guarded : Live(x[1], x[2], 0)}

\* On the pools nobody lifts the limit of, the tables, the transactions, the
\* polling and the leases implement PoolService: whatever the pre-check read and
\* however old the `now` of the attempt, a step gets all of its slots in one step
\* of the code, there is room for each of them at that moment, and no other step
\* adds a live slot or takes one from a holder (build_claim_transaction,
\* renew_slot_lease, free_expired_leases).
Implements == Service!Spec

-----------------------------------------------------------------------------
(* The inductive strengthening behind the three safety properties.         *)

RowsAreClaimed == \A s \in Steps, p \in Pools : <<s, p>> \in row => p \in PoolsOf(s)

\* What the pre-check has let through so far: no pool that is always limited
\* is forgotten on the way to the transaction.
ClaimComplete(s) ==
    /\ todo[s] \subseteq PoolsOf(s) /\ limited[s] \subseteq PoolsOf(s)
    /\ s \in admit \cup stale => pc[s] = "commit"
    /\ \A p \in PoolsOf(s) : NeverUnlimited(p) =>
          /\ pc[s] = "check" => p \in todo[s] \cup limited[s]
          /\ pc[s] = "commit" => p \in limited[s]

\* The fence: what the snapshot admitted is still admissible as long as no
\* record in the transaction's write set has been written.
OpenClaimAdmissible(s) ==
    pc[s] = "commit" /\ s \in admit /\ s \notin stale =>
        \A p \in limited[s] : NeverUnlimited(p) => ~ PoolBlocks(s, p, age[s])

LiveRowsCompatible ==
    \A s, t \in Steps, p \in AssetPools :
        s # t /\ Live(s, p, 0) /\ Live(t, p, 0) => ~ asset_conflict(s, t)

IInv ==
    /\ TypeOK
    /\ RowsAreClaimed
    /\ \A s \in Steps : ClaimComplete(s)
    /\ \A s \in Steps : OpenClaimAdmissible(s)
    /\ LiveRowsCompatible
    /\ HolderKeepsSlots

=============================================================================
