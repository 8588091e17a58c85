-------------------------- MODULE PoolClaimsProofs --------------------------
(***************************************************************************)
(* Proofs about PoolClaims, for every set of steps, pools, scopes and      *)
(* limits: its type invariant, and, while live holders renew in time, that *)
(* a holder keeps its slots, that conflicting scopes never work together,  *)
(* and that a counted pool only grows up to its limit.  PoolServiceProofs  *)
(* goes on to the refinement of PoolService.                               *)
(***************************************************************************)
EXTENDS PoolClaims, FiniteSetTheorems, TLAPS

USE DEF Goto, End, Attempt, Budget, db, attempt, budget

-----------------------------------------------------------------------------
(* Slot units.                                                             *)

\* The slots of a set of steps form a finite set.
LEMMA UnitsFinite ==
    ASSUME NEW T \in SUBSET Steps, NEW p
    PROVE  IsFiniteSet(Units(T, p))
<1>1. IsFiniteSet(Steps \X (1 .. MaxSlots))
  <2>1. IsFiniteSet(Steps) /\ MaxSlots \in Nat
    BY ConstantsAssumption
  <2>2. IsFiniteSet(1 .. MaxSlots)
    BY <2>1, FS_Interval
  <2> QED BY <2>1, <2>2, FS_Product
<1>2. Units(T, p) \subseteq Steps \X (1 .. MaxSlots)
  BY DEF Units
<1> QED BY <1>1, <1>2, FS_Subset

\* Fewer steps take fewer slots.
LEMMA UnitsMonotone ==
    ASSUME NEW T \in SUBSET Steps, NEW S \in SUBSET T, NEW p
    PROVE  /\ Cardinality(Units(S, p)) \in Nat
           /\ Cardinality(Units(T, p)) \in Nat
           /\ Cardinality(Units(S, p)) <= Cardinality(Units(T, p))
<1>1. Units(S, p) \subseteq Units(T, p)
  BY DEF Units
<1>2. IsFiniteSet(Units(T, p)) /\ IsFiniteSet(Units(S, p))
  BY UnitsFinite
<1> QED BY <1>1, <1>2, FS_Subset, FS_CardinalityType

\* One more step adds no more than the slots it asks for.
LEMMA UnitsAdd ==
    ASSUME NEW T \in SUBSET Steps, NEW s \in Steps, NEW p \in Pools
    PROVE  Cardinality(Units(T \cup {s}, p)) <= Cardinality(Units(T, p)) + Slots[s][p]
<1> DEFINE own == {s} \X (1 .. Slots[s][p])
<1>0. Slots[s][p] \in 0 .. MaxSlots /\ MaxSlots \in Nat
  BY ConstantsAssumption
<1>1. Units(T \cup {s}, p) \subseteq Units(T, p) \cup own
  BY <1>0 DEF Units
<1>2. IsFiniteSet(own) /\ Cardinality(own) = Slots[s][p]
  <2>1. IsFiniteSet({s}) /\ Cardinality({s}) = 1
    BY FS_Singleton
  <2>2. IsFiniteSet(1 .. Slots[s][p]) /\ Cardinality(1 .. Slots[s][p]) = Slots[s][p]
    <3> DEFINE n == Slots[s][p]
    <3>1. n \in Nat
      BY <1>0
    <3> HIDE DEF n
    <3>2. IsFiniteSet(1 .. n) /\ Cardinality(1 .. n) = IF 1 > n THEN 0 ELSE n - 1 + 1
      BY <3>1, FS_Interval
    <3>3. Cardinality(1 .. n) = n
      BY <3>1, <3>2
    <3> QED BY <3>2, <3>3 DEF n
  <2>3. Cardinality(own) = Cardinality({s}) * Cardinality(1 .. Slots[s][p])
    BY <2>1, <2>2, FS_Product
  <2>4. IsFiniteSet(own)
    BY <2>1, <2>2, FS_Product
  <2> QED BY <2>1, <2>2, <2>3, <2>4, <1>0
<1>3. IsFiniteSet(Units(T, p))
  BY UnitsFinite
<1>4. /\ IsFiniteSet(Units(T, p) \cup own)
      /\ Cardinality(Units(T, p) \cup own)
           = Cardinality(Units(T, p)) + Cardinality(own)
             - Cardinality(Units(T, p) \cap own)
  BY <1>2, <1>3, FS_Union
<1>5. Cardinality(Units(T \cup {s}, p)) <= Cardinality(Units(T, p) \cup own)
  BY <1>1, <1>4, FS_Subset
<1>6. Cardinality(Units(T, p) \cap own) \in Nat
  <2>1. IsFiniteSet(Units(T, p) \cap own)
    BY <1>3, FS_Intersection
  <2> QED BY <2>1, FS_CardinalityType
<1>7. Cardinality(Units(T, p)) \in Nat /\ Cardinality(Units(T \cup {s}, p)) \in Nat
  <2>1. T \cup {s} \in SUBSET Steps
    OBVIOUS
  <2> QED BY <1>3, <2>1, UnitsFinite, FS_CardinalityType
<1> QED BY <1>0, <1>2, <1>4, <1>5, <1>6, <1>7

-----------------------------------------------------------------------------
(* Types.                                                                  *)

\* Ending a claim keeps the locals in their ranges.
LEMMA EndType ==
    ASSUME TypeOK, NEW s \in Steps, NEW label \in PCs, End(s, label),
           UNCHANGED <<db, tries>>
    PROVE  TypeOK'
  BY ConstantsAssumption DEF TypeOK

\* Every operation of the storage layer and of the step lifecycle keeps every
\* table and local in its range, with or without timely renewals.
LEMMA TypeStep ==
    ASSUME TypeOK, [Next]_vars
    PROVE  TypeOK'
<1>c. /\ ClaimTimeout \in Nat /\ MaxRetries \in Nat /\ MaxTries \in Nat
      /\ MaxAge \in Nat /\ Lease \in Nat
  BY ConstantsAssumption
<1> USE <1>c
<1>0. \A s \in Steps : PoolsOf(s) \in SUBSET Pools
  BY DEF PoolsOf
<1>1. ASSUME NEW s \in Steps, StepNext(s)
      PROVE  TypeOK'
  <2>1. CASE acquire(s)
    BY <2>1, <1>0 DEF acquire, TypeOK, PCs
  <2>2. ASSUME NEW p \in Pools, precheck(s, p)
        PROVE  TypeOK'
    <3>1. CASE p \notin configured
      <4>1. End(s, "over") /\ UNCHANGED <<db, tries>>
        BY <2>2, <3>1 DEF precheck
      <4> QED BY <4>1, EndType DEF PCs
    <3>2. CASE p \in configured
      <4>1. limited' \in [Steps -> SUBSET Pools]
        <5>1. CASE limited' = limited
          BY <5>1 DEF TypeOK
        <5>2. CASE limited' = [limited EXCEPT ![s] = @ \cup {p}]
          BY <5>2 DEF TypeOK
        <5> QED BY <2>2, <3>2, <5>1, <5>2 DEF precheck
      <4>3. blocked' \in [Steps -> SUBSET Pools]
        <5>1. CASE blocked' = blocked
          BY <5>1 DEF TypeOK
        <5>2. CASE blocked' = [blocked EXCEPT ![s] = @ \cup {p}]
          BY <5>2 DEF TypeOK
        <5> QED BY <2>2, <3>2, <5>1, <5>2 DEF precheck
      <4>2. todo' \in [Steps -> SUBSET Pools]
        BY <2>2, <3>2 DEF precheck, TypeOK
      <4> QED BY <2>2, <3>2, <4>1, <4>2, <4>3 DEF precheck, TypeOK
    <3> QED BY <3>1, <3>2
  <2>3. CASE claim_unlimited(s)
    BY <2>3 DEF claim_unlimited, TypeOK, PCs
  <2>4. CASE claim_pending(s)
    <3>0. PICK n \in {0, left[s], ClaimTimeout} : left' = [left EXCEPT ![s] = n]
      BY <2>4 DEF claim_pending
    <3>a. n \in 0 .. ClaimTimeout
      BY <3>0 DEF TypeOK
    <3>1. left' \in [Steps -> 0 .. ClaimTimeout]
      BY <3>0, <3>a DEF TypeOK
    <3>2. pc' \in [Steps -> PCs]
      BY <2>4 DEF claim_pending, TypeOK, PCs
    <3>3. Attempt(s, {}) /\ retries' = [retries EXCEPT ![s] = 0]
      BY <2>4 DEF claim_pending
    <3> QED BY <2>4, <3>1, <3>2, <3>3 DEF claim_pending, TypeOK
  <2>5. CASE poll_cancelled(s)
    <3>1. CASE RunOf[s] \in cancelled
      <4>1. End(s, "over") /\ UNCHANGED <<db, tries>>
        BY <2>5, <3>1 DEF poll_cancelled
      <4> QED BY <4>1, EndType DEF PCs
    <3>2. CASE RunOf[s] \notin cancelled
      BY <2>5, <3>2 DEF poll_cancelled, TypeOK, PCs
    <3> QED BY <3>1, <3>2
  <2>6. CASE poll(s)
    BY <2>6, <1>0 DEF poll, TypeOK, PCs
  <2>7. CASE txn_begin(s)
    BY <2>7 DEF txn_begin, TypeOK, PCs
  <2>8. CASE txn_commit(s)
    <3>1. row' \in SUBSET (Steps \X Pools)
      BY <2>8 DEF txn_commit, TypeOK
    <3>2. ttl' \in [Steps -> [Pools -> -MaxAge .. Lease]]
      <4>1. Lease - age[s] \in -MaxAge .. Lease
        BY DEF TypeOK
      <4> QED BY <2>8, <4>1 DEF txn_commit, TypeOK
    <3>3. stale' \in SUBSET Steps
      BY <2>8 DEF txn_commit, TypeOK, Overtaken
    <3>4. pc' \in [Steps -> PCs] /\ pending' \in SUBSET Steps /\ admit' \in SUBSET Steps
      BY <2>8 DEF txn_commit, TypeOK, PCs, unpend
    <3>5. age' \in [Steps -> 0 .. MaxAge] /\ limited' \in [Steps -> SUBSET Pools]
      BY <2>8 DEF txn_commit, TypeOK
    <3>6. left' \in [Steps -> 0 .. ClaimTimeout] /\ retries' \in [Steps -> 0 .. MaxRetries]
      BY <2>8 DEF txn_commit, TypeOK
    <3> QED BY <2>8, <3>1, <3>2, <3>3, <3>4, <3>5, <3>6 DEF txn_commit, TypeOK
  <2>9. CASE txn_contended(s)
    <3>1. CASE End(s, "over")
      BY <2>9, <3>1 DEF txn_contended, TypeOK, PCs
    <3>2. CASE /\ retries[s] < MaxRetries /\ Goto(s, "check")
               /\ Attempt(s, PoolsOf(s)) /\ Budget(s, left[s], retries[s] + 1)
      BY <2>9, <3>2, <1>0 DEF txn_contended, TypeOK, PCs
    <3> QED BY <2>9, <3>1, <3>2 DEF txn_contended
  <2>10. CASE start_attempt(s) \/ work_done(s) \/ work_retry(s)
    <3>1. pc' \in [Steps -> PCs]
      BY <2>10 DEF start_attempt, work_done, work_retry, TypeOK, PCs
    <3>2. tries' \in [Steps -> 0 .. MaxTries]
      BY <2>10 DEF start_attempt, work_done, work_retry, TypeOK
    <3> QED BY <2>10, <3>1, <3>2 DEF start_attempt, work_done, work_retry, TypeOK
  <2>11. CASE release(s)
    <3>1. row' \in SUBSET (Steps \X Pools) /\ pending' \in SUBSET Steps
      BY <2>11 DEF release, TypeOK, unpend
    <3>2. ttl' \in [Steps -> [Pools -> -MaxAge .. Lease]]
      <4>1. [p \in Pools |-> 0] \in [Pools -> -MaxAge .. Lease]
        OBVIOUS
      <4> QED BY <2>11, <4>1 DEF release, TypeOK
    <3>3. pc' \in [Steps -> PCs]
      BY <2>11 DEF release, TypeOK, PCs
    <3> QED BY <2>11, <3>1, <3>2, <3>3 DEF release, TypeOK
  <2>12. CASE backoff_done(s) \/ resume(s)
    <3>1. pc' \in [Steps -> PCs]
      BY <2>12 DEF backoff_done, resume, TypeOK, PCs
    <3>2. tries' \in [Steps -> 0 .. MaxTries]
      BY <2>12 DEF backoff_done, resume, TypeOK
    <3> QED BY <2>12, <3>1, <3>2 DEF backoff_done, resume, TypeOK
  <2> QED BY <1>1, <2>1, <2>2, <2>3, <2>4, <2>5, <2>6, <2>7, <2>8, <2>9, <2>10,
             <2>11, <2>12 DEF StepNext
<1>2. ASSUME NEW s \in Steps, renew_slot_lease(s)
      PROVE  TypeOK'
  BY <1>2 DEF renew_slot_lease, TypeOK
<1>3. ASSUME NEW s \in Steps, crash(s)
      PROVE  TypeOK'
  BY <1>3 DEF crash, TypeOK, PCs
<1>4. ASSUME NEW r \in Runs, free_concurrency_slots_for_run(r)
      PROVE  TypeOK'
  BY <1>4 DEF free_concurrency_slots_for_run, TypeOK
<1>5. ASSUME NEW r \in CancelRuns, request_cancellation(r)
      PROVE  TypeOK'
  BY <1>5, ConstantsAssumption DEF request_cancellation, TypeOK
<1>6. ASSUME NEW p \in Pools, NEW l \in Limits[p], set_pool_limit(p, l)
      PROVE  TypeOK'
  <2>1. limit' \in LimitMaps
    <3> DEFINE All == UNION {Limits[q] : q \in Pools}
    <3>1. limit \in [Pools -> All] /\ \A q \in Pools : limit[q] \in Limits[q]
      BY DEF TypeOK, LimitMaps
    <3>2. l \in All /\ limit' = [limit EXCEPT ![p] = l]
      BY <1>6 DEF set_pool_limit
    <3> HIDE DEF All
    <3>3. limit' \in [Pools -> All] /\ \A q \in Pools : limit'[q] \in Limits[q]
      BY <3>1, <3>2
    <3> QED BY <3>3 DEF LimitMaps, All
  <2>2. stale' \in SUBSET Steps
    BY <1>6 DEF set_pool_limit, TypeOK, Overtaken
  <2> QED BY <1>6, <2>1, <2>2 DEF set_pool_limit, TypeOK
<1>7. CASE free_expired_leases
  <2>1. stale' \in SUBSET Steps
    BY <1>7 DEF free_expired_leases, TypeOK, Overtaken
  <2>2. row' \in SUBSET (Steps \X Pools)
    BY <1>7 DEF free_expired_leases, TypeOK
  <2>3. ttl' \in [Steps -> [Pools -> -MaxAge .. Lease]]
    BY <1>7 DEF free_expired_leases, TypeOK
  <2> QED BY <1>7, <2>1, <2>2, <2>3 DEF free_expired_leases, TypeOK
<1>8. CASE Tick
  <2>1. age' \in [Steps -> 0 .. MaxAge] /\ left' \in [Steps -> 0 .. ClaimTimeout]
    BY <1>8 DEF Tick, TypeOK
  <2>2. ttl' \in [Steps -> [Pools -> -MaxAge .. Lease]]
    BY <1>8 DEF Tick, TypeOK
  <2> QED BY <1>8, <2>1, <2>2 DEF Tick, TypeOK
<1>9. CASE UNCHANGED vars
  BY <1>9 DEF vars, TypeOK
<1> QED BY <1>1, <1>2, <1>3, <1>4, <1>5, <1>6, <1>7, <1>8, <1>9 DEF Next

\* TypeOK is an invariant of the specification, for every instance.
THEOREM TypeCorrect == Spec => []TypeOK
<1>1. Init => TypeOK
  BY ConstantsAssumption DEF Init, TypeOK, PCs
<1> QED BY <1>1, TypeStep, PTL DEF Spec

-----------------------------------------------------------------------------
(* The fence.                                                              *)

\* A pool that did not block a claim does not come to block it while no other
\* step gains a live row and the limit stays.
LEMMA BlocksMonotone ==
    ASSUME TypeOK, NEW s \in Steps, NEW p \in Pools,
           OthersLive(s, p, age[s])' \subseteq OthersLive(s, p, age[s]),
           limit'[p] = limit[p],
           ~ PoolBlocks(s, p, age[s])
    PROVE  ~ PoolBlocks(s, p, age[s])'
<1>1. CASE p \in AssetPools
  BY <1>1 DEF PoolBlocks, asset_conflict
<1>2. CASE p \notin AssetPools
  <2> DEFINE old == OthersLive(s, p, age[s])
             new == OthersLive(s, p, age[s])'
  <2>1. old \in SUBSET Steps /\ new \in SUBSET old
    BY DEF OthersLive
  <2> HIDE DEF old, new
  <2>2. /\ Cardinality(Units(new, p)) \in Nat /\ Cardinality(Units(old, p)) \in Nat
        /\ Cardinality(Units(new, p)) <= Cardinality(Units(old, p))
    BY <2>1, UnitsMonotone
  <2>3. ~ (Cardinality(Units(old, p)) + Slots[s][p] > limit[p])
    BY <1>2 DEF PoolBlocks, query_pool_usage, old
  <2>4. limit[p] \in Int /\ Slots[s][p] \in Int
    BY ConstantsAssumption DEF TypeOK, LimitMaps
  <2>5. ~ (Cardinality(Units(new, p)) + Slots[s][p] > limit'[p])
    BY <2>2, <2>3, <2>4
  <2> QED BY <1>2, <2>5 DEF PoolBlocks, query_pool_usage, Units, new
<1> QED BY <1>1, <1>2

\* Nothing a claim depends on has changed for step t.
Frame(t) ==
    /\ UNCHANGED <<row, ttl, limit>>
    /\ pc'[t] = pc[t] /\ todo'[t] = todo[t] /\ limited'[t] = limited[t]
    /\ age'[t] = age[t]
    /\ t \in admit' <=> t \in admit
    /\ t \in stale' <=> t \in stale

\* A step nothing has changed for keeps its part of the invariant.
LEMMA FrameKeeps ==
    ASSUME IInv, NEW t \in Steps, Frame(t)
    PROVE  ClaimComplete(t)' /\ OpenClaimAdmissible(t)' /\ KeepsSlots(t)'
<1>1. ClaimComplete(t) /\ OpenClaimAdmissible(t) /\ KeepsSlots(t)
  BY DEF IInv, HolderKeepsSlots
<1>2. ClaimComplete(t)'
  BY <1>1 DEF Frame, ClaimComplete, NeverUnlimited, PoolsOf
<1>3. KeepsSlots(t)'
  BY <1>1 DEF Frame, KeepsSlots, NeverUnlimited, PoolsOf, Holding, Live
<1>4. OpenClaimAdmissible(t)'
  <2>1. ASSUME NEW p \in limited[t], p \in Pools, ~ PoolBlocks(t, p, age[t])
        PROVE  ~ PoolBlocks(t, p, age[t])'
    <3>1. OthersLive(t, p, age[t])' \subseteq OthersLive(t, p, age[t])
      BY DEF Frame, OthersLive, Live
    <3>2. limit'[p] = limit[p] /\ TypeOK
      BY DEF Frame, IInv
    <3> QED BY <2>1, <3>1, <3>2, BlocksMonotone
  <2>2. limited[t] \subseteq Pools
    BY DEF IInv, TypeOK
  <2> QED BY <1>1, <2>1, <2>2 DEF Frame, OpenClaimAdmissible, NeverUnlimited
<1> QED BY <1>2, <1>3, <1>4

\* What another actor's step may do to t without spoiling its open claim: the
\* pools of the claim gain no live row and keep their limit, or t is overtaken.
LEMMA OthersKeep ==
    ASSUME IInv, NEW t \in Steps,
           pc'[t] = pc[t], todo'[t] = todo[t], limited'[t] = limited[t],
           t \in admit' <=> t \in admit,
           t \in stale => t \in stale',
           t \in stale' => t \in stale \/ pc[t] = "commit",
           pc[t] = "commit" /\ t \notin stale' =>
              \A p \in limited[t] : NeverUnlimited(p) =>
                 /\ OthersLive(t, p, age[t])' \subseteq OthersLive(t, p, age[t])
                 /\ limit'[p] = limit[p]
    PROVE  ClaimComplete(t)' /\ OpenClaimAdmissible(t)'
<1>1. ClaimComplete(t) /\ OpenClaimAdmissible(t) /\ TypeOK /\ limited[t] \subseteq Pools
  BY DEF IInv, TypeOK
<1>2. ClaimComplete(t)'
  BY <1>1 DEF ClaimComplete, NeverUnlimited, PoolsOf
<1>3. ASSUME pc[t] = "commit", t \in admit, t \notin stale', NEW p \in limited[t],
             NeverUnlimited(p)
      PROVE  ~ PoolBlocks(t, p, age[t])'
  <2>1. ~ PoolBlocks(t, p, age[t])
    BY <1>1, <1>3 DEF OpenClaimAdmissible
  <2>2. p \in Pools /\ limit'[p] = limit[p]
    BY <1>1, <1>3
  <2>3. OthersLive(t, p, age[t])' \subseteq OthersLive(t, p, age[t])
    BY <1>3
  <2> QED BY <1>1, <2>1, <2>2, <2>3, BlocksMonotone
<1>4. OpenClaimAdmissible(t)'
  BY <1>3 DEF OpenClaimAdmissible, NeverUnlimited
<1> QED BY <1>2, <1>4

\* A step that is neither claiming nor holding has nothing to keep.
LEMMA IdleKeeps ==
    ASSUME IInv, NEW s \in Steps,
           pc'[s] \notin {"check", "commit", "claimed", "work"},
           todo'[s] \in {todo[s], {}}, limited'[s] \in {limited[s], {}},
           s \notin admit' \cup stale'
    PROVE  ClaimComplete(s)' /\ OpenClaimAdmissible(s)' /\ KeepsSlots(s)'
<1>1. ClaimComplete(s)
  BY DEF IInv
<1>2. ClaimComplete(s)'
  BY <1>1 DEF ClaimComplete, PoolsOf
<1>3. OpenClaimAdmissible(s)' /\ KeepsSlots(s)'
  BY DEF OpenClaimAdmissible, KeepsSlots, Holding
<1> QED BY <1>2, <1>3

\* A step s of the lifecycle that leaves the slot rows and the other steps alone.
LEMMA LocalStep ==
    ASSUME IInv, TypeOK', NEW s \in Steps, UNCHANGED <<row, ttl, limit>>,
           \A t \in Steps \ {s} : Frame(t),
           ClaimComplete(s)', OpenClaimAdmissible(s)', KeepsSlots(s)'
    PROVE  IInv'
<1>1. RowsAreClaimed' /\ LiveRowsCompatible'
  BY DEF IInv, RowsAreClaimed, LiveRowsCompatible, PoolsOf, Live, asset_conflict
<1>2. \A t \in Steps : ClaimComplete(t)' /\ OpenClaimAdmissible(t)' /\ KeepsSlots(t)'
  <2> SUFFICES ASSUME NEW t \in Steps
               PROVE  ClaimComplete(t)' /\ OpenClaimAdmissible(t)' /\ KeepsSlots(t)'
    OBVIOUS
  <2>1. CASE t = s
    BY <2>1
  <2>2. CASE t # s
    BY <2>2, FrameKeeps
  <2> QED BY <2>1, <2>2
<1> QED BY <1>1, <1>2 DEF IInv, HolderKeepsSlots

\* Steps that end a claim, in failure or by a crash.
LEMMA EndKeeps ==
    ASSUME IInv, TypeOK', NEW s \in Steps, NEW label \in {"over", "crashed", "polled"},
           Goto(s, label), Attempt(s, {}), UNCHANGED <<row, ttl, limit>>
    PROVE  IInv'
<1>0. TypeOK
  BY DEF IInv
<1>1. \A t \in Steps \ {s} : Frame(t)
  BY <1>0 DEF Frame, TypeOK
<1>2. /\ pc'[s] \notin {"check", "commit", "claimed", "work"}
      /\ todo'[s] = {} /\ limited'[s] = {} /\ s \notin admit' \cup stale'
  BY <1>0 DEF TypeOK
<1>3. ClaimComplete(s)' /\ OpenClaimAdmissible(s)' /\ KeepsSlots(s)'
  BY <1>2, IdleKeeps
<1> QED BY <1>1, <1>3, LocalStep

\* A fresh attempt has all its pools to check.
LEMMA AttemptKeeps ==
    ASSUME IInv, TypeOK', NEW s \in Steps,
           Goto(s, "check"), Attempt(s, PoolsOf(s)), UNCHANGED <<row, ttl, limit>>
    PROVE  IInv'
<1>0. TypeOK
  BY DEF IInv
<1>1. \A t \in Steps \ {s} : Frame(t)
  BY <1>0 DEF Frame, TypeOK
<1>2. /\ pc'[s] = "check" /\ todo'[s] = PoolsOf(s) /\ limited'[s] = {}
      /\ s \notin admit' \cup stale'
  BY <1>0 DEF TypeOK
<1>3. ClaimComplete(s)' /\ OpenClaimAdmissible(s)' /\ KeepsSlots(s)'
  BY <1>2 DEF ClaimComplete, OpenClaimAdmissible, KeepsSlots, Holding, PoolsOf
<1> QED BY <1>1, <1>3, LocalStep

\* Moves of pc outside the claim: the attempt's locals and the tables stay,
\* and a guard is not gained.
LEMMA MoveKeeps ==
    ASSUME IInv, TypeOK', NEW s \in Steps, NEW label \in PCs \ {"check", "commit"},
           pc[s] # "commit", label \in {"claimed", "work"} => Holding(s),
           Goto(s, label), UNCHANGED attempt, UNCHANGED <<row, ttl, limit>>
    PROVE  IInv'
<1>0. TypeOK /\ ClaimComplete(s) /\ KeepsSlots(s)
  BY DEF IInv, HolderKeepsSlots
<1>1. \A t \in Steps \ {s} : Frame(t)
  BY <1>0 DEF Frame, TypeOK
<1>2. /\ pc'[s] = label /\ todo'[s] = todo[s] /\ limited'[s] = limited[s]
      /\ s \notin admit' \cup stale'
  BY <1>0 DEF TypeOK, ClaimComplete
<1>3. ClaimComplete(s)' /\ OpenClaimAdmissible(s)'
  BY <1>0, <1>2 DEF ClaimComplete, OpenClaimAdmissible, PoolsOf
<1>4. KeepsSlots(s)'
  BY <1>0, <1>2 DEF KeepsSlots, Holding, Live, NeverUnlimited, PoolsOf
<1> QED BY <1>1, <1>3, <1>4, LocalStep

\* The pre-check forgets no pool that is always limited.
LEMMA PrecheckKeeps ==
    ASSUME IInv, TypeOK', NEW s \in Steps, NEW p \in Pools, precheck(s, p)
    PROVE  IInv'
<1>0. TypeOK /\ ClaimComplete(s)
  BY DEF IInv
<1>1. CASE p \notin configured
  <2>1. Goto(s, "over") /\ Attempt(s, {}) /\ UNCHANGED <<row, ttl, limit>>
    BY <1>1 DEF precheck
  <2> QED BY <2>1, EndKeeps
<1>2. CASE p \in configured
  <2>1. /\ todo' = [todo EXCEPT ![s] = @ \ {p}]
        /\ UNCHANGED <<pc, age, admit, stale, row, ttl, limit>>
        /\ pc[s] = "check" /\ p \in todo[s]
    BY <1>2 DEF precheck
  <2>2. PICK L \in {limited[s], limited[s] \cup {p}} :
           /\ limited' = [limited EXCEPT ![s] = L]
           /\ IsLimited(p) => p \in L
    <3>1. CASE IsLimited(p)
      <4>1. limited' = [limited EXCEPT ![s] = limited[s] \cup {p}]
        BY <1>2, <3>1 DEF precheck
      <4> QED BY <4>1
    <3>2. CASE ~ IsLimited(p)
      <4>1. limited' = limited
        BY <1>2, <3>2 DEF precheck
      <4>2. limited' = [limited EXCEPT ![s] = limited[s]]
        BY <4>1, <1>0 DEF TypeOK
      <4> QED BY <4>2, <3>2
    <3> QED BY <3>1, <3>2
  <2>3. \A t \in Steps \ {s} : Frame(t)
    BY <1>0, <2>1, <2>2 DEF Frame, TypeOK
  <2>4. NeverUnlimited(p) => IsLimited(p)
    BY <1>0 DEF TypeOK, LimitMaps, NeverUnlimited, IsLimited
  <2>5. todo'[s] = todo[s] \ {p} /\ limited'[s] = L
    BY <1>0, <2>1, <2>2 DEF TypeOK
  <2>6. ClaimComplete(s)'
    BY <1>0, <2>1, <2>2, <2>4, <2>5 DEF ClaimComplete, NeverUnlimited, PoolsOf
  <2>7. OpenClaimAdmissible(s)' /\ KeepsSlots(s)'
    BY <2>1 DEF OpenClaimAdmissible, KeepsSlots, Holding
  <2> QED BY <2>1, <2>3, <2>6, <2>7, LocalStep
<1> QED BY <1>1, <1>2

\* A claim whose pools are all unlimited has no always-limited pool to keep.
LEMMA UnlimitedKeeps ==
    ASSUME IInv, TypeOK', NEW s \in Steps, claim_unlimited(s)
    PROVE  IInv'
<1>0. TypeOK /\ ClaimComplete(s)
  BY DEF IInv
<1>1. /\ Goto(s, "claimed") /\ Attempt(s, {}) /\ UNCHANGED <<row, ttl, limit>>
      /\ pc[s] = "check" /\ todo[s] = {} /\ limited[s] = {}
  BY DEF claim_unlimited, Checked
<1>2. \A t \in Steps \ {s} : Frame(t)
  BY <1>0, <1>1 DEF Frame, TypeOK
<1>3. /\ pc'[s] = "claimed" /\ todo'[s] = {} /\ limited'[s] = {}
      /\ s \notin admit' \cup stale'
  BY <1>0, <1>1 DEF TypeOK
<1>4. \A p \in PoolsOf(s) : ~ NeverUnlimited(p)
  BY <1>0, <1>1 DEF ClaimComplete
<1>5. ClaimComplete(s)' /\ OpenClaimAdmissible(s)' /\ KeepsSlots(s)'
  BY <1>3, <1>4 DEF ClaimComplete, OpenClaimAdmissible, KeepsSlots, NeverUnlimited, PoolsOf
<1> QED BY <1>1, <1>2, <1>5, LocalStep

\* The snapshot admits only what it finds admissible.
LEMMA BeginKeeps ==
    ASSUME IInv, TypeOK', NEW s \in Steps, txn_begin(s)
    PROVE  IInv'
<1>0. TypeOK /\ ClaimComplete(s)
  BY DEF IInv
<1>1. /\ Goto(s, "commit") /\ UNCHANGED <<row, ttl, limit, age, todo, limited, stale>>
      /\ pc[s] = "check" /\ todo[s] = {}
      /\ admit' \in {admit, admit \cup {s}}
  BY DEF txn_begin, Checked
<1>2. \A t \in Steps \ {s} : Frame(t)
  BY <1>0, <1>1 DEF Frame, TypeOK
<1>3. pc'[s] = "commit"
  BY <1>0, <1>1 DEF TypeOK
<1>4. ClaimComplete(s)' /\ KeepsSlots(s)'
  BY <1>0, <1>1, <1>3 DEF ClaimComplete, KeepsSlots, Holding, NeverUnlimited, PoolsOf
<1>5. OpenClaimAdmissible(s)'
  <2>1. s \in admit' => \A p \in limited[s] : ~ PoolBlocks(s, p, age[s])
    <3>1. s \notin admit
      BY <1>0, <1>1 DEF ClaimComplete
    <3> QED BY <3>1 DEF txn_begin
  <2>2. \A p \in limited[s] : PoolBlocks(s, p, age[s])' <=> PoolBlocks(s, p, age[s])
    BY <1>1 DEF PoolBlocks, OthersLive, Live, asset_conflict, query_pool_usage, Units
  <2> QED BY <1>1, <2>1, <2>2 DEF OpenClaimAdmissible, NeverUnlimited
<1> QED BY <1>1, <1>2, <1>4, <1>5, LocalStep

\* Where a claim may not block, the live rows it meets do not conflict with it.
LEMMA AdmittedCompatible ==
    ASSUME TypeOK, NEW s \in Steps, NEW t \in Steps \ {s}, NEW p \in AssetPools,
           ~ PoolBlocks(s, p, age[s]), Live(t, p, 0)
    PROVE  ~ asset_conflict(s, t) /\ ~ asset_conflict(t, s)
<1>1. p \in Pools
  BY ConstantsAssumption
<1>2. ttl[t][p] \in Int /\ age[s] \in Nat
  BY <1>1, ConstantsAssumption DEF TypeOK
<1>3. t \in OthersLive(s, p, age[s])
  BY <1>2 DEF OthersLive, Live
<1>4. ~ asset_conflict(s, t)
  BY <1>3 DEF PoolBlocks
<1> QED BY <1>4 DEF asset_conflict

\* The commit of an admitted claim: the other open claims on its pools are
\* overtaken, and its rows agree with the live ones.
LEMMA CommitKeeps ==
    ASSUME TimelyRenewal, IInv, TypeOK', NEW s \in Steps, txn_commit(s)
    PROVE  IInv'
<1>0. TypeOK /\ ClaimComplete(s) /\ OpenClaimAdmissible(s)
  BY DEF IInv
<1>1. /\ pc[s] = "commit" /\ s \in admit /\ s \notin stale
      /\ row' = row \cup ({s} \X limited[s])
      /\ pc' = [pc EXCEPT ![s] = "claimed"]
      /\ age' = [age EXCEPT ![s] = 0]
      /\ limited' = [limited EXCEPT ![s] = {}]
      /\ admit' = admit \ {s}
      /\ todo' = todo /\ limit' = limit
      /\ stale' = (stale \cup Overtaken(limited[s], {s} \X limited[s])) \ {s}
  BY DEF txn_commit, claim_version_bumps
<1>2. /\ \A p \in Pools : p \in limited[s] => ttl'[s][p] = Lease - age[s]
      /\ \A p \in Pools : p \notin limited[s] => ttl'[s][p] = ttl[s][p]
      /\ \A t \in Steps \ {s} : ttl'[t] = ttl[t]
  BY <1>0 DEF txn_commit, TypeOK
<1>3. age[s] \in Nat /\ Lease \in Nat /\ age[s] < Lease
  BY <1>0, ConstantsAssumption DEF TypeOK
<1>4. /\ pc'[s] = "claimed" /\ limited'[s] = {}
      /\ \A t \in Steps \ {s} : /\ pc'[t] = pc[t] /\ limited'[t] = limited[t]
                                /\ age'[t] = age[t]
  BY <1>0, <1>1 DEF TypeOK
<1>5. limited[s] \subseteq PoolsOf(s) /\ limited[s] \subseteq Pools /\ AssetPools \subseteq Pools
  BY <1>0, ConstantsAssumption DEF ClaimComplete, TypeOK
<1>6. RowsAreClaimed'
  BY <1>1, <1>5 DEF IInv, RowsAreClaimed, PoolsOf
<1>7. ClaimComplete(s)' /\ OpenClaimAdmissible(s)'
  BY <1>0, <1>1, <1>4 DEF ClaimComplete, OpenClaimAdmissible, PoolsOf
<1>8. KeepsSlots(s)'
  <2>1. ASSUME NEW p \in PoolsOf(s), NeverUnlimited(p)
        PROVE  Live(s, p, 0)'
    <3>1. p \in limited[s]
      BY <1>0, <1>1, <2>1 DEF ClaimComplete
    <3>2. <<s, p>> \in row' /\ ttl'[s][p] = Lease - age[s]
      BY <1>1, <1>2, <1>5, <3>1
    <3> QED BY <1>3, <3>2 DEF Live
  <2> QED BY <2>1 DEF KeepsSlots, NeverUnlimited, PoolsOf
<1>9. ASSUME NEW t \in Steps \ {s}
      PROVE  ClaimComplete(t)' /\ OpenClaimAdmissible(t)' /\ KeepsSlots(t)'
  <2>1. KeepsSlots(t)'
    <3>1. KeepsSlots(t)
      BY DEF IInv, HolderKeepsSlots
    <3> QED BY <1>1, <1>2, <1>4, <3>1
            DEF KeepsSlots, Holding, NeverUnlimited, PoolsOf, Live
  <2>2. ASSUME pc[t] = "commit", t \notin stale', NEW p \in limited[t]
        PROVE  OthersLive(t, p, age[t])' \subseteq OthersLive(t, p, age[t])
    <3>1. p \notin limited[s]
      BY <1>1, <2>2 DEF Overtaken, claim_version_bumps
    <3>2. p \in Pools
      BY <1>0 DEF TypeOK
    <3>3. \A u \in Steps : /\ <<u, p>> \in row' <=> <<u, p>> \in row
                           /\ ttl'[u][p] = ttl[u][p]
      BY <1>1, <1>2, <3>1, <3>2
    <3> QED BY <1>4, <3>3 DEF OthersLive, Live
  <2>3. /\ t \in stale => t \in stale'
        /\ t \in stale' => t \in stale \/ pc[t] = "commit"
        /\ t \in admit' <=> t \in admit
        /\ pc'[t] = pc[t] /\ todo'[t] = todo[t] /\ limited'[t] = limited[t]
    BY <1>1, <1>4 DEF Overtaken
  <2> QED BY <1>1, <2>1, <2>2, <2>3, OthersKeep
<1>10. LiveRowsCompatible'
  <2>1. ASSUME NEW t \in Steps \ {s}, NEW p \in AssetPools, Live(s, p, 0)', Live(t, p, 0)'
        PROVE  ~ asset_conflict(s, t) /\ ~ asset_conflict(t, s)
    <3>1. Live(t, p, 0)
      BY <1>1, <1>2, <2>1 DEF Live
    <3>2. CASE p \in limited[s]
      <4>1. ~ PoolBlocks(s, p, age[s])
        BY <1>0, <1>1, <3>2 DEF OpenClaimAdmissible, NeverUnlimited
      <4> QED BY <1>0, <3>1, <4>1, AdmittedCompatible
    <3>3. CASE p \notin limited[s]
      <4>1. Live(s, p, 0)
        BY <1>1, <1>2, <1>5, <2>1, <3>3 DEF Live
      <4> QED BY <3>1, <4>1 DEF IInv, LiveRowsCompatible
    <3> QED BY <3>2, <3>3
  <2>2. ASSUME NEW t \in Steps \ {s}, NEW u \in Steps \ {s}, t # u, NEW p \in AssetPools,
               Live(t, p, 0)', Live(u, p, 0)'
        PROVE  ~ asset_conflict(t, u)
    <3>1. Live(t, p, 0) /\ Live(u, p, 0)
      BY <1>1, <1>2, <2>2 DEF Live
    <3> QED BY <2>2, <3>1 DEF IInv, LiveRowsCompatible
  <2> QED BY <2>1, <2>2 DEF LiveRowsCompatible, asset_conflict
<1> QED BY <1>6, <1>7, <1>8, <1>9, <1>10 DEF IInv, HolderKeepsSlots

\* Operations that only take rows away, and none of a holder's live ones.
LEMMA ShrinkKeeps ==
    ASSUME IInv, TypeOK', UNCHANGED <<limit, age, todo, limited, admit>>,
           \A t \in Steps : \/ pc'[t] = pc[t]
                            \/ /\ pc[t] \in {"releasing", "yielding"}
                               /\ pc'[t] \in {"over", "backoff"},
           row' \subseteq row,
           \A t \in Steps, p \in Pools : <<t, p>> \in row' => ttl'[t][p] = ttl[t][p],
           \A t \in Steps, p \in Pools :
              Holding(t) /\ Live(t, p, 0) => <<t, p>> \in row',
           stale \subseteq stale',
           \A t \in stale' \ stale : pc[t] = "commit"
    PROVE  IInv'
<1>0. TypeOK
  BY DEF IInv
<1>1. \A t \in Steps, p \in Pools, a \in Int : Live(t, p, a)' => Live(t, p, a)
  BY DEF Live
<1>2. RowsAreClaimed'
  BY DEF IInv, RowsAreClaimed, PoolsOf
<1>3. LiveRowsCompatible'
  <2>1. AssetPools \subseteq Pools
    BY ConstantsAssumption
  <2> QED BY <1>1, <2>1 DEF IInv, LiveRowsCompatible, asset_conflict
<1>4. ASSUME NEW t \in Steps
      PROVE  ClaimComplete(t)' /\ OpenClaimAdmissible(t)' /\ KeepsSlots(t)'
  <2>1. KeepsSlots(t)'
    <3>1. KeepsSlots(t)
      BY DEF IInv, HolderKeepsSlots
    <3> QED BY <3>1 DEF KeepsSlots, Holding, NeverUnlimited, PoolsOf, Live
  <2>2. ASSUME NEW p \in limited[t]
        PROVE  OthersLive(t, p, age[t])' \subseteq OthersLive(t, p, age[t])
    <3>1. p \in Pools
      BY <1>0 DEF TypeOK
    <3> QED BY <3>1 DEF OthersLive, Live
  <2>3. /\ t \in stale => t \in stale'
        /\ t \in stale' => t \in stale \/ pc[t] = "commit"
    OBVIOUS
  <2>4. CASE pc'[t] = pc[t]
    BY <2>1, <2>2, <2>3, <2>4, OthersKeep
  <2>5. CASE pc[t] \in {"releasing", "yielding"} /\ pc'[t] \in {"over", "backoff"}
    <3>1. t \notin admit' \cup stale'
      BY <2>3, <2>5 DEF IInv, ClaimComplete
    <3> QED BY <2>5, <3>1, IdleKeeps
  <2> QED BY <2>4, <2>5
<1> QED BY <1>2, <1>3, <1>4 DEF IInv, HolderKeepsSlots

\* The rows of a holder on an always-limited pool are live.
LEMMA RenewedAreLive ==
    ASSUME IInv, NEW s \in Steps, Holding(s)
    PROVE  \A p \in Pools : NeverUnlimited(p) /\ <<s, p>> \in row => ttl[s][p] > 0
<1> SUFFICES ASSUME NEW p \in Pools, NeverUnlimited(p), <<s, p>> \in row
             PROVE  ttl[s][p] > 0
  OBVIOUS
<1>1. ttl[s][p] \in Int
  <2>1. MaxAge \in Nat /\ Lease \in Nat
    BY ConstantsAssumption
  <2> QED BY <2>1 DEF IInv, TypeOK
<1>2. p \in PoolsOf(s)
  BY DEF IInv, RowsAreClaimed
<1>3. ttl[s][p] + 0 > 0
  BY <1>2 DEF IInv, HolderKeepsSlots, KeepsSlots, Live
<1> QED BY <1>1, <1>3

\* A renewal in time extends rows that are live anyway.
LEMMA RenewKeeps ==
    ASSUME TimelyRenewal, IInv, TypeOK', NEW s \in Steps, renew_slot_lease(s)
    PROVE  IInv'
<1>0. TypeOK /\ KeepsSlots(s) /\ Lease > 0 /\ Lease \in Nat /\ AssetPools \subseteq Pools
  BY ConstantsAssumption DEF IInv, HolderKeepsSlots
<1>1. /\ Holding(s) /\ UNCHANGED <<row, limit, pc, age, todo, limited, admit, stale>>
      /\ \A p \in Pools : <<s, p>> \in row => ttl'[s][p] = Lease
      /\ \A p \in Pools : <<s, p>> \notin row => ttl'[s][p] = ttl[s][p]
      /\ \A t \in Steps \ {s} : ttl'[t] = ttl[t]
  BY <1>0 DEF renew_slot_lease, TypeOK
<1>2. \A p \in Pools : NeverUnlimited(p) /\ <<s, p>> \in row => ttl[s][p] > 0
  BY <1>0, <1>1, RenewedAreLive
<1>3. ASSUME NEW u \in Steps, NEW p \in Pools, NeverUnlimited(p), NEW a \in Nat,
             Live(u, p, a)'
      PROVE  Live(u, p, a)
  <2>1. ttl[u][p] \in Int
    BY <1>0, ConstantsAssumption DEF TypeOK
  <2>2. CASE u = s
    BY <1>1, <1>2, <1>3, <2>1, <2>2 DEF Live
  <2>3. CASE u # s
    BY <1>1, <1>3, <2>3 DEF Live
  <2> QED BY <2>2, <2>3
<1>4. RowsAreClaimed'
  BY <1>1 DEF IInv, RowsAreClaimed, PoolsOf
<1>5. LiveRowsCompatible'
  <2>1. \A p \in AssetPools : NeverUnlimited(p)
    BY DEF NeverUnlimited
  <2>2. \A u \in Steps, p \in AssetPools : Live(u, p, 0)' => Live(u, p, 0)
    BY <1>0, <1>3, <2>1
  <2> QED BY <2>2 DEF IInv, LiveRowsCompatible, asset_conflict
<1>6. ASSUME NEW t \in Steps
      PROVE  ClaimComplete(t)' /\ OpenClaimAdmissible(t)' /\ KeepsSlots(t)'
  <2>1. KeepsSlots(t)'
    <3>1. KeepsSlots(t)
      BY DEF IInv, HolderKeepsSlots
    <3>2. \A p \in Pools : Live(t, p, 0) => Live(t, p, 0)'
      BY <1>0, <1>1 DEF Live
    <3> QED BY <1>1, <3>1, <3>2 DEF KeepsSlots, Holding, NeverUnlimited, PoolsOf
  <2>2. ASSUME NEW p \in limited[t], NeverUnlimited(p)
        PROVE  OthersLive(t, p, age[t])' \subseteq OthersLive(t, p, age[t])
    <3>1. p \in Pools /\ age[t] \in Nat /\ age' = age
      BY <1>0, <1>1, ConstantsAssumption DEF TypeOK
    <3>2. \A u \in Steps : Live(u, p, age[t])' => Live(u, p, age[t])
      BY <1>3, <2>2, <3>1
    <3> QED BY <3>2 DEF OthersLive
  <2> QED BY <1>1, <2>1, <2>2, OthersKeep
<1> QED BY <1>4, <1>5, <1>6 DEF IInv, HolderKeepsSlots

\* A changed limit overtakes every open claim on its pool.
LEMMA LimitKeeps ==
    ASSUME IInv, TypeOK', NEW q \in Pools, NEW l \in Limits[q], set_pool_limit(q, l)
    PROVE  IInv'
<1>0. TypeOK
  BY DEF IInv
<1>1. /\ UNCHANGED <<row, ttl, pc, age, todo, limited, admit>>
      /\ limit' = [limit EXCEPT ![q] = l]
      /\ stale' = stale \cup Overtaken({q}, {})
  BY DEF set_pool_limit
<1>2. RowsAreClaimed' /\ LiveRowsCompatible'
  BY <1>1 DEF IInv, RowsAreClaimed, LiveRowsCompatible, PoolsOf, Live, asset_conflict
<1>3. ASSUME NEW t \in Steps
      PROVE  ClaimComplete(t)' /\ OpenClaimAdmissible(t)' /\ KeepsSlots(t)'
  <2>1. KeepsSlots(t)'
    BY <1>1 DEF IInv, HolderKeepsSlots, KeepsSlots, Holding, NeverUnlimited, PoolsOf, Live
  <2>2. ASSUME pc[t] = "commit", t \notin stale', NEW p \in limited[t]
        PROVE  /\ OthersLive(t, p, age[t])' \subseteq OthersLive(t, p, age[t])
               /\ limit'[p] = limit[p]
    <3>1. p # q /\ p \in Pools
      BY <1>0, <1>1, <2>2 DEF Overtaken, claim_version_bumps, TypeOK
    <3>2. limit'[p] = limit[p]
      BY <1>0, <1>1, <3>1 DEF TypeOK, LimitMaps
    <3> QED BY <1>1, <3>2 DEF OthersLive, Live
  <2>3. t \in stale' => t \in stale \/ pc[t] = "commit"
    BY <1>1 DEF Overtaken
  <2> QED BY <1>1, <2>1, <2>2, <2>3, OthersKeep
<1> QED BY <1>2, <1>3 DEF IInv, HolderKeepsSlots

\* As time passes an open attempt's age makes up for what the rows lose.
LEMMA TickKeeps ==
    ASSUME TimelyRenewal, IInv, TypeOK', Tick
    PROVE  IInv'
<1>0. TypeOK /\ MaxAge \in Nat /\ Lease \in Nat /\ AssetPools \subseteq Pools
  BY ConstantsAssumption DEF IInv
<1>1. /\ UNCHANGED <<row, pc, limit, todo, limited, admit, stale>>
      /\ \A t \in Steps : InAttempt(t) => age'[t] = age[t] + 1 /\ age[t] < MaxAge
      /\ \A t \in Steps, p \in Pools : ttl[t][p] \in -MaxAge .. Lease
      /\ \A t \in Steps : age[t] \in 0 .. MaxAge
  BY <1>0 DEF Tick, TypeOK
<1>2. \A t \in Steps, p \in Pools :
         <<t, p>> \in row => ttl'[t][p] = IF ttl[t][p] > -MaxAge THEN ttl[t][p] - 1 ELSE ttl[t][p]
  BY DEF Tick
<1>3. \A t \in Steps, p \in Pools : Live(t, p, 0)' => Live(t, p, 0)
  BY <1>0, <1>1, <1>2 DEF Live
<1>4. RowsAreClaimed' /\ LiveRowsCompatible'
  BY <1>0, <1>1, <1>3 DEF IInv, RowsAreClaimed, LiveRowsCompatible, PoolsOf, asset_conflict
<1>5. ASSUME NEW t \in Steps
      PROVE  ClaimComplete(t)' /\ OpenClaimAdmissible(t)' /\ KeepsSlots(t)'
  <2>1. KeepsSlots(t)'
    <3>1. KeepsSlots(t)
      BY DEF IInv, HolderKeepsSlots
    <3>2. ASSUME Holding(t), NEW p \in Pools, Live(t, p, 0)
          PROVE  Live(t, p, 0)'
      <4>1. ttl[t][p] > 1 /\ <<t, p>> \in row
        BY <3>2 DEF Tick, Live
      <4>2. ttl'[t][p] = ttl[t][p] - 1
        BY <1>0, <1>1, <1>2, <4>1
      <4> QED BY <1>1, <4>1, <4>2 DEF Live
    <3> QED BY <1>1, <3>1, <3>2 DEF KeepsSlots, Holding, NeverUnlimited, PoolsOf
  <2>2. ASSUME pc[t] = "commit", NEW p \in limited[t]
        PROVE  OthersLive(t, p, age[t])' \subseteq OthersLive(t, p, age[t])
    <3>1. p \in Pools /\ age'[t] = age[t] + 1 /\ age[t] < MaxAge
      BY <1>0, <1>1, <2>2 DEF TypeOK, InAttempt
    <3>2. ASSUME NEW u \in Steps, <<u, p>> \in row, ttl'[u][p] + age'[t] > 0
          PROVE  ttl[u][p] + age[t] > 0
      BY <1>0, <1>1, <1>2, <3>1, <3>2
    <3> QED BY <1>1, <3>2 DEF OthersLive, Live
  <2> QED BY <1>1, <2>1, <2>2, OthersKeep
<1> QED BY <1>4, <1>5 DEF IInv, HolderKeepsSlots

-----------------------------------------------------------------------------
(* The theorems.                                                           *)

\* Every step of the system keeps the inductive invariant.
LEMMA InvStep ==
    ASSUME TimelyRenewal, IInv, [Next]_vars
    PROVE  IInv'
<1>0. TypeOK' /\ TypeOK
  BY TypeStep DEF IInv
<1>1. ASSUME NEW s \in Steps, StepNext(s)
      PROVE  IInv'
  <2>1. CASE acquire(s) \/ poll(s)
    <3>1. Goto(s, "check") /\ Attempt(s, PoolsOf(s)) /\ UNCHANGED <<row, ttl, limit>>
      BY <2>1 DEF acquire, poll
    <3> QED BY <1>0, <3>1, AttemptKeeps
  <2>2. ASSUME NEW p \in Pools, precheck(s, p)
        PROVE  IInv'
    BY <1>0, <2>2, PrecheckKeeps
  <2>3. CASE claim_unlimited(s)
    BY <1>0, <2>3, UnlimitedKeeps
  <2>4. CASE claim_pending(s)
    <3>1. Attempt(s, {}) /\ UNCHANGED <<row, ttl, limit>>
      BY <2>4 DEF claim_pending
    <3>2. Goto(s, "over") \/ Goto(s, "polled")
      BY <2>4 DEF claim_pending
    <3> QED BY <1>0, <3>1, <3>2, EndKeeps
  <2>5. CASE poll_cancelled(s)
    <3>1. CASE End(s, "over") /\ UNCHANGED <<db, tries>>
      <4>1. Goto(s, "over") /\ Attempt(s, {}) /\ UNCHANGED <<row, ttl, limit>>
        BY <3>1
      <4> QED BY <1>0, <4>1, EndKeeps
    <3>2. CASE Goto(s, "wait") /\ UNCHANGED attempt /\ UNCHANGED <<db, tries>>
      <4>1. pc[s] # "commit" /\ UNCHANGED <<row, ttl, limit>>
        BY <2>5, <3>2 DEF poll_cancelled
      <4> QED BY <1>0, <3>2, <4>1, MoveKeeps DEF PCs
    <3> QED BY <2>5, <3>1, <3>2 DEF poll_cancelled
  <2>6. CASE txn_begin(s)
    BY <1>0, <2>6, BeginKeeps
  <2>7. CASE txn_commit(s)
    BY <1>0, <2>7, CommitKeeps
  <2>8. CASE txn_contended(s)
    <3>1. UNCHANGED <<row, ttl, limit>>
      BY <2>8 DEF txn_contended
    <3>2. CASE Goto(s, "check") /\ Attempt(s, PoolsOf(s))
      BY <1>0, <3>1, <3>2, AttemptKeeps
    <3>3. CASE Goto(s, "over") /\ Attempt(s, {})
      BY <1>0, <3>1, <3>3, EndKeeps
    <3> QED BY <2>8, <3>2, <3>3 DEF txn_contended
  <2>9. CASE start_attempt(s) \/ work_done(s) \/ work_retry(s) \/ backoff_done(s) \/ resume(s)
    <3>1. /\ pc[s] # "commit" /\ UNCHANGED attempt /\ UNCHANGED <<row, ttl, limit>>
      BY <2>9 DEF start_attempt, work_done, work_retry, backoff_done, resume
    <3>2. PICK label \in PCs \ {"check", "commit"} :
             Goto(s, label) /\ (label \in {"claimed", "work"} => Holding(s))
      BY <2>9 DEF start_attempt, work_done, work_retry, backoff_done, resume, PCs, Holding
    <3> QED BY <1>0, <3>1, <3>2, MoveKeeps
  <2>10. CASE release(s)
    <3>1. /\ UNCHANGED <<limit, age, todo, limited, admit, stale>>
          /\ pc[s] \in {"releasing", "yielding"}
          /\ row' \in {row, row \ ({s} \X Pools)}
          /\ \A t \in Steps \ {s} : pc'[t] = pc[t] /\ ttl'[t] = ttl[t]
      BY <1>0, <2>10 DEF release, TypeOK
    <3>2. pc'[s] \in {"over", "backoff"}
      BY <1>0, <2>10 DEF release, TypeOK
    <3>3. \A t \in Steps, p \in Pools : <<t, p>> \in row' => ttl'[t][p] = ttl[t][p]
      BY <2>10, <3>1 DEF release
    <3>4. \A t \in Steps, p \in Pools : Holding(t) /\ Live(t, p, 0) => <<t, p>> \in row'
      BY <3>1 DEF Holding, Live
    <3> QED BY <1>0, <3>1, <3>2, <3>3, <3>4, ShrinkKeeps
  <2> QED BY <1>1, <2>1, <2>2, <2>3, <2>4, <2>5, <2>6, <2>7, <2>8, <2>9, <2>10 DEF StepNext
<1>2. ASSUME NEW s \in Steps, renew_slot_lease(s)
      PROVE  IInv'
  BY <1>0, <1>2, RenewKeeps
<1>3. ASSUME NEW s \in Steps, crash(s)
      PROVE  IInv'
  <2>1. Goto(s, "crashed") /\ Attempt(s, {}) /\ UNCHANGED <<row, ttl, limit>>
    BY <1>3 DEF crash
  <2> QED BY <1>0, <2>1, EndKeeps
<1>4. ASSUME NEW r \in Runs, free_concurrency_slots_for_run(r)
      PROVE  IInv'
  <2>1. /\ UNCHANGED <<pc, limit, age, todo, limited, admit, stale>>
        /\ row' = row \ (StepsOf(r) \X Pools)
        /\ \A t \in StepsOf(r) : ~ Holding(t)
        /\ \A t \in Steps \ StepsOf(r) : ttl'[t] = ttl[t]
    BY <1>4 DEF free_concurrency_slots_for_run, RunFinished, Holding
  <2>2. \A t \in Steps, p \in Pools : <<t, p>> \in row' => ttl'[t][p] = ttl[t][p]
    BY <2>1
  <2>3. \A t \in Steps, p \in Pools : Holding(t) /\ Live(t, p, 0) => <<t, p>> \in row'
    BY <2>1 DEF Live
  <2> QED BY <1>0, <2>1, <2>2, <2>3, ShrinkKeeps
<1>5. ASSUME NEW r \in CancelRuns, request_cancellation(r)
      PROVE  IInv'
  <2>1. /\ UNCHANGED <<pc, limit, age, todo, limited, admit, stale, row, ttl>>
    BY <1>5 DEF request_cancellation
  <2> QED BY <1>0, <2>1, ShrinkKeeps DEF Live
<1>6. ASSUME NEW p \in Pools, NEW l \in Limits[p], set_pool_limit(p, l)
      PROVE  IInv'
  BY <1>0, <1>6, LimitKeeps
<1>7. CASE free_expired_leases
  <2> DEFINE dead == {r \in row : ttl[r[1]][r[2]] <= 0}
  <2>1. /\ UNCHANGED <<pc, limit, age, todo, limited, admit>>
        /\ row' = row \ dead
        /\ stale' = stale \cup Overtaken({}, dead)
    BY <1>7 DEF free_expired_leases
  <2>2. \A t \in Steps, p \in Pools : <<t, p>> \in row' => ttl'[t][p] = ttl[t][p]
    BY <1>7 DEF free_expired_leases
  <2>3. \A t \in Steps, p \in Pools : Holding(t) /\ Live(t, p, 0) => <<t, p>> \in row'
    <3>1. \A t \in Steps, p \in Pools : ttl[t][p] \in Int
      <4>1. MaxAge \in Nat /\ Lease \in Nat
        BY ConstantsAssumption
      <4> QED BY <1>0, <4>1 DEF TypeOK
    <3> QED BY <2>1, <3>1 DEF Live
  <2>4. \A t \in stale' \ stale : pc[t] = "commit"
    BY <2>1 DEF Overtaken
  <2> HIDE DEF dead
  <2> QED BY <1>0, <2>1, <2>2, <2>3, <2>4, ShrinkKeeps
<1>8. CASE Tick
  BY <1>0, <1>8, TickKeeps
<1>9. CASE UNCHANGED vars
  <2>1. UNCHANGED <<pc, limit, age, todo, limited, admit, stale, row, ttl>>
    BY <1>9 DEF vars
  <2> QED BY <1>0, <2>1, ShrinkKeeps DEF Live
<1> QED BY <1>1, <1>2, <1>3, <1>4, <1>5, <1>6, <1>7, <1>8, <1>9 DEF Next

\* The inductive invariant, from timely renewal alone.
THEOREM InvariantHolds == TimelyRenewal => (Spec => []IInv)
<1> SUFFICES ASSUME TimelyRenewal PROVE Spec => []IInv
  OBVIOUS
<1>1. Init => IInv
  <2>1. ASSUME Init PROVE TypeOK
    BY <2>1, ConstantsAssumption DEF Init, TypeOK, PCs
  <2>2. ASSUME Init PROVE RowsAreClaimed /\ LiveRowsCompatible
    BY <2>2 DEF Init, RowsAreClaimed, LiveRowsCompatible, Live
  <2>3. ASSUME Init, NEW s \in Steps
        PROVE  ClaimComplete(s) /\ OpenClaimAdmissible(s) /\ KeepsSlots(s)
    BY <2>3 DEF Init, ClaimComplete, OpenClaimAdmissible, KeepsSlots, Holding
  <2> QED BY <2>1, <2>2, <2>3 DEF IInv, HolderKeepsSlots
<1>2. IInv /\ [Next]_vars => IInv'
  BY InvStep
<1> QED BY <1>1, <1>2, PTL DEF Spec

\* Nobody takes a holder's slots away (renew_slot_lease, free_expired_leases,
\* free_concurrency_slots_for_run, the takeover of a row by a retry).
THEOREM HolderKeepsSlotsHolds == TimelyRenewal => (Spec => []HolderKeepsSlots)
<1> SUFFICES ASSUME TimelyRenewal PROVE Spec => []HolderKeepsSlots
  OBVIOUS
<1>1. IInv => HolderKeepsSlots
  BY DEF IInv
<1> QED BY <1>1, InvariantHolds, PTL

\* Steps whose scopes conflict on an asset are never at work together
\* (asset_conflict_predicate inside build_claim_transaction).
THEOREM AssetExclusionHolds == TimelyRenewal => (Spec => []AssetExclusion)
<1> SUFFICES ASSUME TimelyRenewal PROVE Spec => []AssetExclusion
  OBVIOUS
<1>1. IInv => AssetExclusion
  <2> SUFFICES ASSUME IInv, NEW s \in Steps, NEW t \in Steps, s # t,
                      pc[s] = "work", pc[t] = "work",
                      NEW p \in PoolsOf(s) \cap PoolsOf(t) \cap AssetPools
               PROVE  ~ asset_conflict(s, t)
    BY DEF AssetExclusion
  <2>1. Live(s, p, 0) /\ Live(t, p, 0)
    BY DEF IInv, HolderKeepsSlots, KeepsSlots, Holding, NeverUnlimited
  <2> QED BY <2>1 DEF IInv, LiveRowsCompatible
<1> QED BY <1>1, InvariantHolds, PTL

\* Outside the commit of a claim on pool p no live row of p appears.
LEMMA LiveOnlyByCommit ==
    ASSUME TimelyRenewal, IInv, [Next]_vars, NEW p \in Pools, NeverUnlimited(p),
           \A s \in Steps : txn_commit(s) => p \notin limited[s]
    PROVE  \A u \in Steps : Live(u, p, 0)' => Live(u, p, 0)
<1>0. /\ TypeOK /\ \A u \in Steps : ttl[u][p] \in -MaxAge .. Lease
      /\ MaxAge \in Nat /\ Lease \in Nat
  BY ConstantsAssumption DEF IInv, TypeOK
<1>1. CASE UNCHANGED <<row, ttl>>
  BY <1>1 DEF Live
<1>2. ASSUME NEW s \in Steps, txn_commit(s)
      PROVE  \A u \in Steps : Live(u, p, 0)' => Live(u, p, 0)
  <2>1. /\ \A u \in Steps : <<u, p>> \in row' => <<u, p>> \in row
        /\ \A u \in Steps : ttl'[u][p] = ttl[u][p]
    BY <1>0, <1>2 DEF txn_commit, TypeOK
  <2> QED BY <2>1 DEF Live
<1>3. ASSUME NEW s \in Steps, release(s)
      PROVE  \A u \in Steps : Live(u, p, 0)' => Live(u, p, 0)
  BY <1>0, <1>3 DEF release, Live, TypeOK
<1>4. ASSUME NEW s \in Steps, renew_slot_lease(s)
      PROVE  \A u \in Steps : Live(u, p, 0)' => Live(u, p, 0)
  <2>1. row' = row /\ (<<s, p>> \in row => ttl[s][p] > 0)
    BY <1>4, RenewedAreLive DEF renew_slot_lease
  <2>2. \A u \in Steps \ {s} : ttl'[u] = ttl[u]
    BY <1>0, <1>4 DEF renew_slot_lease, TypeOK
  <2> QED BY <1>0, <2>1, <2>2 DEF Live
<1>5. ASSUME NEW r \in Runs, free_concurrency_slots_for_run(r)
      PROVE  \A u \in Steps : Live(u, p, 0)' => Live(u, p, 0)
  BY <1>0, <1>5 DEF free_concurrency_slots_for_run, Live
<1>6. CASE free_expired_leases
  BY <1>0, <1>6 DEF free_expired_leases, Live
<1>7. CASE Tick
  BY <1>0, <1>7 DEF Tick, Live
<1>8. ASSUME NEW s \in Steps, StepNext(s), ~ txn_commit(s), ~ release(s)
      PROVE  UNCHANGED <<row, ttl>>
  <2>1. ASSUME NEW q \in Pools, precheck(s, q)
        PROVE  UNCHANGED <<row, ttl>>
    BY <2>1 DEF precheck
  <2> QED BY <1>8, <2>1 DEF StepNext, acquire, claim_unlimited, claim_pending,
             poll_cancelled, poll, txn_begin, txn_contended, start_attempt,
             work_done, work_retry, backoff_done, resume
<1>9. ASSUME NEW s \in Steps, crash(s)
      PROVE  UNCHANGED <<row, ttl>>
  BY <1>9 DEF crash
<1>10. ASSUME NEW r \in CancelRuns, request_cancellation(r)
       PROVE  UNCHANGED <<row, ttl>>
  BY <1>10 DEF request_cancellation
<1>11. ASSUME NEW q \in Pools, NEW l \in Limits[q], set_pool_limit(q, l)
       PROVE  UNCHANGED <<row, ttl>>
  BY <1>11 DEF set_pool_limit
<1>12. CASE UNCHANGED vars
  BY <1>12, <1>1 DEF vars
<1> QED BY <1>1, <1>2, <1>3, <1>4, <1>5, <1>6, <1>7, <1>8, <1>9, <1>10, <1>11, <1>12
        DEF Next

\* The live slots of a counted pool grow only up to its limit.
THEOREM PoolCapacityHolds == TimelyRenewal => (Spec => PoolCapacity)
<1> SUFFICES ASSUME TimelyRenewal PROVE Spec => PoolCapacity
  OBVIOUS
<1> DEFINE Grows == \A p \in Pools \ AssetPools :
                      /\ NeverUnlimited(p)
                      /\ LiveUse(p)' > LiveUse(p)
                      => LiveUse(p)' <= limit'[p]
<1>1. ASSUME IInv, [Next]_vars
      PROVE  Grows
  <2> SUFFICES ASSUME NEW p \in Pools, p \notin AssetPools, NeverUnlimited(p),
                      LiveUse(p)' > LiveUse(p)
               PROVE  LiveUse(p)' <= limit'[p]
    OBVIOUS
  <2> DEFINE old == {u \in Steps : Live(u, p, 0)}
             new == {u \in Steps : Live(u, p, 0)'}
  <2>0. /\ LiveUse(p) = Cardinality(Units(old, p))
        /\ LiveUse(p)' = Cardinality(Units(new, p))
        /\ old \in SUBSET Steps /\ new \in SUBSET Steps
    BY DEF LiveUse, Units
  <2>1. ~ (new \subseteq old)
    <3>1. SUFFICES ASSUME new \subseteq old PROVE FALSE
      OBVIOUS
    <3> HIDE DEF old, new
    <3>2. /\ Cardinality(Units(new, p)) \in Nat /\ Cardinality(Units(old, p)) \in Nat
          /\ Cardinality(Units(new, p)) <= Cardinality(Units(old, p))
      BY <2>0, <3>1, UnitsMonotone
    <3> QED BY <2>0, <3>2
  <2>2. PICK s \in Steps : txn_commit(s) /\ p \in limited[s]
    BY <1>1, <2>1, LiveOnlyByCommit
  <2> DEFINE others == OthersLive(s, p, age[s])
  <2>3. ~ PoolBlocks(s, p, age[s])
    <3>1. OpenClaimAdmissible(s)
      BY <1>1 DEF IInv
    <3> QED BY <2>2, <3>1 DEF txn_commit, OpenClaimAdmissible
  <2>4. new \subseteq others \cup {s} /\ others \in SUBSET Steps
    <3>1. \A u \in Steps \ {s} : Live(u, p, 0)' => Live(u, p, 0)
      <4>1. \A u \in Steps \ {s} : ttl'[u] = ttl[u] /\ (<<u, p>> \in row' => <<u, p>> \in row)
        BY <1>1, <2>2 DEF txn_commit, IInv, TypeOK
      <4> QED BY <4>1 DEF Live
    <3>2. \A u \in Steps \ {s} : Live(u, p, 0) => Live(u, p, age[s])
      <4>1. age[s] \in Nat /\ \A u \in Steps : ttl[u][p] \in Int
        BY <1>1, ConstantsAssumption DEF IInv, TypeOK
      <4> QED BY <4>1 DEF Live
    <3> QED BY <3>1, <3>2 DEF OthersLive
  <2>5. Cardinality(Units(others, p)) + Slots[s][p] <= limit[p] /\ limit' = limit
    <3>1. ~ (Cardinality(Units(others, p)) + Slots[s][p] > limit[p])
      BY <2>3 DEF PoolBlocks, query_pool_usage
    <3>2. limit[p] \in Int /\ Slots[s][p] \in Int
      BY <1>1, ConstantsAssumption DEF IInv, TypeOK, LimitMaps
    <3>3. Cardinality(Units(others, p)) \in Nat
      BY <2>4, UnitsMonotone
    <3> QED BY <2>2, <3>1, <3>2, <3>3 DEF txn_commit
  <2> HIDE DEF others, new, old
  <2>6. others \cup {s} \in SUBSET Steps /\ new \in SUBSET (others \cup {s})
    BY <2>4
  <2>7. Cardinality(Units(new, p)) <= Cardinality(Units(others \cup {s}, p))
    BY <2>6, UnitsMonotone
  <2>8. Cardinality(Units(others \cup {s}, p)) <= Cardinality(Units(others, p)) + Slots[s][p]
    BY <2>4, UnitsAdd
  <2>9. /\ Cardinality(Units(new, p)) \in Int /\ Cardinality(Units(others \cup {s}, p)) \in Int
        /\ Cardinality(Units(others, p)) \in Int /\ Slots[s][p] \in Int /\ limit[p] \in Int
    <3>1. /\ Cardinality(Units(new, p)) \in Nat
          /\ Cardinality(Units(others \cup {s}, p)) \in Nat
      BY <2>6, UnitsMonotone
    <3>2. Cardinality(Units(others, p)) \in Nat
      BY <2>4, UnitsMonotone
    <3>3. limit[p] \in Int /\ Slots[s][p] \in Int
      BY <1>1, ConstantsAssumption DEF IInv, TypeOK, LimitMaps
    <3> QED BY <3>1, <3>2, <3>3
  <2> QED BY <2>0, <2>5, <2>7, <2>8, <2>9
<1>2. IInv /\ [Next]_vars => [Grows]_vars
  BY <1>1
<1>3. PoolCapacity <=> [][Grows]_vars
  BY PTL DEF PoolCapacity
<1> HIDE DEF Grows
<1> QED BY <1>2, <1>3, InvariantHolds, PTL DEF Spec

-----------------------------------------------------------------------------
(* Holders and the list of waiting steps, with or without timely renewal.  *)

\* Every claim writes a slot row, so that its transaction is run: the step has
\* a pool of an asset, or a pool whose limit nobody lifts.
EveryClaimCounted == \A s \in Steps : \E p \in PoolsOf(s) : NeverUnlimited(p)

\* NoHolderPending is not inductive by itself: a claim that drops every pool
\* as unlimited holds without ever deleting its pending_steps row, and only
\* ClaimComplete shows that this claim drops none.
PendingInv ==
    /\ TypeOK
    /\ \A s \in Steps : ClaimComplete(s)
    /\ NoHolderPending

\* A step that nobody moved, or only overtook, keeps its part.
LEMMA PendingFrame ==
    ASSUME PendingInv, NEW t \in Steps,
           pc'[t] = pc[t], todo'[t] = todo[t], limited'[t] = limited[t],
           t \in admit' => t \in admit,
           t \in stale' => t \in stale \/ pc[t] = "commit",
           t \in pending' => t \in pending
    PROVE  ClaimComplete(t)' /\ (Holding(t)' => t \notin pending')
<1>1. ClaimComplete(t) /\ (Holding(t) => t \notin pending)
  BY DEF PendingInv, NoHolderPending
<1>2. ClaimComplete(t)'
  BY <1>1 DEF ClaimComplete, NeverUnlimited, PoolsOf
<1> QED BY <1>1, <1>2 DEF Holding

\* A step of the system that moves one step s of a run.
LEMMA PendingLocal ==
    ASSUME PendingInv, TypeOK', NEW s \in Steps,
           \A t \in Steps \ {s} :
              /\ pc'[t] = pc[t] /\ todo'[t] = todo[t] /\ limited'[t] = limited[t]
              /\ t \in admit' => t \in admit
              /\ t \in stale' => t \in stale \/ pc[t] = "commit"
              /\ t \in pending' => t \in pending,
           ClaimComplete(s)', Holding(s)' => s \notin pending'
    PROVE  PendingInv'
<1>1. ASSUME NEW t \in Steps
      PROVE  ClaimComplete(t)' /\ (Holding(t)' => t \notin pending')
  <2>1. CASE t = s
    BY <2>1
  <2>2. CASE t # s
    BY <2>2, PendingFrame
  <2> QED BY <2>1, <2>2
<1> QED BY <1>1 DEF PendingInv, NoHolderPending

\* A claim begins, ends or fails: it holds nothing, and other steps are left
\* alone.
LEMMA PendingAttempt ==
    ASSUME PendingInv, TypeOK', NEW s \in Steps,
           \/ Goto(s, "check") /\ Attempt(s, PoolsOf(s))
           \/ \E label \in {"over", "crashed", "polled"} :
                 Goto(s, label) /\ Attempt(s, {}),
           pending' \subseteq pending \cup {s}
    PROVE  PendingInv'
<1>0. TypeOK
  BY DEF PendingInv
<1>1. \A t \in Steps \ {s} :
         /\ pc'[t] = pc[t] /\ todo'[t] = todo[t] /\ limited'[t] = limited[t]
         /\ t \in admit' => t \in admit
         /\ t \in stale' => t \in stale \/ pc[t] = "commit"
         /\ t \in pending' => t \in pending
  BY <1>0 DEF TypeOK
<1>2. /\ pc'[s] \in {"check", "over", "crashed", "polled"}
      /\ todo'[s] \in {{}, PoolsOf(s)} /\ limited'[s] = {}
      /\ s \notin admit' \cup stale'
      /\ pc'[s] = "check" => todo'[s] = PoolsOf(s)
  BY <1>0 DEF TypeOK
<1>3. ClaimComplete(s)' /\ ~ Holding(s)'
  BY <1>2 DEF ClaimComplete, Holding, PoolsOf
<1> QED BY <1>1, <1>3, PendingLocal

\* A move of pc outside the claim, which gains no guard.
LEMMA PendingMove ==
    ASSUME PendingInv, TypeOK', NEW s \in Steps, NEW label \in PCs \ {"check", "commit"},
           pc[s] # "commit", label \in {"claimed", "work"} => Holding(s),
           Goto(s, label), UNCHANGED attempt, pending' \subseteq pending
    PROVE  PendingInv'
<1>0. TypeOK /\ ClaimComplete(s) /\ (Holding(s) => s \notin pending)
  BY DEF PendingInv, NoHolderPending
<1>1. \A t \in Steps \ {s} :
         /\ pc'[t] = pc[t] /\ todo'[t] = todo[t] /\ limited'[t] = limited[t]
         /\ t \in admit' => t \in admit
         /\ t \in stale' => t \in stale \/ pc[t] = "commit"
         /\ t \in pending' => t \in pending
  BY <1>0 DEF TypeOK
<1>2. /\ pc'[s] = label /\ todo'[s] = todo[s] /\ limited'[s] = limited[s]
      /\ s \notin admit' \cup stale'
  BY <1>0 DEF TypeOK, ClaimComplete
<1>3. ClaimComplete(s)' /\ (Holding(s)' => s \notin pending')
  BY <1>0, <1>2 DEF ClaimComplete, Holding, PoolsOf
<1> QED BY <1>1, <1>3, PendingLocal

\* Steps of other actors, which may only overtake a claim and drop pending rows.
LEMMA PendingOthers ==
    ASSUME PendingInv, TypeOK', UNCHANGED <<pc, todo, limited, admit>>,
           \A t \in stale' \ stale : pc[t] = "commit", pending' \subseteq pending
    PROVE  PendingInv'
<1>1. ASSUME NEW t \in Steps
      PROVE  ClaimComplete(t)' /\ (Holding(t)' => t \notin pending')
  BY PendingFrame
<1> QED BY <1>1 DEF PendingInv, NoHolderPending

\* The pre-check of one pool.
LEMMA PendingPrecheck ==
    ASSUME PendingInv, TypeOK', NEW s \in Steps, NEW p \in Pools, precheck(s, p)
    PROVE  PendingInv'
<1>0. TypeOK /\ ClaimComplete(s)
  BY DEF PendingInv
<1>1. CASE p \notin configured
  <2>1. Goto(s, "over") /\ Attempt(s, {}) /\ pending' = pending
    BY <1>1 DEF precheck
  <2> QED BY <2>1, PendingAttempt
<1>2. CASE p \in configured
  <2>1. /\ todo' = [todo EXCEPT ![s] = @ \ {p}]
        /\ UNCHANGED <<pc, admit, stale, pending>>
        /\ pc[s] = "check" /\ p \in todo[s]
    BY <1>2 DEF precheck
  <2>2. PICK L \in {limited[s], limited[s] \cup {p}} :
           /\ limited' = [limited EXCEPT ![s] = L]
           /\ IsLimited(p) => p \in L
    <3>1. CASE IsLimited(p)
      <4>1. limited' = [limited EXCEPT ![s] = limited[s] \cup {p}]
        BY <1>2, <3>1 DEF precheck
      <4> QED BY <4>1
    <3>2. CASE ~ IsLimited(p)
      <4>1. limited' = limited
        BY <1>2, <3>2 DEF precheck
      <4>2. limited' = [limited EXCEPT ![s] = limited[s]]
        BY <4>1, <1>0 DEF TypeOK
      <4> QED BY <4>2, <3>2
    <3> QED BY <3>1, <3>2
  <2>3. \A t \in Steps \ {s} :
           /\ pc'[t] = pc[t] /\ todo'[t] = todo[t] /\ limited'[t] = limited[t]
           /\ t \in admit' => t \in admit
           /\ t \in stale' => t \in stale \/ pc[t] = "commit"
           /\ t \in pending' => t \in pending
    BY <1>0, <2>1, <2>2 DEF TypeOK
  <2>4. NeverUnlimited(p) => IsLimited(p)
    BY <1>0 DEF TypeOK, LimitMaps, NeverUnlimited, IsLimited
  <2>5. todo'[s] = todo[s] \ {p} /\ limited'[s] = L
    BY <1>0, <2>1, <2>2 DEF TypeOK
  <2>6. ClaimComplete(s)' /\ ~ Holding(s)'
    <3>1. ClaimComplete(s)'
      BY <1>0, <2>1, <2>2, <2>4, <2>5 DEF ClaimComplete, NeverUnlimited, PoolsOf
    <3> QED BY <2>1, <3>1 DEF Holding
  <2> QED BY <2>3, <2>6, PendingLocal
<1> QED BY <1>1, <1>2

\* The transaction begins with every always-limited pool in its write set.
LEMMA PendingBegin ==
    ASSUME PendingInv, TypeOK', NEW s \in Steps, txn_begin(s)
    PROVE  PendingInv'
<1>0. TypeOK /\ ClaimComplete(s)
  BY DEF PendingInv
<1>1. /\ Goto(s, "commit") /\ UNCHANGED <<todo, limited, stale, pending>>
      /\ pc[s] = "check" /\ todo[s] = {}
      /\ admit' \in {admit, admit \cup {s}}
  BY DEF txn_begin, Checked
<1>2. \A t \in Steps \ {s} :
         /\ pc'[t] = pc[t] /\ todo'[t] = todo[t] /\ limited'[t] = limited[t]
         /\ t \in admit' => t \in admit
         /\ t \in stale' => t \in stale \/ pc[t] = "commit"
         /\ t \in pending' => t \in pending
  BY <1>0, <1>1 DEF TypeOK
<1>3. pc'[s] = "commit"
  BY <1>0, <1>1 DEF TypeOK
<1>4. ClaimComplete(s)' /\ ~ Holding(s)'
  BY <1>0, <1>1, <1>3 DEF ClaimComplete, Holding, NeverUnlimited, PoolsOf
<1> QED BY <1>2, <1>4, PendingLocal

\* The commit deletes the pending row of the step that becomes a holder.
LEMMA PendingCommit ==
    ASSUME PendingInv, TypeOK', NEW s \in Steps, txn_commit(s)
    PROVE  PendingInv'
<1>0. TypeOK /\ ClaimComplete(s)
  BY DEF PendingInv
<1>1. /\ Goto(s, "claimed") /\ todo' = todo /\ limited' = [limited EXCEPT ![s] = {}]
      /\ admit' = admit \ {s} /\ pending' = pending \ {s} /\ s \notin stale'
      /\ \A t \in stale' : t \in stale \/ pc[t] = "commit"
  BY DEF txn_commit, Overtaken, unpend
<1>2. \A t \in Steps \ {s} :
         /\ pc'[t] = pc[t] /\ todo'[t] = todo[t] /\ limited'[t] = limited[t]
         /\ t \in admit' => t \in admit
         /\ t \in stale' => t \in stale \/ pc[t] = "commit"
         /\ t \in pending' => t \in pending
  BY <1>0, <1>1 DEF TypeOK
<1>3. pc'[s] = "claimed" /\ limited'[s] = {}
  BY <1>0, <1>1 DEF TypeOK
<1>4. ClaimComplete(s)' /\ s \notin pending'
  BY <1>0, <1>1, <1>3 DEF ClaimComplete, PoolsOf
<1> QED BY <1>2, <1>4, PendingLocal

\* Every step of the system keeps PendingInv when every claim is counted.
LEMMA PendingStep ==
    ASSUME EveryClaimCounted, PendingInv, [Next]_vars
    PROVE  PendingInv'
<1>0. TypeOK' /\ TypeOK /\ \A s \in Steps : ClaimComplete(s)
  BY TypeStep DEF PendingInv
<1>1. ASSUME NEW s \in Steps, StepNext(s)
      PROVE  PendingInv'
  <2>1. CASE acquire(s) \/ poll(s) \/ txn_contended(s)
    <3>1. \/ Goto(s, "check") /\ Attempt(s, PoolsOf(s))
          \/ Goto(s, "over") /\ Attempt(s, {})
      BY <2>1 DEF acquire, poll, txn_contended
    <3>2. pending' = pending
      BY <2>1 DEF acquire, poll, txn_contended
    <3> QED BY <1>0, <3>1, <3>2, PendingAttempt
  <2>2. ASSUME NEW p \in Pools, precheck(s, p)
        PROVE  PendingInv'
    BY <1>0, <2>2, PendingPrecheck
  <2>3. CASE claim_unlimited(s)
    <3>1. pc[s] = "check" /\ todo[s] = {} /\ limited[s] = {}
      BY <2>3 DEF claim_unlimited, Checked
    <3>2. \A p \in PoolsOf(s) : ~ NeverUnlimited(p)
      BY <1>0, <3>1 DEF ClaimComplete
    <3> QED BY <3>2 DEF EveryClaimCounted
  <2>4. CASE claim_pending(s)
    <3>1. (Goto(s, "over") \/ Goto(s, "polled")) /\ Attempt(s, {})
      BY <2>4 DEF claim_pending
    <3>2. pending' = pending \cup {s}
      BY <2>4 DEF claim_pending
    <3> QED BY <1>0, <3>1, <3>2, PendingAttempt
  <2>5. CASE poll_cancelled(s)
    <3>1. CASE End(s, "over") /\ UNCHANGED <<db, tries>>
      <4>1. Goto(s, "over") /\ Attempt(s, {}) /\ pending' = pending
        BY <3>1
      <4> QED BY <1>0, <4>1, PendingAttempt
    <3>2. CASE Goto(s, "wait") /\ UNCHANGED attempt /\ UNCHANGED <<db, tries>>
      <4>1. pc[s] # "commit" /\ pending' = pending
        BY <2>5, <3>2 DEF poll_cancelled
      <4> QED BY <1>0, <3>2, <4>1, PendingMove DEF PCs
    <3> QED BY <2>5, <3>1, <3>2 DEF poll_cancelled
  <2>6. CASE txn_begin(s)
    BY <1>0, <2>6, PendingBegin
  <2>7. CASE txn_commit(s)
    BY <1>0, <2>7, PendingCommit
  <2>8. CASE start_attempt(s) \/ work_done(s) \/ work_retry(s) \/ release(s)
                \/ backoff_done(s) \/ resume(s)
    <3>1. pc[s] # "commit" /\ UNCHANGED attempt /\ pending' \subseteq pending
      BY <2>8 DEF start_attempt, work_done, work_retry, release, backoff_done,
                  resume, unpend
    <3>2. PICK label \in PCs \ {"check", "commit"} :
             Goto(s, label) /\ (label \in {"claimed", "work"} => Holding(s))
      BY <2>8 DEF start_attempt, work_done, work_retry, release, backoff_done,
                  resume, PCs, Holding
    <3> QED BY <1>0, <3>1, <3>2, PendingMove
  <2> QED BY <1>1, <2>1, <2>2, <2>3, <2>4, <2>5, <2>6, <2>7, <2>8 DEF StepNext
<1>2. ASSUME NEW s \in Steps, crash(s)
      PROVE  PendingInv'
  <2>1. Goto(s, "crashed") /\ Attempt(s, {}) /\ pending' = pending
    BY <1>2 DEF crash
  <2> QED BY <1>0, <2>1, PendingAttempt
<1>3. ASSUME \/ \E s \in Steps : renew_slot_lease(s)
             \/ \E r \in Runs : free_concurrency_slots_for_run(r)
             \/ \E r \in CancelRuns : request_cancellation(r)
             \/ \E p \in Pools : \E l \in Limits[p] : set_pool_limit(p, l)
             \/ free_expired_leases
             \/ Tick
             \/ UNCHANGED vars
      PROVE  PendingInv'
  <2>1. UNCHANGED <<pc, todo, limited, admit>> /\ pending' \subseteq pending
    BY <1>3 DEF renew_slot_lease, free_concurrency_slots_for_run, request_cancellation,
                set_pool_limit, free_expired_leases, Tick, vars
  <2>2. \A t \in stale' \ stale : pc[t] = "commit"
    BY <1>3 DEF renew_slot_lease, free_concurrency_slots_for_run, request_cancellation,
                set_pool_limit, free_expired_leases, Tick, vars, Overtaken
  <2> QED BY <1>0, <2>1, <2>2, PendingOthers
<1> QED BY <1>1, <1>2, <1>3 DEF Next

\* A step that holds its PoolGuard is not listed in pending_steps, whether or
\* not leases are renewed in time, when no claim can drop all its pools as
\* unlimited: whatever waits, crashes, resumes and limits come before, the
\* claim transaction deletes the row (build_claim_transaction).
THEOREM NoHolderPendingHolds == EveryClaimCounted => (Spec => []NoHolderPending)
<1> SUFFICES ASSUME EveryClaimCounted PROVE Spec => []NoHolderPending
  OBVIOUS
<1>1. Init => PendingInv
  <2>1. ASSUME Init PROVE TypeOK
    BY <2>1, ConstantsAssumption DEF Init, TypeOK, PCs
  <2>2. ASSUME Init, NEW s \in Steps
        PROVE  ClaimComplete(s) /\ s \notin pending
    BY <2>2 DEF Init, ClaimComplete
  <2> QED BY <2>1, <2>2 DEF PendingInv, NoHolderPending
<1>2. PendingInv /\ [Next]_vars => PendingInv'
  BY PendingStep
<1>3. PendingInv => NoHolderPending
  BY DEF PendingInv
<1> QED BY <1>1, <1>2, <1>3, PTL DEF Spec

=============================================================================
