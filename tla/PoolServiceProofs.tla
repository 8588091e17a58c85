-------------------------- MODULE PoolServiceProofs -------------------------
(***************************************************************************)
(* PoolClaims implements PoolService, for every set of steps, runs and     *)
(* pools, as long as a live holder renews in time.                         *)
(***************************************************************************)
EXTENDS PoolClaimsProofs

USE DEF Goto, End, Attempt, Budget, db, attempt, budget

\* What PoolService sees.
Holders  == {s \in Steps : Holding(s)}
LiveRows == {x \in Steps \X Guarded : Live(x[1], x[2], 0)}
GLimit   == [p \in Guarded |-> limit[p]]

\* When the transaction of a claim commits there is room for it in a counted
\* pool: the live slots it meets are among those its snapshot counted.
LEMMA CommitRoom ==
    ASSUME IInv, NEW s \in Steps, txn_commit(s), NEW p \in Pools, p \in limited[s],
           p \notin AssetPools, NeverUnlimited(p)
    PROVE  Cardinality(Units({t \in Steps : Live(t, p, 0)} \cup {s}, p)) <= limit[p]
<1> DEFINE others == OthersLive(s, p, age[s])
           live == {t \in Steps : Live(t, p, 0)} \cup {s}
<1>0. TypeOK /\ OpenClaimAdmissible(s)
  BY DEF IInv
<1>1. ~ PoolBlocks(s, p, age[s])
  BY <1>0 DEF txn_commit, OpenClaimAdmissible
<1>2. age[s] \in Nat /\ \A u \in Steps : ttl[u][p] \in Int
  BY <1>0, ConstantsAssumption DEF TypeOK
<1>3. live \subseteq others \cup {s} /\ others \in SUBSET Steps
  BY <1>2 DEF OthersLive, Live
<1>4. limit[p] \in Int /\ Slots[s][p] \in Int
  BY <1>0, ConstantsAssumption DEF TypeOK, LimitMaps
<1>5. ~ (Cardinality(Units(others, p)) + Slots[s][p] > limit[p])
  BY <1>1 DEF PoolBlocks, query_pool_usage
<1> HIDE DEF others, live
<1>6. others \cup {s} \in SUBSET Steps /\ live \in SUBSET (others \cup {s})
  BY <1>3
<1>7. /\ Cardinality(Units(live, p)) <= Cardinality(Units(others \cup {s}, p))
      /\ Cardinality(Units(live, p)) \in Nat /\ Cardinality(Units(others \cup {s}, p)) \in Nat
  BY <1>6, UnitsMonotone
<1>8. Cardinality(Units(others \cup {s}, p)) <= Cardinality(Units(others, p)) + Slots[s][p]
  BY <1>3, UnitsAdd
<1>9. Cardinality(Units(others, p)) \in Nat
  BY <1>3, UnitsMonotone
<1>10. Cardinality(Units(live, p)) <= limit[p]
  BY <1>4, <1>5, <1>7, <1>8, <1>9
<1> QED BY <1>10 DEF live

\* A step of the code that admits nobody and changes no limit is invisible or
\* lets slots lapse: no live row appears, and those of holders stay.
LEMMA Lapses ==
    ASSUME TimelyRenewal, IInv, IInv', [Next]_vars, \A s \in Steps : ~ txn_commit(s),
           UNCHANGED limit, \A s \in Steps : Holding(s)' <=> Holding(s)
    PROVE  Service!Lapse
<1>1. \A t \in Steps, p \in Guarded : Live(t, p, 0)' => Live(t, p, 0)
  BY LiveOnlyByCommit DEF Guarded
<1>2. ASSUME NEW t \in Steps, NEW p \in Guarded, Holding(t), Live(t, p, 0)
      PROVE  Live(t, p, 0)'
  <2>1. p \in Pools /\ NeverUnlimited(p) /\ p \in PoolsOf(t)
    BY <1>2 DEF Guarded, Live, IInv, RowsAreClaimed
  <2>2. KeepsSlots(t)' /\ Holding(t)'
    BY <1>2 DEF IInv, HolderKeepsSlots
  <2> QED BY <2>1, <2>2 DEF KeepsSlots, NeverUnlimited, PoolsOf
<1>3. LiveRows' \subseteq LiveRows
  BY <1>1 DEF LiveRows, Guarded, NeverUnlimited
<1>4. \A x \in LiveRows : x[1] \in Holders => x \in LiveRows'
  BY <1>2 DEF LiveRows, Holders, Guarded, NeverUnlimited
<1>5. Holders' = Holders /\ GLimit' = GLimit
  BY DEF Holders, GLimit, Guarded, NeverUnlimited
<1> QED BY <1>3, <1>4, <1>5 DEF Service!Lapse, LiveRows, Holders, GLimit, Guarded, NeverUnlimited

\* A holder that stops holding leaves; its rows stay.
LEMMA Leaves ==
    ASSUME UNCHANGED <<row, ttl, limit>>, NEW s \in Steps, Holding(s), ~ Holding(s)',
           \A t \in Steps \ {s} : Holding(t)' <=> Holding(t)
    PROVE  Service!Leave(s)
<1>1. s \in Holders /\ Holders' = Holders \ {s}
  BY DEF Holders
<1>2. LiveRows' = LiveRows /\ GLimit' = GLimit
  BY DEF LiveRows, GLimit, Live, Guarded, NeverUnlimited
<1> QED BY <1>1, <1>2 DEF Service!Leave, LiveRows, Holders, GLimit

\* The commit of a claim gives the step all it wants of the guarded pools at
\* once, and there is room for it.
LEMMA CommitAdmits ==
    ASSUME TimelyRenewal, IInv, NEW s \in Steps, txn_commit(s)
    PROVE  Service!Admit(s)
<1>0. /\ TypeOK /\ ClaimComplete(s) /\ OpenClaimAdmissible(s)
      /\ pc[s] = "commit" /\ MaxAge < Lease /\ MaxAge \in Nat /\ Lease \in Nat
      /\ age[s] \in 0 .. MaxAge /\ AssetPools \subseteq Pools /\ limited[s] \subseteq Pools
  BY ConstantsAssumption DEF IInv, txn_commit, TypeOK
<1> DEFINE W == {p \in Guarded : Slots[s][p] > 0}
<1>1. /\ pc' = [pc EXCEPT ![s] = "claimed"] /\ limit' = limit
      /\ row' = row \cup ({s} \X limited[s])
      /\ \A t \in Steps \ {s} : ttl'[t] = ttl[t]
      /\ \A p \in Pools : ttl'[s][p] = IF p \in limited[s] THEN Lease - age[s] ELSE ttl[s][p]
  BY <1>0 DEF txn_commit, Goto, TypeOK
<1>2. s \notin Holders /\ Holders' = Holders \cup {s}
  BY <1>0, <1>1 DEF Holders, Holding, TypeOK
<1>3. \A p \in Guarded : p \in W <=> p \in limited[s]
  BY <1>0 DEF ClaimComplete, PoolsOf, Guarded
<1>4. \A t \in Steps, p \in Guarded : Live(t, p, 0)' <=> Live(t, p, 0) \/ (t = s /\ p \in W)
  <2> SUFFICES ASSUME NEW t \in Steps, NEW p \in Guarded
               PROVE  Live(t, p, 0)' <=> Live(t, p, 0) \/ (t = s /\ p \in W)
    OBVIOUS
  <2>1. p \in Pools
    BY DEF Guarded
  <2>2. CASE t # s
    BY <1>1, <2>2 DEF Live
  <2>3. CASE t = s /\ p \in limited[s]
    <3>1. <<t, p>> \in row' /\ ttl'[t][p] + 0 > 0
      BY <1>0, <1>1, <2>1, <2>3
    <3> QED BY <1>3, <2>3, <3>1 DEF Live
  <2>4. CASE t = s /\ p \notin limited[s]
    <3>1. ttl'[t][p] = ttl[t][p] /\ (<<t, p>> \in row' <=> <<t, p>> \in row)
      BY <1>1, <2>1, <2>4
    <3> QED BY <1>3, <2>4, <3>1 DEF Live
  <2> QED BY <2>2, <2>3, <2>4
<1>5. LiveRows' = LiveRows \cup ({s} \X W)
  <2> HIDE DEF W
  <2>1. W \subseteq Guarded
    BY DEF W
  <2>2. Guarded' = Guarded
    BY DEF Guarded, NeverUnlimited
  <2>3. LiveRows' = {x \in Steps \X Guarded : Live(x[1], x[2], 0)'}
    BY <2>2 DEF LiveRows
  <2>4. ASSUME NEW x \in Steps \X Guarded
        PROVE  Live(x[1], x[2], 0)' <=> Live(x[1], x[2], 0) \/ x \in {s} \X W
    BY <1>4
  <2>5. {s} \X W \subseteq Steps \X Guarded
    BY <2>1
  <2> QED BY <2>3, <2>4, <2>5 DEF LiveRows
<1>6. GLimit' = GLimit
  BY <1>1 DEF GLimit, Guarded, NeverUnlimited
<1>7. ASSUME NEW p \in W, p \in AssetPools, NEW t \in Steps \ {s}, <<t, p>> \in LiveRows
      PROVE  ~ asset_conflict(s, t)
  <2>1. Live(t, p, 0) /\ p \in Pools /\ p \in limited[s] /\ NeverUnlimited(p)
    BY <1>3, <1>7 DEF LiveRows, Guarded
  <2>2. ~ PoolBlocks(s, p, age[s])
    BY <1>0, <2>1 DEF txn_commit, OpenClaimAdmissible
  <2> QED BY <1>0, <1>7, <2>1, <2>2, AdmittedCompatible
<1>8. ASSUME NEW p \in W, p \notin AssetPools
      PROVE  Cardinality(Units({t \in Steps : <<t, p>> \in LiveRows} \cup {s}, p)) <= limit[p]
  <2>1. p \in Pools /\ p \in limited[s] /\ NeverUnlimited(p) /\ p \in Guarded
    BY <1>3 DEF Guarded
  <2>2. {t \in Steps : <<t, p>> \in LiveRows} = {t \in Steps : Live(t, p, 0)}
    BY <2>1 DEF LiveRows
  <2> QED BY <1>8, <2>1, <2>2, CommitRoom
<1>9. ASSUME NEW p \in Service!Wanted(s) PROVE Service!Room(s, p)
  <2>1. p \in W /\ p \in Guarded /\ GLimit[p] = limit[p]
    BY <1>9 DEF Service!Wanted, GLimit
  <2>2. CASE p \in AssetPools
    BY <1>7, <2>1, <2>2 DEF Service!Room, Service!Takers, LiveRows
  <2>3. CASE p \notin AssetPools
    <3>1. Service!Wants(Service!Takers(p) \cup {s}, p)
              = Units({t \in Steps : <<t, p>> \in LiveRows} \cup {s}, p)
      BY DEF Service!Wants, Service!Takers, Units, LiveRows
    <3>2. \A S : Service!Cardinality(S) = Cardinality(S)
      BY DEF Service!Cardinality, Cardinality
    <3> QED BY <1>8, <2>1, <2>3, <3>1, <3>2 DEF Service!Room, GLimit
  <2> QED BY <2>2, <2>3
<1>10. Service!Wanted(s) = W
  BY DEF Service!Wanted
<1> QED BY <1>2, <1>5, <1>6, <1>9, <1>10 DEF Service!Admit, LiveRows, Holders, GLimit

\* A claim that dropped every pool as unlimited wants nothing of the guarded
\* ones.
LEMMA UnlimitedAdmits ==
    ASSUME IInv, NEW s \in Steps, claim_unlimited(s)
    PROVE  Service!Admit(s)
<1>0. /\ TypeOK /\ ClaimComplete(s) /\ pc[s] = "check" /\ todo[s] = {} /\ limited[s] = {}
      /\ pc' = [pc EXCEPT ![s] = "claimed"] /\ UNCHANGED <<row, ttl, limit>>
  BY DEF IInv, claim_unlimited, Checked
<1>1. Service!Wanted(s) = {}
  <2>1. \A p \in Guarded : p \notin PoolsOf(s)
    BY <1>0 DEF ClaimComplete, Guarded
  <2> QED BY <2>1 DEF Service!Wanted, PoolsOf, Guarded
<1>2. s \notin Holders /\ Holders' = Holders \cup {s}
  BY <1>0 DEF Holders, Holding, TypeOK
<1>3. LiveRows' = LiveRows \cup ({s} \X {}) /\ GLimit' = GLimit
  <2>1. {s} \X {} = {}
    OBVIOUS
  <2>2. LiveRows' = LiveRows
    BY <1>0 DEF LiveRows, Live, Guarded, NeverUnlimited
  <2>3. GLimit' = GLimit
    BY <1>0 DEF GLimit, Guarded, NeverUnlimited
  <2> QED BY <2>1, <2>2, <2>3
<1> QED BY <1>1, <1>2, <1>3 DEF Service!Admit, LiveRows, Holders, GLimit

\* A step instance that moves without a commit keeps holding, or was a holder
\* and leaves.
LEMMA MovesOrLeaves ==
    ASSUME TimelyRenewal, IInv, IInv', [Next]_vars, NEW s \in Steps,
           \A t \in Steps : ~ txn_commit(t),
           UNCHANGED limit, \A t \in Steps \ {s} : pc'[t] = pc[t],
           Holding(s)' => Holding(s), ~ Holding(s)' /\ Holding(s) => UNCHANGED <<row, ttl>>
    PROVE  Service!Next
<1>1. \A t \in Steps \ {s} : Holding(t)' <=> Holding(t)
  BY DEF Holding
<1>2. CASE Holding(s)' <=> Holding(s)
  <2>1. Service!Lapse
    BY <1>1, <1>2, Lapses
  <2> QED BY <2>1 DEF Service!Next
<1>3. CASE Holding(s) /\ ~ Holding(s)'
  <2>1. Service!Leave(s)
    BY <1>1, <1>3, Leaves
  <2> QED BY <2>1 DEF Service!Next
<1> QED BY <1>2, <1>3

\* Every step of the code is a step of the service or invisible to it.
LEMMA ServiceStep ==
    ASSUME TimelyRenewal, IInv, IInv', [Next]_vars
    PROVE  Service!Next \/ UNCHANGED Service!svars
<1>0. TypeOK /\ TypeOK' /\ pc \in [Steps -> PCs]
  BY DEF IInv, TypeOK
<1>1. ASSUME NEW s \in Steps, txn_commit(s) PROVE Service!Next
  <2>1. Service!Admit(s)
    BY <1>1, CommitAdmits
  <2> QED BY <2>1 DEF Service!Next
<1> SUFFICES ASSUME \A t \in Steps : ~ txn_commit(t) PROVE Service!Next \/ UNCHANGED Service!svars
  BY <1>1
<1>2. ASSUME NEW s \in Steps, claim_unlimited(s) PROVE Service!Next
  <2>1. Service!Admit(s)
    BY <1>2, UnlimitedAdmits
  <2> QED BY <2>1 DEF Service!Next
<1>3. ASSUME NEW s \in Steps, StepNext(s), ~ claim_unlimited(s) PROVE Service!Next
  <2>1. ASSUME NEW p \in Pools, precheck(s, p)
        PROVE  /\ UNCHANGED limit /\ \A t \in Steps \ {s} : pc'[t] = pc[t]
               /\ ~ Holding(s)'
               /\ ~ Holding(s)
    BY <1>0, <2>1 DEF precheck, Holding
  <2>2. CASE \/ acquire(s) \/ claim_pending(s) \/ poll_cancelled(s) \/ poll(s)
             \/ txn_begin(s) \/ txn_contended(s) \/ backoff_done(s) \/ resume(s) \/ release(s)
    <3>1. UNCHANGED limit /\ \A t \in Steps \ {s} : pc'[t] = pc[t]
      BY <1>0, <2>2 DEF acquire, claim_pending, poll_cancelled, poll, txn_begin, txn_contended,
         backoff_done, resume, release, Checked
    <3>2. ~ Holding(s)' /\ ~ Holding(s)
      BY <1>0, <2>2 DEF acquire, claim_pending, poll_cancelled, poll, txn_begin, txn_contended,
         backoff_done, resume, release, Checked, Holding
    <3> QED BY <3>1, <3>2, MovesOrLeaves
  <2>3. CASE start_attempt(s) \/ work_done(s) \/ work_retry(s)
    <3>1. /\ UNCHANGED <<limit, row, ttl>> /\ \A t \in Steps \ {s} : pc'[t] = pc[t]
          /\ Holding(s)
      BY <1>0, <2>3 DEF start_attempt, work_done, work_retry, Holding
    <3> QED BY <3>1, MovesOrLeaves
  <2>4. CASE \E p \in Pools : precheck(s, p)
    BY <2>1, <2>4, MovesOrLeaves
  <2> QED BY <1>3, <2>2, <2>3, <2>4 DEF StepNext
<1>4. ASSUME NEW s \in Steps, renew_slot_lease(s) PROVE Service!Next
  <2>1. UNCHANGED <<limit, pc>>
    BY <1>4 DEF renew_slot_lease
  <2>2. Holding(s)' <=> Holding(s)
    BY <2>1 DEF Holding
  <2> QED BY <2>1, <2>2, MovesOrLeaves
<1>5. ASSUME NEW s \in Steps, crash(s) PROVE Service!Next
  <2>1. UNCHANGED <<limit, row, ttl>> /\ pc' = [pc EXCEPT ![s] = "crashed"]
    BY <1>5 DEF crash
  <2>2. (\A t \in Steps \ {s} : pc'[t] = pc[t]) /\ ~ Holding(s)'
    BY <1>0, <2>1 DEF Holding
  <2> QED BY <2>1, <2>2, MovesOrLeaves
<1>6. CASE UNCHANGED <<limit, pc>>
  <2>1. \A s \in Steps : Holding(s)' <=> Holding(s)
    BY <1>6 DEF Holding
  <2>2. Service!Lapse
    BY <1>6, <2>1, Lapses
  <2> QED BY <2>2 DEF Service!Next
<1>7. ASSUME NEW p \in Pools, NEW l \in Limits[p], set_pool_limit(p, l)
      PROVE  Service!Next \/ UNCHANGED Service!svars
  <2>1. limit' = [limit EXCEPT ![p] = l] /\ UNCHANGED <<row, ttl, pc>> /\ DOMAIN limit = Pools
    BY <1>0, <1>7 DEF set_pool_limit, TypeOK, LimitMaps
  <2>2. Holders' = Holders /\ LiveRows' = LiveRows
    BY <2>1 DEF Holders, Holding, LiveRows, Live, Guarded, NeverUnlimited
  <2>3. CASE p \in Guarded
    <3>1. GLimit' = [GLimit EXCEPT ![p] = l]
      BY <2>1, <2>3 DEF GLimit, Guarded, NeverUnlimited
    <3>2. Service!SetLimit(p)
      BY <2>2, <3>1 DEF Service!SetLimit, Holders, LiveRows, GLimit
    <3> QED BY <2>3, <3>2 DEF Service!Next
  <2>4. CASE p \notin Guarded
    <3>1. GLimit' = GLimit
      BY <2>1, <2>4 DEF GLimit, Guarded, NeverUnlimited
    <3> QED BY <2>2, <3>1 DEF Service!svars, Holders, LiveRows, GLimit
  <2> QED BY <2>3, <2>4
<1>8. ASSUME \/ \E r \in Runs : free_concurrency_slots_for_run(r)
             \/ \E r \in CancelRuns : request_cancellation(r)
             \/ free_expired_leases \/ Tick \/ UNCHANGED vars
      PROVE  UNCHANGED <<limit, pc>>
  BY <1>8 DEF free_concurrency_slots_for_run, request_cancellation, free_expired_leases, Tick, vars
<1> QED BY <1>2, <1>3, <1>4, <1>5, <1>6, <1>7, <1>8 DEF Next

\* The pools implement PoolService for any number of steps, runs and pools,
\* while live holders renew in time: a claim of several pools is one atomic
\* step, taken only when there is room (build_claim_transaction).
THEOREM ImplementsHolds == TimelyRenewal => (Spec => Implements)
<1> SUFFICES ASSUME TimelyRenewal PROVE Spec => Implements
  OBVIOUS
<1>1. Init => Service!Init
  <2> SUFFICES ASSUME Init PROVE Service!Init
    OBVIOUS
  <2>1. \A p \in Guarded : GLimit[p] \in Limits[p]
    BY DEF Init, LimitMaps, GLimit, Guarded
  <2>2. Holders = {} /\ LiveRows = {}
    BY DEF Init, Holders, Holding, LiveRows, Live
  <2> QED BY <2>1, <2>2 DEF Service!Init, Holders, LiveRows, GLimit
<1>2. IInv /\ IInv' /\ [Next]_vars => [Service!Next]_(Service!svars)
  BY ServiceStep
<1>3. Spec => []IInv
  BY InvariantHolds
<1> QED BY <1>1, <1>2, <1>3, PTL DEF Spec, Implements, Service!Spec

=============================================================================
