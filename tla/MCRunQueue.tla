----------------------------- MODULE MCRunQueue -----------------------------
(***************************************************************************)
(* Instances of RunQueue for TLC.                                          *)
(***************************************************************************)
EXTENDS RunQueue, TLC

CONSTANTS r1, r2, env, tenant, prod, acme, umbra

\* Two runs, the second more urgent.
PairPriority == r1 :> 0 @@ r2 :> 1
PairQueuedAt == r1 :> 1 @@ r2 :> 2
NoTags == [r \in Runs |-> {}]

\* They share a tenant, and the second has another one too.
EnvProd == <<env, prod>>
TenantAcme == <<tenant, acme>>
TenantUmbra == <<tenant, umbra>>
PairTags == r1 :> {EnvProd, TenantAcme} @@ r2 :> {TenantAcme, TenantUmbra}
PairAllTags == {EnvProd, TenantAcme, TenantUmbra}

Limit(k, v, each, n) == [key |-> k, value |-> v, per_unique_value |-> each, limit |-> n]
\* One limit of each kind: on a value, on every value, on the key.
PairLimits == {Limit(env, prod, FALSE, 1), Limit(tenant, NoValue, TRUE, 1),
               Limit(tenant, NoValue, FALSE, 2)}
=============================================================================
