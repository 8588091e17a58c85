---------------------------- MODULE MCPoolClaims ----------------------------
(***************************************************************************)
(* Instances of PoolClaims for TLC.                                        *)
(***************************************************************************)
EXTENDS PoolClaims, TLC

CONSTANTS s1, s2, s3, r1, r2, database, spare, asset, k1, k2

Touches(excl, keys) == [exclusive |-> excl, whole |-> keys = {}, parts |-> keys]

\* Mixed: a materialize of partition k1 in run r1 and an exclusive action on
\* k1 and k2 in run r2, on the asset's pool, which may be set to unlimited, and
\* on one counted pool.
MixedRunOf == s1 :> r1 @@ s2 :> r2
MixedSlots == s1 :> (asset :> 1 @@ database :> 1)
           @@ s2 :> (asset :> 1 @@ database :> 1)
MixedScope == s1 :> Touches(FALSE, {k1}) @@ s2 :> Touches(TRUE, {k1, k2})
MixedLimits == asset :> {1, -1} @@ database :> {2}

\* Counted: steps of two runs ask 1 and 2 slots of one pool; a third, of the
\* first run, uses only a pool whose limit is lifted and put back.
CountedRunOf == s1 :> r1 @@ s2 :> r1 @@ s3 :> r2
CountedSlots == s1 :> (database :> 1 @@ spare :> 0) @@ s2 :> (database :> 0 @@ spare :> 1)
             @@ s3 :> (database :> 2 @@ spare :> 0)
CountedScope == [s \in {s1, s2, s3} |-> Touches(FALSE, {})]
CountedLimits == database :> {2, 3} @@ spare :> {1, -1}

=============================================================================
