----------------------------- MODULE MCBackfill -----------------------------
(* Instances of Backfill for TLC.                                          *)
EXTENDS Backfill, TLC

CONSTANTS g1, g2, k1, k2

TwoGroups == {g1, g2}
OneEach == (g1 :> {k1}) @@ (g2 :> {k2})
\* The groups may change places, each with its key.
Swap == {p \in Permutations({g1, g2, k1, k2}) :
            \A g \in TwoGroups : p[g] \in TwoGroups /\ OneEach[p[g]] = {p[k] : k \in OneEach[g]}}
OneGroup == {g1}
OneKey == g1 :> {k1}
TwoKeys == g1 :> {k1, k2}

=============================================================================
