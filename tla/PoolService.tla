---------------------------- MODULE PoolService -----------------------------
(***************************************************************************)
(* What the concurrency pools promise to the steps that claim them,        *)
(* without rows, leases, transactions, polling or clocks: a step is given  *)
(* all the slots it wants at one moment or none, only when there is room   *)
(* for all of them at that moment, and keeps them while it holds them.     *)
(* PoolClaims implements it (Implements there).                            *)
(*                                                                         *)
(* Source of the promise: docs/concepts/concurrency.md and                 *)
(* docs/api-reference/assets.md; the code is mapped in PoolClaims.         *)
(***************************************************************************)
EXTENDS Integers, FiniteSets

CONSTANTS
    Steps, Pools,
    AssetPools,   \* pools that admit by the scopes of the steps, not by a count
    MaxSlots,
    Slots,        \* the slots a step wants of each pool
    Conflicts,    \* pairs of steps that exclude each other on an asset
    Limits        \* the limits a pool may be given

VARIABLES
    limit,        \* the limit of each pool
    holders,      \* steps that hold what they want
    slots         \* taken slots, as pairs of a step and a pool

svars == <<limit, holders, slots>>

Wanted(s) == {p \in Pools : Slots[s][p] > 0}
Takers(p) == {s \in Steps : <<s, p>> \in slots}

\* The slots the steps of T want of p, one by one.
Wants(T, p) == {u \in T \X (1 .. MaxSlots) : u[2] <= Slots[u[1]][p]}

\* There is room for step s in pool p, beside the others that have slots of it.
Room(s, p) ==
    IF p \in AssetPools
    THEN \A t \in Takers(p) \ {s} : <<s, t>> \notin Conflicts
    ELSE Cardinality(Wants(Takers(p) \cup {s}, p)) <= limit[p]

Init ==
    /\ \A p \in Pools : limit[p] \in Limits[p]
    /\ holders = {} /\ slots = {}

Admit(s) ==
    /\ s \notin holders
    /\ holders' = holders \cup {s}
    /\ slots' = slots \cup ({s} \X Wanted(s))
    /\ \A p \in Wanted(s) : Room(s, p)
    /\ UNCHANGED limit

\* A step is done, or its process dies: its slots are taken until they lapse.
Leave(s) ==
    /\ s \in holders
    /\ holders' = holders \ {s}
    /\ UNCHANGED <<limit, slots>>

\* Slots are given back or their leases run out, but never those of a holder.
Lapse ==
    /\ slots' \subseteq slots
    /\ \A x \in slots : x[1] \in holders => x \in slots'
    /\ UNCHANGED <<limit, holders>>

\* A limit may be lowered below what is taken: nobody loses slots by that.
SetLimit(p) ==
    /\ \E l \in Limits[p] : limit' = [limit EXCEPT ![p] = l]
    /\ UNCHANGED <<holders, slots>>

Next ==
    \/ Lapse
    \/ \E s \in Steps : Admit(s) \/ Leave(s)
    \/ \E p \in Pools : SetLimit(p)

Spec == Init /\ [][Next]_svars
=============================================================================
