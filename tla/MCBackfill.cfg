SPECIFICATION Spec
CONSTANTS
    g1 = g1
    g2 = g2
    k1 = k1
    k2 = k2
    Groups <- TwoGroups
    Members <- OneEach
    MaxCancels = 1
    MaxSlow = 0
    MaxFaults = 1
INVARIANTS
    TypeOK
    SuccessIsReal
    CancelReachesChild
    GroupRunsOnce
    SettleInv
    OnceInv
    ReachInv
CHECK_DEADLOCK FALSE
SYMMETRY Swap
