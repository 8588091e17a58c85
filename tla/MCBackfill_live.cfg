SPECIFICATION FairSpec
CONSTANTS
    g1 = g1
    g2 = g2
    k1 = k1
    k2 = k2
    Groups <- OneGroup
    Members <- TwoKeys
    MaxCancels = 0
    MaxSlow = 1
    MaxFaults = 2
PROPERTY
    BackfillEnds
CHECK_DEADLOCK FALSE
