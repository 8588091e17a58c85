SPECIFICATION Spec
CONSTANTS
    g1 = g1
    g2 = g2
    k1 = k1
    k2 = k2
    Groups <- OneGroup
    Members <- OneKey
    MaxCancels = 1
    MaxSlow = 0
    MaxFaults = 0
INVARIANTS
    NoChildOutlivesCancel
CHECK_DEADLOCK FALSE
