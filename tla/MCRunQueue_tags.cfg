CONSTANTS
    r1 = r1
    r2 = r2
    env = env
    tenant = tenant
    prod = prod
    acme = acme
    umbra = umbra
    NoValue = NoValue
    Runs = {r1, r2}
    MaxRuns = 2
    Priority <- PairPriority
    QueuedAt <- PairQueuedAt
    AllTags <- PairAllTags
    Tags <- PairTags
    TagLimits <- PairLimits
    CancelRuns = {}
    HandleRuns = {r1}
    DeleteRuns = {r2}
    MaxCrashes = 1
    MaxErrors = 1
SPECIFICATION Spec
INVARIANTS TagLimitsHold TagSeats
