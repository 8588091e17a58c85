CONSTANTS
    r1 = r1
    r2 = r2
    env = env
    tenant = tenant
    prod = prod
    acme = acme
    umbra = umbra
    NoValue = NoValue
    Runs = {r1, r2}
    MaxRuns = 1
    Priority <- PairPriority
    QueuedAt <- PairQueuedAt
    AllTags = {}
    Tags <- NoTags
    TagLimits = {}
    CancelRuns = {r1}
    HandleRuns = {}
    DeleteRuns = {r1}
    MaxCrashes = 0
    MaxErrors = 0
SPECIFICATION Spec
PROPERTIES DeletesOnlyTerminal
