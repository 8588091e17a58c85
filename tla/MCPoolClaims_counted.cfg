CONSTANTS
    s1 = s1
    s2 = s2
    s3 = s3
    r1 = r1
    r2 = r2
    database = database
    spare = spare
    asset = asset
    k1 = k1
    k2 = k2
    Steps = {s1, s2, s3}
    Runs = {r1, r2}
    RunOf <- CountedRunOf
    Pools = {database, spare}
    AssetPools = {}
    MaxSlots = 2
    Slots <- CountedSlots
    Scope <- CountedScope
    Limits <- CountedLimits
    CancelRuns = {}
    Lease = 2
    MaxAge = 1
    ClaimTimeout = 1
    MaxRetries = 1
    MaxTries = 0
    TimelyRenewal = TRUE
SPECIFICATION Spec
INVARIANTS HolderKeepsSlots IInv
PROPERTIES PoolCapacity Implements
