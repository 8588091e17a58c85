CONSTANTS
    s1 = s1
    s2 = s2
    s3 = s3
    r1 = r1
    r2 = r2
    database = database
    spare = spare
    asset = asset
    k1 = k1
    k2 = k2
    Steps = {s1, s2}
    Runs = {r1, r2}
    RunOf <- MixedRunOf
    Pools = {database, asset}
    AssetPools = {asset}
    MaxSlots = 2
    Slots <- MixedSlots
    Scope <- MixedScope
    Limits <- MixedLimits
    CancelRuns = {r2}
    Lease = 2
    MaxAge = 1
    ClaimTimeout = 1
    MaxRetries = 0
    MaxTries = 1
    TimelyRenewal = TRUE
SPECIFICATION FairSpec
INVARIANTS TypeOK AssetExclusion NoHolderPending
PROPERTIES ClaimEnds Implements
