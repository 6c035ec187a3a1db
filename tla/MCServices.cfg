\* One client and one address; two jobs of reconciliation; overlapping archive runs;
\* two chains; three requests to each limiter.
SPECIFICATION MCSpec
CONSTANTS
    Parts = {"feed", "scheduler", "jobs", "retention", "pruner", "bridge", "limiters", "ring"}
    Clients = {c1}
    Ips = {"ip1"}
    clientIp <- MCClientIp
    MAX_WS_CONNECTIONS_PER_IP = 1
    MaxSockets = 3
    MaxEvents = 2
    MaxRedisLosses = 1
    MaxAttempts = 1
    ConfigCalls = {p1, p2}
    NoTask = none
    maxAttempts = 2
    Ranges <- MCRanges
    MaxJobs = 2
    MaxTicks = 1
    MaxErrors = 1
    oldFrom <- MCOldFrom
    archiveBatchSize = 1
    TicksPerDay = 2
    MaxTime = 2
    MaxRuns = 2
    MaxFailures = 1
    timestampOf <- MCTimestampOf
    Cutoff = 2
    policyBatchSize = 2
    MaxCycles = 2
    MaxBatchErrors = 1
    BridgeEvents <- MCBridgeEvents
    EvmChains = {"eth", "opt"}
    MAX_BLOCK_RANGE = 1
    FirstLookback = 2
    TIMESTAMP_TOLERANCE = 1
    ExpireBefore = 2
    FirstBlock = 1
    lastBlock <- MCLastBlock
    MaxCalls = 2
    MaxRows = 3
    MaxBridgeFaults = 1
    LimitPerWindow = 2
    Window = 3
    MaxClock = 6
    MaxRequests = 4
    initialCapacity = 3
    MaxEnqueued = 11
INVARIANTS
    RealtimeSafety
    ReconciliationSafety
    RetentionSafety
    BridgeSafety
    LimiterSafety
    RingSafety
PROPERTIES
    PrunerSafety
CHECK_DEADLOCK FALSE
