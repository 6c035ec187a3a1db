\* A state store, a cache whose entries expire, one crash.
SPECIFICATION FairSpec
CONSTANTS
    MaxLedger = 3
    EventLedgers = {1, 2, 3}
    MaxRetries = 1
    MaxCrashes = 1
    startLedger = 1
    HasStore = TRUE
    RedisEnabled = TRUE
    CacheExpires = TRUE
INVARIANTS
    IndexerSafety
PROPERTIES
    SavedNeverRegresses
    IndexerProgress
CHECK_DEADLOCK FALSE
