\* Is everything below the saved cursor stored?
SPECIFICATION PSpec
CONSTANTS
    MaxLedger = 3
    EventLedgers = {1, 2, 3}
    MaxRetries = 1
    MaxCrashes = 0
    startLedger = 1
    HasStore = FALSE
    RedisEnabled = FALSE
    CacheExpires = FALSE
INVARIANTS
    CursorAfterPersistence
CHECK_DEADLOCK FALSE
