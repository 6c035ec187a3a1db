\* A crash between or during batches, a state store beside the database, and
\* a ledger without events.
SPECIFICATION PFairSpec
CONSTANTS
    MaxLedger = 3
    EventLedgers = {1, 3}
    MaxRetries = 0
    MaxCrashes = 1
    startLedger = 1
    HasStore = TRUE
    RedisEnabled = FALSE
    CacheExpires = FALSE
INVARIANTS
    PersistenceSafety
PROPERTIES
    EveryEventStored
CHECK_DEADLOCK FALSE
