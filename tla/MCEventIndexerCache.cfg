\* Redis without REDIS_TTL_SECONDS: cached answers live for ever.
SPECIFICATION FairSpec
CONSTANTS
    MaxLedger = 3
    EventLedgers = {1, 2, 3}
    MaxRetries = 1
    MaxCrashes = 0
    startLedger = 1
    HasStore = FALSE
    RedisEnabled = TRUE
    CacheExpires = FALSE
PROPERTIES
    EveryEventDelivered
CHECK_DEADLOCK FALSE
