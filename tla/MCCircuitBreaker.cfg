\* Three calls at once, a fallback, two manual interventions.
SPECIFICATION FairBreakerSpec
CONSTANTS
    failureThreshold = 2
    successThreshold = 2
    resetTimeout = 1
    maxResetTimeout = 3
    Requests = {r1, r2, r3}
    HasFallback = TRUE
    MaxManual = 2
INVARIANTS
    BreakerSafety
PROPERTIES
    OpensProperly
    Recovers
