\* Three calls, two endpoints, a bucket of one token.
SPECIFICATION CFairSpec
CONSTANTS
    capacity = 1
    refillRate = 5
    maxQueueSize = 1
    MaxCalls = 3
    MaxTicks = 3
    failureThreshold = 2
    successThreshold = 1
    resetTimeout = 1
    maxResetTimeout = 2
    NumEndpoints = 2
INVARIANTS
    BackupsInOrder
    EndpointsApart
    ServedInTurn
PROPERTIES
    EveryCallSettles
CHECK_DEADLOCK FALSE
