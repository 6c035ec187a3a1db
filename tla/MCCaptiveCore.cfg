\* One restart without a frame, two failures, two frames at once, one crash.
SPECIFICATION FairSpec
CONSTANTS
    MaxLedger = 2
    maxRestartAttempts = 1
    MaxFailures = 2
    MaxInFlight = 2
    MaxCrashes = 1
INVARIANTS
    SupervisionSafety
PROPERTIES
    RestartsAndStops
CHECK_DEADLOCK FALSE
