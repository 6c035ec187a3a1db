\* Every range, chunk size and tip over four ledgers.
SPECIFICATION FairSpec
CONSTANTS
    MaxLedger = 4
    MaxChunk = 3
    MaxRetries = 1
INVARIANTS
    BackfillSafety
PROPERTIES
    IngestEnds
