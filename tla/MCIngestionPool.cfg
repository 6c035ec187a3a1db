\* Two consumers, two producers, one caller of drain(), the smallest
\* threshold; contracts a and c share a partition.
SPECIFICATION FairSpec
CONSTANTS
    a = a
    b = b
    c = c
    Keys = {a, b, c}
    Producers = {p1, p2}
    Drainers = {d1}
    WorkerCount = 2
    MaxQueueSize = 1
    MaxItems = 3
    hashKey <- MCHash
INVARIANTS
    PerKeyOrder
    NoItemLost
    PromisesKept
PROPERTIES
    ImplementsChannel
    EverythingSettles
