\* Two catch-up helpers, a queue and a batch of two, three writes.
SPECIFICATION FairSpec
CONSTANTS
    Room = {r1}
    None = None
    Reader = {x1, x2}
    QueueSize = 2
    BatchSize = 2
    MaxIndex = 1
    MaxWrites = 3
INVARIANTS
    TypeOK
    CacheNotAhead
    StopDrains
PROPERTIES
    KeepsPromise
    EventuallyWritten
