\* One catch-up helper for a room whose first message is being written.
SPECIFICATION FairSpec
CONSTANTS
    Room = {r1}
    None = None
    Reader = {x1}
    QueueSize = 1
    BatchSize = 1
    MaxIndex = 0
    MaxWrites = 1
PROPERTY
    GetLastIndexReturns
