SPECIFICATION Spec
CONSTANTS
    c1 = c1
    c2 = c2
    r1 = r1
    Client = {c1, c2}
    Room = {r1, r2}
    NoRoom = NoRoom
    Creator <- MCCreator
    Plans <- MCPlans
    Window = 2
    LoadLimit = 1
    CatchUpLimit = 1
    QueueSize = 1
    MaxMsgs = 2
    MaxSubs = 1
INVARIANTS
    TypeOK
    RatchetSound
    RowsReadable
PROPERTIES
    OwnKeysFresh
    RatchetsAdvance
CHECK_DEADLOCK FALSE
