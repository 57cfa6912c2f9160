SPECIFICATION OrderedSpec
CONSTANTS
    c1 = c1
    c2 = c2
    r1 = r1
    Client = {c1, c2}
    Room = {r1}
    NoRoom = NoRoom
    Creator <- MCCreator
    Plans <- MCPlans
    Window = 2
    LoadLimit = 2
    CatchUpLimit = 2
    QueueSize = 2
    MaxMsgs = 3
    MaxSubs = 1
INVARIANT
    NoKeyReuse
PROPERTIES
    EveryMessageOpens
    EventuallyShown
CHECK_DEADLOCK FALSE
