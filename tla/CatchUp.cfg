SPECIFICATION Spec
CONSTANTS
    r1 = r1
    r2 = r2
    u1 = u1
    Newcomer = me
    Asked = {r1}
    Room = {r1, r2}
    NoRoom = NoRoom
    Owned = {r1, r2}
    Helper = {g1, g2}
    User = {u1, me}
    Written <- MCWritten
    Limit = 1
    MaxRetries = 2
    MaxInbox = 2
    MaxJoins = 2
INVARIANTS
    TypeOK
    AnswersAskedRoom
    TopicHeldOrLost
PROPERTIES
    InstalledOnce
    JoinEnds
