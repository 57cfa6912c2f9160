SPECIFICATION Spec
CONSTANTS
    r1 = r1
    r2 = r2
    u1 = u1
    Newcomer = me
    Asked = {r1}
    Room = {r1, r2}
    NoRoom = NoRoom
    Owned = {r1, r2}
    Helper = {g1}
    User = {u1, me}
    Written <- MCWritten
    Limit = 1
    MaxRetries = 1
    MaxInbox = 1
    MaxJoins = 3
INVARIANT
    KeyIsTheRooms
