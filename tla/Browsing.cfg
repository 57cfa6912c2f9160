\* One user; the second server has no room yet, and its room a password.
SPECIFICATION FairSpec
CONSTANTS
    s1 = s1
    s2 = s2
    r1 = r1
    r2 = r2
    User = {u1}
    NoUser = NoUser
    Pass = {p1}
    MaxLogins = 1
    Server = {s1, s2}
    Room = {r1, r2}
    NoServer = NoServer
    NoRoom = NoRoom
    ServerOf <- MCServerOf
    Protected = {r2}
    Standing = {s1, s2, r1}
    MaxActs = 4
    MaxRoutines = 3
    MaxFaults = 1
INVARIANT
    TopicIsItsServers
PROPERTIES
    PicksFind
    FollowersEnd
