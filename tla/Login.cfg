\* Two users, two buttons pressed, a server to be created; back to the login page too.
SPECIFICATION Spec
CONSTANTS
    s1 = s1
    s2 = s2
    r1 = r1
    r2 = r2
    User = {u1, u2}
    NoUser = NoUser
    Pass = {p1}
    MaxLogins = 2
    Server = {s1}
    Room = {}
    NoServer = NoServer
    NoRoom = NoRoom
    ServerOf <- MCServerOf
    Protected = {s1}
    Standing = {}
    MaxActs = 2
    MaxRoutines = 3
    MaxFaults = 1
INVARIANTS
    TypeOK
    SessionAgrees
    KeysAreOnDisk
