\* A public server or room is one whose password is never wrong.
SPECIFICATION Spec
CONSTANTS
    Client = {a, b}
    Server = {s1}
    Room = {r1}
    ServerOf <- MCServerOf
    None = None
    Visibility = {"password", "private"}
    Stream = {i1, i2}
    MaxInbox = 1
INVARIANTS
    TypeOK
    NoMemberMissed
    OneKeyPerRoom
    ShownCanBeJoined
SYMMETRY Symmetry
