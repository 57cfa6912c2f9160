\* Two peers, each with its own room; the values are alike.
SPECIFICATION Spec
CONSTANTS
    Stream = {i1, i2}
    Method = {JoinRoom, ListRooms}
    Server = {s1}
    Room = {r1, r2}
    None = None
INVARIANT
    AnswersItsRequest
