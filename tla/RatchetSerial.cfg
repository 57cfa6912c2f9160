\* Two goroutines that never overlap; window 3, chain indices 0..5.
SPECIFICATION SerialSpec
CONSTANTS
    Room = {r1}
    Window = 3
    UI = ui
    Loop = {l1}
    MaxIndex = 5
INVARIANTS
    TypeOK
    DecryptIsClosedForm
    LabelIsKeyIndex
PROPERTY
    HandlersReturn
