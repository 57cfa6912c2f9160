\* The same goroutines, overlapping as the code lets them.
SPECIFICATION Spec
CONSTANTS
    Room = {r1}
    Window = 3
    UI = ui
    Loop = {l1}
    MaxIndex = 3
INVARIANT
    IndexCountsKeys
