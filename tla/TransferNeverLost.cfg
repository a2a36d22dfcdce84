\* A crash in the middle of undoing a move.
CONSTANTS
    Gone = Gone
    Nil = Nil
    x = x
    y = y
    a = a
    b = b
    c = c
    Docs = {x, y}
    Tasks = {a, b, c}
    Attached = {a}
    Deletable = {b}
    InitDoc <- TwoDocs
    MaxId = 4
    MaxTxn = 1
    MaxCrashes = 1
    MaxFaults = 0
    MaxEdits = 0
SPECIFICATION Spec
INVARIANT NeverLost
