\* An undo after another program has added a task.
CONSTANTS
    Gone = Gone
    Nil = Nil
    x = x
    y = y
    a = a
    b = b
    c = c
    Docs = {x, y}
    Tasks = {a, b, c}
    Attached = {a}
    Deletable = {b}
    InitDoc <- TwoDocs
    MaxId = 4
    MaxTxn = 1
    MaxCrashes = 0
    MaxFaults = 0
    MaxEdits = 1
SPECIFICATION Spec
PROPERTY NextUniqueIdNeverRegresses
