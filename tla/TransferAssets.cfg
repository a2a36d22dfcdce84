\* A rollback long after the interrupted transfer.
CONSTANTS
    Gone = Gone
    Nil = Nil
    x = x
    y = y
    a = a
    b = b
    c = c
    Docs = {x, y}
    Tasks = {a, b, c}
    Attached = {a}
    Deletable = {a, b}
    InitDoc <- TwoDocs
    MaxId = 4
    MaxTxn = 2
    MaxCrashes = 1
    MaxFaults = 0
    MaxEdits = 1
SPECIFICATION Spec
PROPERTY AttachmentInUseStays
