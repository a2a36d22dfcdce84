\* Two documents, one task and a stranger, two transfers.
CONSTANTS
    Gone = Gone
    Nil = Nil
    x = x
    y = y
    a = a
    b = b
    c = c
    Docs = {x, y}
    Tasks = {a, b, c}
    Attached = {a}
    Deletable = {b}
    InitDoc <- TwoDocs
    MaxId = 4
    MaxTxn = 2
    MaxCrashes = 1
    MaxFaults = 1
    MaxEdits = 1
SPECIFICATION Spec
INVARIANTS
    TypeOK
    OriginalsSurvive
PROPERTIES
    SourceCutIsProved
    JournalOutlivesDuplicate
    UndoIsComplete
    KeepsCustody

