\* One transfer, with more crashes, failing calls and foreign writes than in Transfer.cfg.
CONSTANTS
    Gone = Gone
    Nil = Nil
    x = x
    y = y
    a = a
    b = b
    c = c
    Docs = {x, y}
    Tasks = {a, b, c}
    Attached = {a}
    Deletable = {b}
    InitDoc <- TwoDocs
    MaxId = 4
    MaxTxn = 1
    MaxCrashes = 2
    MaxFaults = 2
    MaxEdits = 1
SPECIFICATION Spec
PROPERTIES
    CommandsEnd
    RecoverySettles

