SPECIFICATION Spec
CONSTANTS
    a = a
    b = b
    a1 = a1
    x = x
    None = None
    Names <- MCNames
    Restored <- MCRestored
    Outside <- MCOutside
    MaxOps = 5
    MaxCrashes = 1
CHECK_DEADLOCK FALSE
INVARIANTS
    TypeOK
    BytesSurvive
    IdsAreStable
    TrashIsComplete
    UndoRestores
    
