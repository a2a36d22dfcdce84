\* Four saves of one document; any call may fail, any step may be the last one.
CONSTANTS
    Gone = Gone
    Torn = Torn
    MaxVersion = 4
    PutBackMayFail = FALSE
SPECIFICATION Spec
INVARIANTS
    TypeOK
    SavedVersionSurvives
PROPERTIES
    FailedSaveKeepsOriginal
    SavesAtomically
CHECK_DEADLOCK FALSE
