\* The header of persistence.rs, checked against a crash between the renames.
CONSTANTS
    Gone = Gone
    Torn = Torn
    MaxVersion = 2
    PutBackMayFail = FALSE
SPECIFICATION Spec
INVARIANT OriginalRemainsAtPath
CHECK_DEADLOCK FALSE
