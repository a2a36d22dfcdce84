\* One document of two tasks, room for a third.
CONSTANTS
    InitTree <- Documents
    MaxId = 3
    MaxHistory = 2
    MaxEdits = 3
    Names = {"ann"}
    OtherDocs = {"other"}
SPECIFICATION Spec
CHECK_DEADLOCK FALSE
INVARIANTS
    TypeOK
    TreeIsForest
    SaveIsLossless
PROPERTIES
    EditsKeepDependenciesAcyclic
    FollowsTimeline
