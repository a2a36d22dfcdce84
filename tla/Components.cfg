\* Each component by itself, from all its initial states.
CONSTANTS
    Nothing = Nothing
    Parts = {"description", "sanitizer", "comments", "index", "views", "xml"}
SPECIFICATION Spec
CHECK_DEADLOCK FALSE
INVARIANTS
    UndoReplays
    TypingSurvives
    ImagesSurvive
    
    PastedContentSurvives
    CommentsKeepText
    IndexMatchesFiles
    SearchStoresAgree
    SavedViewsAgree
    SmartViewsCoverTasks
    DocumentIsLossless
