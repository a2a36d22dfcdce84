SPECIFICATION Spec
CONSTANTS
    f1 = f1
    f2 = f2
    home = home
    work = work
    inbox = inbox
    plan = plan
    Flows = {f1, f2}
    Workspaces = {home, work}
    Paths = {inbox, plan}
    Docs <- MCDocs
    FirstDoc <- MCFirstDoc
    MaxOld = 1
    MaxEdits = 3
    MaxSessions = 3
    MaxCalls = 4
    None = None
SYMMETRY Symmetry
INVARIANTS
    TypeOK
    AcknowledgedEditsSurvive
    SessionsKnowTheirFile
    EditsReachTheirDocument
    DroppedSessionsAreForgotten
CHECK_DEADLOCK FALSE
