CONSTANTS
    Parts = {"op", "log", "context", "contexts", "profileLocks",
             "profileStops", "profileGc", "open", "video", "videos", "removal"}
    n1 = n1
    n2 = n2
    n3 = n3
    c1 = c1
    c2 = c2
    m1 = m1
    m2 = m2
    NoTab = NoTab
    NoRec = NoRec
SPECIFICATION Spec
SYMMETRY Symmetry
INVARIANTS
    OpsHold
    LogHolds
    SharedHold
    WorkHolds
PROPERTIES
    SessionSteps
CHECK_DEADLOCK FALSE
