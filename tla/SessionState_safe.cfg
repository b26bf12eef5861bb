CONSTANTS
    Procs = {p1, p2}
    Targets = {t1, u1}
    UserTabs = {u1}
    PlainFields = {"emulation"}
    Values = {v1}
    NoValue = NoValue
    NoProc = NoProc
    CloseCanFail = TRUE
    MaxEdits = 3
SPECIFICATION Spec
INVARIANTS
    LatestIsCurrent
    RecordsAreTrue
PROPERTIES
    UntouchedFieldsSurvive
    ImplementsCellStore
