CONSTANTS
    Parts = {"capture", "audit", "preview", "numbers", "routes", "intercept",
             "observer", "extract", "frames", "snapshot", "snapshots",
             "batch", "settings", "instructions"}
    d = d
    a = a
    b = b
    buy = buy
    remove = remove
    c1 = c1
    c2 = c2
    c3 = c3
    NoFile = NoFile
SPECIFICATION Spec
SYMMETRY Symmetry
INVARIANTS
    
    RefsHold
    SettingsHold
PROPERTIES
    ContentSteps
CHECK_DEADLOCK FALSE
