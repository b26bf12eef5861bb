CONSTANTS
    NoProc = NoProc
    NoManifest = NoManifest
    Clients = {claude, codex}
    Procs = {p1, p2}
    ClientsChange = FALSE
    Purges = FALSE
    EditsAnytime = FALSE
    Faulty = {"install", "switch", "uninstall"}
    MaxFaults = 1
    MaxEdits = 1
    MaxCrashes = 1
SPECIFICATION Spec
SYMMETRY Symmetry
INVARIANTS
    TypeOK
    OneAtATime
    DoctorAgrees
PROPERTIES
    UserFilesStay
CHECK_DEADLOCK FALSE
