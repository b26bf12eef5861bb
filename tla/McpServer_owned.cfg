CONSTANTS
    Clients = {c1, c2}
    Prewarmers = {p1}
    Closers = {k1, k2}
    Tabs = {t1, t2, t3}
    Chromes = {b1, b2}
    UserChrome = b1
    Profiles = {phone}
    NoTab = NoTab
    NoChrome = NoChrome
    NoProfile = NoProfile
    NoActor = NoActor
    Attached = FALSE
    InitScripts = FALSE
    ProbeTimesOut = FALSE
SPECIFICATION Spec
SYMMETRY Symmetry
INVARIANTS
    TypeOK
    NothingAfterClose
    CloseDoneIsFinal
    NoOrphanChrome
    BoundPageHolds
    EmulationReplayed
