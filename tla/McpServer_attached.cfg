CONSTANTS
    Clients = {c1}
    Prewarmers = {p1}
    Closers = {k1}
    Tabs = {t1, t2, t3}
    Chromes = {b1}
    UserChrome = b1
    Profiles = {phone}
    NoTab = NoTab
    NoChrome = NoChrome
    NoProfile = NoProfile
    NoActor = NoActor
    Attached = TRUE
    InitScripts = TRUE
    ProbeTimesOut = TRUE
SPECIFICATION Spec
SYMMETRY Symmetry
INVARIANTS
    AttachedHolds
