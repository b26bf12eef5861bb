CONSTANTS
    Clients = {c1}
    Prewarmers = {}
    Closers = {}
    Tabs = {t1, t2, t3}
    Chromes = {b1}
    UserChrome = b1
    Profiles = {phone}
    NoTab = NoTab
    NoChrome = NoChrome
    NoProfile = NoProfile
    NoActor = NoActor
    Attached = TRUE
    InitScripts = FALSE
    ProbeTimesOut = FALSE
SPECIFICATION Spec
SYMMETRY Symmetry
PROPERTIES
    UserTabsSurvive
