CONSTANTS
    Clients = {c1, c2}
    Names = {n1, n2}
    Serves = {s1, s2}
    Pids = {p1, p2}
    UserChromes = {u1}
    NoEntry = NoEntry
    NoClient = NoClient
    NoServe = NoServe
    NoChrome = NoChrome
    Nobody = Nobody
    Other = Other
    ProbesTimeOut = TRUE
    MaxOps = 3
SPECIFICATION Spec
SYMMETRY Symmetry
INVARIANTS
    TypeOK
    NeverSignalsInnocent
    OneChromePerProfile
    NoForgottenServe
PROPERTIES
    SessionsSurvive
