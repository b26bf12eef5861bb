CONSTANTS
    Tabs = {t1, t2, t3}
    Sites = {site}
    Blank = Blank
    Gone = Gone
    Unknown = Unknown
    Strikes = 2
    PageIdle = 1
    IdleTimeout = 1
    Leased = TRUE
    CanBeBusy = TRUE
SPECIFICATION FairSpec
INVARIANTS
    TypeOK
    DeadOnlyAfterStrikes
PROPERTIES
    CleanupKeepsChrome
    ServeEnds
CHECK_DEADLOCK FALSE
