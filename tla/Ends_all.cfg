CONSTANTS
    Parts = {"mcp", "registry", "video", "op", "waits", "dialogs",
             "loads", "observer", "routes", "open", "python", "typescript"}
    Missing = Missing
    NoProcess = NoProcess
    Stranger = Stranger
    Sends = 3
    AgentCrashes = 1
    PythonTears = TRUE
    TypeScriptTears = FALSE
    Starts = 2
SPECIFICATION FairSpec
INVARIANTS
    TransportsHold
PROPERTIES
    EverythingEnds
CHECK_DEADLOCK FALSE
