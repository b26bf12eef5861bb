CONSTANTS
    Parts = {"clickTabs", "clickWaits", "clickStealth", "dialogs", "dialogClones", "loads",
             "waits", "emulation", "swipes", "cliEmulation", "insets", "recorder"}
    name = name
    street = street
    home = home
    shop = shop
    t1 = t1
    t2 = t2
SPECIFICATION Spec
SYMMETRY Symmetry
INVARIANTS
    ClicksHold
    DialogsHold
    WaitsHold
    EmulationHolds
PROPERTIES
    PageSteps
CHECK_DEADLOCK FALSE
