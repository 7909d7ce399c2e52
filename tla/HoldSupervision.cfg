\* A session, one reload of its extension, and two hold processes at a time.
SPECIFICATION HoldSpec
CONSTANTS
    Apps = {e1, e2}
    Holds = {h1, h2}
    NoApp = NoApp
    NoHold = NoHold
    Dud = Dud
INVARIANTS OneHold
PROPERTIES ServedInTheEnd OrphanLeaves
CHECK_DEADLOCK FALSE
