SPECIFICATION FairSpec
CONSTANTS
    Threads = {h1, h2}
    h1 = h1
    h2 = h2
    MaxTurns <- TwoAndOne
    MaxPresses = 2
    MaxSwitches = 1
    MaxRemembered = 1
CHECK_DEADLOCK FALSE
INVARIANTS
    TypeOK
    HardStopsMatchPresses
PROPERTIES
    NothingDiesUnconfirmed
    PressIsFelt
