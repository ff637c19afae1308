SPECIFICATION Spec
CONSTANTS
    Roots = {r1, r2}
    Launches = {l1, l2}
    MaxRevoked = 1
    GlobalLaunches = 2
    RootLaunches = 1
    SavesTear = TRUE
    MaxGeneration = 2
    MaxEpoch = 1
SYMMETRY Symmetry
INVARIANTS
    TypeOK
    RevocationStopsAgents
    OvertakenLaunchNeverStarts
    FreshCloneStaysUntrusted
    DiskMatchesMemory
