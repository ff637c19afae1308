SPECIFICATION FairSpec
CONSTANTS
    MaxTurns = 2
    Places = {"inPlace", "created", "reused"}
    MaxTroubles = 2
CHECK_DEADLOCK FALSE
INVARIANTS
    TypeOK
    NoForgottenAgent
    WorktreesAreSafe
PROPERTIES
    StopIsKept
