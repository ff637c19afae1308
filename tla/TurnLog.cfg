SPECIFICATION FairSpec
CONSTANTS
    Kinds = {"text", "snapshot", "oversized"}
    MaxEvents = 2
    MaxMounts = 2
    Disturbances = {"fail", "lose", "report", "remount", "generation", "close"}
    MaxDisturbances = 2
    MaxAttempts = 1
    MaxBatch = 2
CHECK_DEADLOCK FALSE
INVARIANTS
    TypeOK
    EveryEventAccountedFor
    WritersAgreeWithTheStore
PROPERTIES
    SealEndsTheSlot
    RowsOnlyGrow
