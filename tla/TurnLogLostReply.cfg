SPECIFICATION Spec
CONSTANTS
    Kinds = {"text"}
    MaxEvents = 2
    MaxMounts = 1
    Disturbances = {"lose"}
    MaxDisturbances = 1
    MaxAttempts = 1
    MaxBatch = 2
CHECK_DEADLOCK FALSE
INVARIANTS
    SealedLogIsComplete
