SPECIFICATION SinkSpec
CONSTANTS
    t1 = t1
    t2 = t2
    Tasks = {t1, t2}
    AckRequired = TRUE
    MaxQueued = 3
    Window = 1
    MaxTerminal = 1
    MaxOutputs <- ThreeAndNone
CHECK_DEADLOCK FALSE
INVARIANTS
    TypeOK
PROPERTIES
    CompletedIsClosed
    SinkImplementsChannel
