SPECIFICATION TurnOutputSpec
CONSTANTS
    Tasks = {t1}
    AckRequired = TRUE
    MaxQueued = 3
    Window = 1
    MaxTerminal = 1
    MaxOutputs <- Two
    Streams = {stdout}
    LineBreaks = {"inside"}
    Subscribed = FALSE
    MaxSubs = 2
    MaxAttempts = 1
CHECK_DEADLOCK FALSE
INVARIANTS
    CompleteMeansNothingLost
