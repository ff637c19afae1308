SPECIFICATION FairTurnOutputSpec
CONSTANTS
    Tasks = {t1}
    AckRequired = TRUE
    MaxQueued = 3
    Window = 1
    MaxTerminal = 1
    MaxOutputs <- Three
    Streams = {stdout}
    LineBreaks = {"none", "end"}
    Subscribed = TRUE
    MaxSubs = 1
    MaxAttempts = 2
CHECK_DEADLOCK FALSE
INVARIANTS
    RendererTypeOK
    CompleteMeansNothingLost
    NoTornLine
PROPERTIES
    WindowReleased
    CompletedTurnSettles
