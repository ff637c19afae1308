SPECIFICATION Spec
CONSTANTS
    Tasks = {t1}
    Roots = {r1}
    SharedSessions = FALSE
    SignalsFail = TRUE
    ReapFails = FALSE
    WorkersFail = FALSE
    RootOf <- OneRoot
INVARIANTS
    NoSignalAfterReap
CHECK_DEADLOCK FALSE
