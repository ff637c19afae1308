SPECIFICATION Spec
CONSTANTS
    Tasks = {t1}
    Roots = {r1}
    SharedSessions = TRUE
    SignalsFail = TRUE
    ReapFails = TRUE
    WorkersFail = TRUE
    RootOf <- OneRoot
INVARIANTS
    TypeOK
    SignalsAnchored
    ReleasedGroupIsEmpty
    ReportedExitIsReal
    ShutdownCoversEveryStart
    AdmissionOutlivesProcess
    RevocationAttribution
CHECK_DEADLOCK FALSE
