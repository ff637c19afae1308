SPECIFICATION FairSpec
CONSTANTS
    Tasks = {t1}
    Roots = {r1}
    SharedSessions = FALSE
    SignalsFail = FALSE
    ReapFails = FALSE
    WorkersFail = FALSE
    RootOf <- OneRoot
PROPERTIES
    StopTakesEffect
    TimeoutReleasesAdmission
CHECK_DEADLOCK FALSE
