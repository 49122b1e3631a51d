CONSTANTS
    InitialDelay = 1
    ReconnectInterval = 2
    ConnectTime = 1
    ProbeDeferral = 3
    ProbeAfterFall = 4
    ProbeInterval = 5
    MaxFailures = 3
    MaxRequests = 2
    RequestDelays <- MCRequestDelays
    MotionDuration = 1
    TimbreDuration = 1
    DoorDuration = 1
    SmokeDuration = 2
    FloodDuration = 1
    Codes = {"MOTION", "TIMBRE", "SMOKE", "TAMPER"}

SPECIFICATION Spec
INVARIANTS
    TypeOK
    ToldIsTrue
PROPERTIES
    FailedAttemptsAreSpaced
    AlarmEnds
    SyncFollowsRecovery
    ModeFollowsBroker
