CONSTANTS
    PirDebounces = {1, 2}
    TimbreDebounce = 1
    QueueSize = 1
    JoinTime = 2
    WifiRetry = 2
    MaxRestarts = 1

SPECIFICATION Spec
INVARIANTS
    OncePerActivation
PROPERTIES
    ActivationIsDetected
    LevelIsLearnt
    WifiIsJoined
