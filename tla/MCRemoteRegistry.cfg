SPECIFICATION Spec
CONSTANTS
    r1 = r1
    r2 = r2
    r3 = r3
    Nobody = Nobody
    Remotes <- MCRemotes
    SeqModulus <- MCSeqModulus
    WindowSize <- MCWindowSize
    BootModulus <- MCBootModulus
    TableSize = 2
    ClockModulus = 4
    StaleTimeout = 1
    OfflineTimeout = 2
    CheckPeriod = 1
    MaxDelay = 1
    MaxBoots = 2
    MaxSeq = 2
    MaxNow = 4
SYMMETRY MCSymmetry
INVARIANTS
    TypeOK
    AtMostOnceWhileKnown
    StateTellsSilence
PROPERTIES
    LongestSilentLeaves
    ReplayMovesNothing
