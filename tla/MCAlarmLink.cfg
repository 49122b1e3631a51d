SPECIFICATION Spec
CONSTANTS
    SeqModulus <- MCSeqModulus
    WindowSize <- MCWindowSize
    BootModulus <- MCBootModulus
    MaxRetries <- MCMaxRetries
    QueueSize = 2
    EmitterVolatileIds = {}
    CentralVolatileIds <- MCBehindIds
    MaxSeq = 3
    MaxBoots = 2
    MaxCentralBoots = 2
CONSTRAINT
    MCBound
INVARIANTS
    AtMostOncePerBoot
    SessionAgreement
    NeverShutOut
PROPERTIES
    LinkDelivers
