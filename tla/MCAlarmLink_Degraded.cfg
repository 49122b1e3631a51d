SPECIFICATION Spec
CONSTANTS
    SeqModulus <- MCSeqModulus
    WindowSize <- MCWindowSize
    BootModulus <- MCBootModulus
    MaxRetries <- MCMaxRetries
    QueueSize = 2
    EmitterVolatileIds <- MCBehindIds
    CentralVolatileIds = {}
    MaxSeq = 2
    MaxBoots = 2
    MaxCentralBoots = 1
INVARIANTS
    OnlyFirstSeqsAreLost
