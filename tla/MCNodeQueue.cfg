SPECIFICATION Spec
CONSTANTS
    QueueSize <- MCQueueSize
    MaxCalls <- MCMaxCalls
INVARIANTS
    CountExact
    Conserved
PROPERTIES
    EvictionRespectsPriority
