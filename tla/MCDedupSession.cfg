SPECIFICATION DedupSpec
CONSTANTS
    SeqModulus <- MCSeqModulus
    WindowSize <- MCWindowSize
    MaxLap <- MCMaxLap
INVARIANTS
    AtMostOnce
    FirstArrivalAccepted
