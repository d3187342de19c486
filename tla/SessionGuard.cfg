SPECIFICATION Spec
CONSTANTS
    Counters <- MCCounters
    WSize = 3
    Width = 4
    HardTimeout = 2
    IdleTimeout = 2
    Threshold = 2
    Keys = {k1}
    MaxTime = 2
    MaxMissed = 3
INVARIANTS TypeOK WindowInv FreshNotRejected
PROPERTIES NoDoubleAccept FiltersReplays
