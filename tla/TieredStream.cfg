SPECIFICATION Spec
CONSTANTS
    Ticks = {1, 2, 11, 12, 13}
    Offsets = {0, 1}
    ShortTicks = {11, 12, 13}
    RingSize = 4
    FastMapMax = 2
    SlowMapMax = 1
    FastStore = 1
    SlowStore = 1
    RestartGap = 5
    DumpModes = {TRUE, FALSE}
    CanExit = TRUE
    MaxCopies = 1
    MaxCopiesRead = 0
    MaxTime = 1
    MaxSeq = 7
INVARIANT BuiltIsWhole
INVARIANT TiersOrdered
INVARIANT NoBufferLost
INVARIANT WaitsForNoneOverdue
INVARIANT StatsBalance
