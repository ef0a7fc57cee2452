SPECIFICATION Spec
CONSTANTS
    Ticks = {1, 2}
    Offsets = {0, 1}
    ShortTicks = {}
    RingSize = 4
    FastMapMax = 2
    SlowMapMax = 1
    FastStore = 1
    SlowStore = 1
    RestartGap = 5
    DumpModes = {FALSE}
    CanExit = FALSE
    MaxCopies = 0
    MaxCopiesRead = 0
    MaxTime = 0
    MaxSeq = 3
INVARIANT ReadsWholeBuffers
