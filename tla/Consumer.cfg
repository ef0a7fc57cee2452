SPECIFICATION Spec
CONSTANTS
    Setups <- AllSetups
    Users = {1}
    QSize = 2
    TickModulus = 16
    RestartGap = 4
    DefaultBufLen = 2
    Fcount = 2
    LoopMax = 2
    RollLimit = 3
INVARIANT IntactUntilLapped
INVARIANT NumberIsTheEvents
INVARIANT QueueSizeTracks
INVARIANT NoRestartWhileRising
INVARIANT ReportedFromWindow
INVARIANT PrintedOnce
