SPECIFICATION Spec
CONSTANTS
    Programs = {"packetBlaster", "clasBlaster", "clasBlasterNTP", "packetBlasterOld", "packetBlasterSmall", "Clas12DataSender"}
    Second = 4
    BytesAtOnce = 2
    SocketBytes = 3
    BufSizes = {1, 3}
    Rates = {1, 3}
    SockCounts = {1, 2}
    Repeats = {0, 2}
    LoopModulus = 4
    SmallCount = 2
    DelayPrescale = 2
    MaxSend = 2
    MaxOversleep = 1
    MaxBufs = 5
INVARIANT NoDrift
INVARIANT NeverTooFast
INVARIANT SyncHasAddress
INVARIANT AnnouncedRateFair
CHECK_DEADLOCK FALSE
