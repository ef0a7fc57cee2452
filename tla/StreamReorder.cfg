SPECIFICATION Spec
CONSTANTS
    Sources = {"a", "b"}
    EventLength <- MixedEvents
    Ticks = {1, 2}
    Reorder = TRUE
    CanLose = TRUE
    MaxInFlight = 2
    MaxUdpPayload = 1
    PathLimit = 9
    CanFailSend = TRUE
    BufLen = 4
    UintMax = 2
    KnowExpectedTick = FALSE
    CanFailRecv = TRUE
    MaxCopies = 1
    SendFunctions = {"sendBuffer"}
    HeaderBytes = 1
    HeaderGrowth = 1
    Readers = {"getCompletePacketizedBuffer", "getPacketizedBuffer", "getBuffer"}
    JumboBytes = 2
    MaxRejected = 2
INVARIANT DividesOnlyByData
INVARIANT ReturnsEntireBuffer
INVARIANT StatsMatchReturns
INVARIANT StartsWithFirstPacket
