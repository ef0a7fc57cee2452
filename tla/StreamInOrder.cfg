SPECIFICATION FairSpec
CONSTANTS
    Sources = {"a"}
    EventLength <- LongEvents
    Ticks = {1, 2, 4, 7}
    Reorder = FALSE
    CanLose = FALSE
    MaxInFlight = 4
    MaxUdpPayload = 4
    PathLimit = 2
    CanFailSend = FALSE
    BufLen = 5
    UintMax = 4
    KnowExpectedTick = TRUE
    CanFailRecv = FALSE
    MaxCopies = 0
    SendFunctions = {"SendNew", "FastNew", "Send", "Sendto", "Sendmsg", "Fast", "sendBuffer", "sendBufferFast"}
    HeaderBytes = 1
    HeaderGrowth = 1
    Readers = {"getCompletePacketizedBuffer", "getCompleteAllocatedBuffer", "getPacketizedBuffer", "getBuffer", "getBufferNoCopy"}
    JumboBytes = 2
    MaxRejected = 2
INVARIANT SentPacketsTile
INVARIANT InOrderIsComplete
INVARIANT DroppedEstimateExact
PROPERTY EventuallyAll
