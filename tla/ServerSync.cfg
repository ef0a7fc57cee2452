SPECIFICATION FairSyncSpec
CONSTANTS
    Sources = {0, 1}
    Ticks = {0, 1, 2}
    MaxPackets = 3
    CanFailSend = TRUE
INVARIANT AnnouncedWasForwarded
PROPERTY SyncCatchesUp
