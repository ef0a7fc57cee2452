SPECIFICATION FairSpec
CONSTANTS
    RingSize = 4
    Pipeline = TRUE
    OrderedRelease = FALSE
    Threads = {}
    AddToSingleUser = FALSE
    CanAlert = TRUE
    MaxBatch = 2
    MaxUsers = 2
    MaxSeq = 5
INVARIANT SupplierInv
INVARIANT NoReuseWhileInUse
INVARIANT GateIsReleasedPrefix
INVARIANT AllReturnedFreesRing
PROPERTY ImplementsPool
PROPERTY GateMonotone
PROPERTY EventuallyFreed
