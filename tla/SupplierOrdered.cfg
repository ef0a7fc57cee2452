SPECIFICATION Spec
CONSTANTS
    RingSize = 4
    Pipeline = FALSE
    OrderedRelease = TRUE
    Threads = {t1, t2}
    AddToSingleUser = FALSE
    CanAlert = FALSE
    MaxBatch = 2
    MaxUsers = 3
    MaxSeq = 6
PROPERTY ImplementsPool
CHECK_DEADLOCK FALSE
