SPECIFICATION Spec
CONSTANTS
    Keys = {"k1", "k2"}
    MaxMsgs = 5
    CanLose = TRUE
    CanFail = TRUE
INVARIANT NewestSessionServes
INVARIANT ReportsFromOwner
