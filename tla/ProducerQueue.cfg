SPECIFICATION FairSpec
CONSTANTS
    Classes = {"EjfatProducer", "serverProducer"}
    Bad = {"argument", "uri", "socket"}
    QSize = 2
    MaxEvents = 5
    Explicit = FALSE
    EmptyEvents = {2}
    Blocking = TRUE
    Direct = FALSE
    CanFail = TRUE
INVARIANT SentAsAccepted
INVARIANT CallbackAfterSend
PROPERTY EventuallyCalled
