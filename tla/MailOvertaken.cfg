\* One mail, an ordinary dashboard scan beside the timer, nothing fails.
CONSTANTS
    Server = Server
    Reconciler = Reconciler
    MaxMail = 1
    OldMail = 1
    MaxPages = 2
    Coalesce = 1
    MinInterval = 2
    MaxFailures = 0
SPECIFICATION FairScansSpec
PROPERTIES RunningScanReflectsIt
