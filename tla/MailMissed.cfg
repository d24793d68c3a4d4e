\* One mail after the baseline, nothing fails.
CONSTANTS
    Server = Server
    Reconciler = Reconciler
    MaxMail = 1
    OldMail = 1
    MaxPages = 2
    Coalesce = 1
    MinInterval = 2
    MaxFailures = 0
SPECIFICATION FairScansSpec
PROPERTIES MissedMailIsScanned
