\* Two mails and one before, an interval of three timer delays, one failure.
CONSTANTS
    Server = Server
    Reconciler = Reconciler
    MaxMail = 2
    OldMail = 1
    MaxPages = 2
    Coalesce = 1
    MinInterval = 3
    MaxFailures = 1
SPECIFICATION FairScansSpec
INVARIANTS
    ScansTypeOK
PROPERTIES
    ScansAreSpaced
    HintedMailIsScanned
