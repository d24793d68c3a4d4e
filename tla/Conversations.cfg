\* Two questions in up to two conversations; one row is lost or one process dies.
CONSTANTS
    r1 = r1
    r2 = r2
    r3 = r3
    c1 = c1
    c2 = c2
    None = None
    Requests = {r1, r2}
    Threads = {c1, c2}
    HistoryRows = 2
    MaxLosses = 1
SPECIFICATION FairSpec
INVARIANTS
    TypeOK
    ShownIsStored
PROPERTIES
    NothingUnanswered
    ComposerComesBack
CHECK_DEADLOCK FALSE
