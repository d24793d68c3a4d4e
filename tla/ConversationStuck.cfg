\* A reader who goes to another conversation and back before it is loaded.
CONSTANTS
    r1 = r1
    r2 = r2
    r3 = r3
    c1 = c1
    c2 = c2
    None = None
    Requests = {r1, r2}
    Threads = {c1, c2}
    HistoryRows = 2
    MaxLosses = 1
SPECIFICATION Spec
INVARIANT NeverStuck
CHECK_DEADLOCK FALSE
