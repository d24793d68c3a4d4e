\* Two questions with a proposal each, in two conversations, and a Yes.
CONSTANTS
    r1 = r1
    r2 = r2
    r3 = r3
    c1 = c1
    c2 = c2
    None = None
    Requests = {r1, r2, r3}
    Threads = {c1, c2}
    HistoryRows = 6
    MaxLosses = 0
SPECIFICATION Spec
INVARIANT YesStaysInItsConversation
CHECK_DEADLOCK FALSE
