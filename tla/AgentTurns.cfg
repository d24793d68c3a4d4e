\* Two turns that may overlap, and a briefing, with two iterations each and a
\* budget of two calls; one thing is lost.  Three rows are read (200 in the
\* code), so that a card may lie beyond them.
CONSTANTS
    t1 = t1
    t2 = t2
    b1 = b1
    None = None
    Turns = {t1, t2}
    Briefings = {b1}
    Earlier <- MCEarlier
    Messages <- MCMessages
    Replies <- MCReplies
    CategoryBudget <- MCBudgets
    MaxIterations = 2
    HistoryRows = 3
    MonthlyBudget = 2
    MaxCost = 1
    MaxConcurrent = 2
    MaxFaults = 1
SPECIFICATION Spec
INVARIANTS
    TypeOK
    ProposalsAnswerRequests
    RepliesAreBacked
    OverspendIsBounded
CHECK_DEADLOCK FALSE
