\* Two fair turns of two conversations, two model calls each.
CONSTANTS
    t1 = t1
    t2 = t2
    t3 = t3
    t4 = t4
    c1 = c1
    c2 = c2
    u1 = u1
    NoConv = NoConv
    Turns = {t1, t2}
    Convs <- TwoConvs
    Users = {u1}
    Owner <- OneOwner
    MaxApprovals = 2
    MaxIterations = 2
SPECIFICATION FairSpec

PROPERTIES TurnTerminates
CHECK_DEADLOCK FALSE
