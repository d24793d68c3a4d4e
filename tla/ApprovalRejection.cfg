\* A proposal, a Yes and a No.
CONSTANTS
    t1 = t1
    t2 = t2
    t3 = t3
    t4 = t4
    c1 = c1
    c2 = c2
    u1 = u1
    NoConv = NoConv
    Turns = {t1, t2, t3}
    Convs <- OneConv
    Users = {u1}
    Owner <- OneOwner
    MaxApprovals = 1
    MaxIterations = 1
SPECIFICATION Spec
INVARIANT RejectionCancels

CHECK_DEADLOCK FALSE
