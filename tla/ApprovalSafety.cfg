\* Three turns of one conversation race over up to two approvals.
CONSTANTS
    t1 = t1
    t2 = t2
    t3 = t3
    t4 = t4
    c1 = c1
    c2 = c2
    u1 = u1
    NoConv = NoConv
    Turns = {t1, t2, t3}
    Convs <- OneConv
    Users = {u1}
    Owner <- OneOwner
    MaxApprovals = 2
    MaxIterations = 1
SYMMETRY TurnSymmetry
SPECIFICATION Spec
INVARIANTS
    TypeOK
    AtMostOnce
    PendingIsNewest
    AuditTruth
    HonestReply
PROPERTIES
    MovedOnNeverAuthorised
    ImplementsApprovedAction
CHECK_DEADLOCK FALSE
