\* A sign-in beside the job, three ids, a lifetime of three units.
CONSTANTS
    p1 = p1
    NoSub = 0
    Job = Job
    Subs = {1, 2, 3}
    Signers = {p1}
    Lifetime = 3
    RenewWithin = 1
    KeepBeyond = 2
SPECIFICATION FairSpec
INVARIANTS
    TypeOK
    NeverOptimistic
PROPERTIES ServedAgain
