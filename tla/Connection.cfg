\* Two browsers, a background reader and a request.
CONSTANTS
    b1 = b1
    b2 = b2
    r1 = r1
    r2 = r2
    Browsers = {b1, b2}
    Readers = {r1, r2}
    Background = {r1}
SPECIFICATION FairSpec
INVARIANTS
    TypeOK
    SignedOutStaysOut
PROPERTY ConnectedInTheEnd
CHECK_DEADLOCK FALSE
