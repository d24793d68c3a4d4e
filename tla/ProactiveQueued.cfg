\* Two queued scans, one of the dashboard, and one calendar event.
CONSTANTS
    e1 = e1
    e2 = e2
    y1 = y1
    y2 = y2
    s1 = s1
    s2 = s2
    v1 = v1
    v2 = v2
    v3 = v3
    Gone = Gone
    NoScan = NoScan
    Events = {e1}
    Types = {y1}
    TypeOf <- OneType
    Calendar = {e1}
    Versions = {v1, v2, v3}
    Loud <- Rising
    Scans = {s1, s2}
    Origin <- QueuedOrigin
    Delivery = "notify"
    MaxTime = 3
    QuietTimes = {2}
    DayOf <- NewDay
    Cooldown = 2
    DailyCap = 1
    MaxFailures = 2
SPECIFICATION FairSpec
INVARIANT TypeOK
PROPERTIES
    DealtWithStaysAway
    CooldownIsKept
    WithheldIsDelivered
CHECK_DEADLOCK FALSE
