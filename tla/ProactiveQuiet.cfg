\* Background scans over one event.
CONSTANTS
    e1 = e1
    e2 = e2
    y1 = y1
    y2 = y2
    s1 = s1
    s2 = s2
    v1 = v1
    v2 = v2
    v3 = v3
    Gone = Gone
    NoScan = NoScan
    Events = {e1}
    Types = {y1}
    TypeOf <- OneType
    Calendar = {}
    Versions = {v1, v2}
    Loud <- AllLoud
    Scans = {s1}
    Origin <- QueuedOrigin
    Delivery = "notify"
    MaxTime = 3
    QuietTimes = {2}
    DayOf <- OneDay
    Cooldown = 2
    DailyCap = 1
    MaxFailures = 0
SPECIFICATION Spec
INVARIANT QuietHoursAreQuiet
CHECK_DEADLOCK FALSE
