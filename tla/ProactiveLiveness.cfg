\* A background scan and a direct scan over one event of the mail.
CONSTANTS
    e1 = e1
    e2 = e2
    y1 = y1
    y2 = y2
    s1 = s1
    s2 = s2
    v1 = v1
    v2 = v2
    v3 = v3
    Gone = Gone
    NoScan = NoScan
    Events = {e1}
    Types = {y1}
    TypeOf <- OneType
    Calendar = {}
    Versions = {v1, v2}
    Loud <- V1Loud
    Scans = {s1, s2}
    Origin <- DirectOrigin
    Delivery = "notify"
    MaxTime = 2
    QuietTimes = {1}
    DayOf <- NewDay
    Cooldown = 1
    DailyCap = 1
    MaxFailures = 0
SPECIFICATION FairSpec
PROPERTIES
    UnwantedDisappears
CHECK_DEADLOCK FALSE
