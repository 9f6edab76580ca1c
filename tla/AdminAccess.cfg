SPECIFICATION GuardSpec
CHECK_DEADLOCK FALSE
CONSTANTS
    Browsers = {b1}
    Requests = {r1, r2}
    Devices = {d1, d2}
    Codes = {c1}
    Challenges = {h1, h2}
    MaxKeys = 2
    MaxEvents = 2
    MaxDevices = 1
    Callers = {l1, l2, l3}
    Limit = 2
    MaxReports = 2
    MaxWindows = 1
    MaxOutages = 1
    None = none
    Reports = {rp}
    Mailers = {m1, m2}
    Week = 2
    Month = 3
    LastDay = 3
    MaxClicks = 2
    MaxUpsets = 1
SYMMETRY Alike
INVARIANTS
    ValidIsEarned
    CodesOnce
    DevicesCapped
    LimitIsExact
    ReportsOnce
