SPECIFICATION Spec
CONSTANTS
    Logins = {l1, l2}
    TenMinutes = 2
    Hour = 3
    Day = 4
    Week = 5
    RequestTimeout = 1
    Starts = {8}
    MaxTried = 11
    MaxTime = 4
PROPERTIES
    LockoutIsProgressive
CHECK_DEADLOCK FALSE
