SPECIFICATION Spec
CONSTANTS
    Logins = {l1, l2, l3}
    TenMinutes = 2
    Hour = 3
    Day = 4
    Week = 5
    RequestTimeout = 1
    Starts = {4, 8}
    MaxTried = 10
    MaxTime = 3
INVARIANTS
    TypeOK
    GuessesCounted
    LockHoldsForNewcomers
    FiveFailuresLock
    LockIsEarned
SYMMETRY Symmetry
CHECK_DEADLOCK FALSE
