SPECIFICATION Spec
CONSTANTS
    Sids = {s1, s2}
    NoSid = NoSid
    NoSession = NoSession
    Requests = {r1, r2}
    IdleTtl = 2
    AbsoluteTtl = 2
    RequestTimeout = 1
    RedisLag = 1
    MaxBusy = 2
    MaxTime = 4
INVARIANTS
    TypeOK
    NoForgedWrite
    RotationRetiresOld
    ServedWithinHardCap
    GoneAfterHardCap
PROPERTIES
    ImplementsSessionLife
SYMMETRY Symmetry
CHECK_DEADLOCK FALSE
