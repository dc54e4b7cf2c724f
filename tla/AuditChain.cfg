SPECIFICATION FairSpec
CONSTANTS
    Writers <- MCWriters
    Events <- MCEvents
    PoolSize <- MCPoolSize
    NoWriter = NoWriter
    NoEvent = NoEvent
INVARIANTS
    TypeOK
    ChainIntact
    HashCommitsToHistory
PROPERTIES
    ImplementsAuditLog
    WriterFinishes
CHECK_DEADLOCK FALSE
