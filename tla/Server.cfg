SPECIFICATION FairSpec
CONSTANTS
    r1 = r1
    r2 = r2
    Requests = {r1, r2}
    PoolSize = 1
    EnvLayers <- MCEnvLayers
    FileLayers <- MCFileLayers
INVARIANTS
    TypeOK
    FailsClosed
    AnswersTruly
PROPERTY
    StopsWhenTold
CHECK_DEADLOCK FALSE
