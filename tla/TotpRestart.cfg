SPECIFICATION Spec
CONSTANTS
    Handlers = {h1, h2}
    Secrets = {k1, k2}
    Batches = {b1, b2}
    CodesPerBatch = 2
    NoRow = NoRow
    NoSecret = NoSecret
    NoBatch = NoBatch
    NoCode = NoCode
PROPERTIES
    ActiveUntilDisabled
SYMMETRY Symmetry
CHECK_DEADLOCK FALSE
