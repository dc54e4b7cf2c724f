SPECIFICATION Spec
CONSTANTS
    Handlers = {h1, h2, h3}
    Secrets = {k1, k2, k3}
    Batches = {b1, b2}
    CodesPerBatch = 2
    NoRow = NoRow
    NoSecret = NoSecret
    NoBatch = NoBatch
    NoCode = NoCode
INVARIANTS
    TypeOK
    CodeUsedOnce
    ActiveHasItsCodes
PROPERTIES
    ImplementsSecondFactor
SYMMETRY Symmetry
CHECK_DEADLOCK FALSE
