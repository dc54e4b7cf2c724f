SPECIFICATION Spec
CONSTANTS
    Handlers = {h1, h2}
    Users = {u1, u2}
    Orgs = {o1, o2}
    Slugs = {s1, s2}
    Texts = {t1}
    Ids = {i1, i2}
    NoRole = NoRole
    NoRow = NoRow
    NoSlug = NoSlug
    NoText = NoText
    NoId = NoId
    Empty = Empty
INVARIANTS
    TypeOK
    TenantIsolation
    DeletedOnce
PROPERTIES
    ImplementsCatalog
SYMMETRY Symmetry
