SPECIFICATION Spec
CONSTANTS
    Handlers = {h1, h2}
    Orgs = {o1, o2}
    Emails = {e1, e2}
    Ids = {i1, i2}
    InviteTtl = 1
    MaxTime = 2
    NoInvite = NoInvite
    NoId = NoId
    NoUser = NoUser
    NoRole = NoRole
INVARIANTS
    TypeOK
    AcceptedInTime
    LoneAccountsWereInvited
PROPERTIES
    ImplementsTeam
SYMMETRY Symmetry
CHECK_DEADLOCK FALSE
