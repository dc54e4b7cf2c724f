SPECIFICATION Spec
CONSTANTS
    Handlers = {h1, h2}
    Orgs = {o1}
    Emails = {e1, e2}
    Ids = {i1, i2}
    InviteTtl = 1
    MaxTime = 2
    NoInvite = NoInvite
    NoId = NoId
    NoUser = NoUser
    NoRole = NoRole
PROPERTY
    RefusedForAPending
SYMMETRY Symmetry
CHECK_DEADLOCK FALSE
