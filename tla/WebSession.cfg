SPECIFICATION FairSpec
CONSTANTS
    Calls = {c1, c2}
    Sids = {s1, s2}
    NoSid = NoSid
    NoRoute = NoRoute
    Retries = 1
    MaxClicks = 2
INVARIANTS
    TabTypeOK
PROPERTIES
    BounceIsRight
    TokenFollowsCookie
    NavigationSettles
CHECK_DEADLOCK FALSE
