SPECIFICATION OrgSpec
CONSTANTS
    u1 = u1
    u2 = u2
    p1 = p1
    p2 = p2
    User = {u1, u2}
    Provider = {p1, p2}
    Founder <- MCFounder
    MaxMember = 2
    Call = {c1, c2}
PROPERTY LastOwnerStays
CHECK_DEADLOCK FALSE
