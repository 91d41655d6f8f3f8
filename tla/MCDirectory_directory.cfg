SPECIFICATION OperatorSpec
CONSTANTS
    None = None
    Users = {u1, u2}
    Groups = {g1, g2}
    Emails = {e1, e2}
    Made = {u2, g2}
    Reqs = {r1, ctl}
    Ctl = ctl
    Name = u1
    GroupName = g1
    MaxRequests = 2
    MaxDisturbances = 2
INVARIANTS
    EmailUnique
    MembershipAgrees
PROPERTIES
    NoRevival
    DeletionCompletes
    NameReleased
CHECK_DEADLOCK FALSE
