SPECIFICATION Spec
CONSTANTS
    l1 = l1
    l2 = l2
    u1 = u1
    u2 = u2
    s1 = s1
    s2 = s2
    NoUser = NoUser
    NoPeriod = 0
    MaxCommissions = 1
    Leads = {l1}
    Users = {u1}
    Periods <- MCPeriods
    Sessions = {s1, s2}
INVARIANTS TypeOK NotPendingOnSlip
SYMMETRY Symmetry
CHECK_DEADLOCK FALSE
