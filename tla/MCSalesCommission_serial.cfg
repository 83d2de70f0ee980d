SPECIFICATION Spec
CONSTANTS
    l1 = l1
    l2 = l2
    u1 = u1
    u2 = u2
    s1 = s1
    s2 = s2
    NoUser = NoUser
    NoPeriod = 0
    MaxCommissions = 2
    Leads = {l1, l2}
    Users = {u1}
    Periods <- MCPeriods
    Sessions = {s1}
INVARIANT WinsPaidOnce
PROPERTY LockedLinesStay
CHECK_DEADLOCK FALSE
