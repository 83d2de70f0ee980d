SPECIFICATION Spec
CONSTANTS
    p1 = p1
    e1 = e1
    e2 = e2
    finance = finance
    gm = gm
    director = director
    d1 = d1
    d2 = d2
    s1 = s1
    s2 = s2
    NoUser = NoUser
    Periods = {p1}
    Employees = {e1, e2}
    Active = {e1}
    Configured = {e1, e2}
    Days <- MCDays
    LeastDays <- MCLeastDays
    PayDates = {d1, d2}
    Preparers = {finance, director}
    Approvers = {gm, director}
    Sessions = {s1, s2}
    MayFail = TRUE
INVARIANTS TypeOK ApprovalRecorded
SYMMETRY Symmetry
CHECK_DEADLOCK FALSE
