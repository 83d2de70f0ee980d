SPECIFICATION Spec
CONSTANTS
    e1 = e1
    u0 = u0
    u1 = u1
    u2 = u2
    paid = paid
    unpaid = unpaid
    r1 = r1
    r2 = r2
    s1 = s1
    s2 = s2
    NoUser = NoUser
    Employees = {e1}
    Eligible = {e1}
    Users = {u0, u1, u2}
    UserOf <- MCUserOf
    Approvers = {u0, u1, u2}
    LeaveTypes = {paid, unpaid}
    PaidTypes = {paid}
    DefaultDays <- MCDefaultDays
    Dates <- MCDates
    Workdays <- MCWorkdays
    YearOf <- MCYearOf
    Requests = {r1, r2}
    Sessions = {s1}
INVARIANTS BalanceMatchesApproved NoOverlap
PROPERTY ImplementsApproval
SYMMETRY Symmetry
CHECK_DEADLOCK FALSE
