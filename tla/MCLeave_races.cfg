SPECIFICATION Spec
CONSTANTS
    e1 = e1
    u0 = u0
    u1 = u1
    u2 = u2
    paid = paid
    unpaid = unpaid
    r1 = r1
    r2 = r2
    s1 = s1
    s2 = s2
    NoUser = NoUser
    Employees = {e1}
    Eligible = {e1}
    Users = {u0, u1, u2}
    UserOf <- MCUserOf
    Approvers = {u0, u1, u2}
    LeaveTypes = {paid}
    PaidTypes = {paid}
    DefaultDays <- MCTwoType
    Dates <- MCTwoDays
    Workdays <- MCTwoDays
    YearOf <- MCSameYear
    Requests = {r1, r2}
    Sessions = {s1, s2}
INVARIANTS TypeOK NoOverdraw IndependentApproval
SYMMETRY SymmetryPairs
CHECK_DEADLOCK FALSE
