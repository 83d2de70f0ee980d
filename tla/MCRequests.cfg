CONSTANTS
    e1 = e1  e2 = e2  u0 = u0  u1 = u1  u2 = u2  w0 = w0  w1 = w1  w2 = w2
    q1 = q1  q2 = q2  p1 = p1  p2 = p2  v1 = v1  s1 = s1  s2 = s2
    NoUser = NoUser  NoVendor = NoVendor
    Sessions = {s1, s2}
    Employees = {e1}
    Users = {u0, u1, u2}
    UserOf <- MCUserOf
    Reimbs = {q1, q2}
    ReimbApprovers = {u0, u1, u2}
    Procs = {q1}
    Buyers = {u0}
    ProcApprovers = {u0, u1, u2}
    Codes = {v1}
    Crs = {q1, q2}
    Editors = {w0, w1, w2}
    Projects = {p1, p2}
    ClientProjects = {p1}
    Costs = {0, 1}
    Seps = {q1, q2}
    Officers = {w0, w1, w2}
    Types = {"RESIGNATION", "TERMINATION"}
    Eligible = {e1, e2}
    Joined <- MCJoined
    Years = {2025}
    References <- MCReferences
    SalaryAt <- MCSalaryAt
    Configs = {q1, q2}
    Pays <- MCPays
    LastDay = 5
    WorkingDays = {1, 2, 4}
    Dates = {1, 6}
    Overtimes = {0, 7}
SPECIFICATION BoundedSpec
SYMMETRY Symmetry
INVARIANTS
    TypeOK SpentAfterTwoLayers ChangesAsApproved OneApprovedSeparation AgreesWithCalendar
PROPERTIES
    PaidStays RequestsAreApprovals
CHECK_DEADLOCK FALSE
