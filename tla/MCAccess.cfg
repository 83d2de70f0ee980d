CONSTANTS
    u1 = u1  u2 = u2  u3 = u3  r1 = r1  d1 = d1  w1 = w1  p1 = p1  p2 = p2
    t1 = t1  t2 = t2  t3 = t3  t4 = t4  e1 = e1  e2 = e2  e3 = e3  no = no  s1 = s1  s2 = s2
    Sessions = {s1, s2}
    Logins = {u1}
    Passwords = {p1, p2}
    Resets = {r1}
    Joins <- MCJoins
    LockTime = 2
    ResetTime = 2
    MaxTime = 3
    AccessTime = 1
    RefreshTime = 2
    MaxHalves = 5
    Roles = {r1, d1, w1}
    Executives = {d1, w1}
    Codes = {p1}
    RolesOf <- MCRolesOf
    LevelOf <- MCLevelOf
    MaxTrail = 3
    Things = {t1, t2, t3, t4}
    RuleOf <- MCRuleOf
    About <- MCAbout
    Settings <- MCSettings
    NoOne = no
    UserOf <- MCUserOf
    H30 = 4
    H14 = 2
    H7 = 1
    H3 = 1
    LastDay = 2
    MaxRetries = 2
SPECIFICATION BoundedSpec
INVARIANTS
    TypeOK AccessHolds
PROPERTIES
    AccessSteps DueIsTold
CHECK_DEADLOCK FALSE
