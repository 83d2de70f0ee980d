CONSTANTS
    a1 = a1  a2 = a2  a3 = a3  b1 = b1  b2 = b2  b3 = b3  b4 = b4
    u1 = u1  u2 = u2  none = none
    Sessions = {u1}
    Openings = {b1}
    Applications = {a1, a2}
    Users = {u1, u2}
    NoUser = none
    Slots = {1, 2}
    Employees = {a1, a2, a3}
    Departments = {b1}
    Positions = {b3, b4}
    NoKey = none
    Niks = {a1, a2, a3}
    Codes = {u1, u2}
    Levels = {1, 2}
    MaxChanges = 1
    Contracts = {a1, a2}
    Workers = {b1}
    LastDay = 4
    Templates = {b1, b2}
    Tasks = {a1, a2, a3}
    Assignments = {b3, b4}
    Joiners = {b1}
    Reviews = {a1, a2}
    Articles = {a1, a2, a3}
    Titles = {b1, b2}
    LastDate = 2
    Periods = {b1, b2, b3, b4}
    Assessed = {a1}
    Results = {a2, a3}
    Months = {1, 2, 3, 4}
    Configs <- MCConfigs
    Forms <- MCForms
    Scores = {56, 100}
    Dates = {1, 2, 3}
    MaxConfigs = 2
    MaxLetters = 3
SPECIFICATION BoundedPeople
INVARIANTS
    PeopleTypeOK HiredInOrder NothingLost 
PROPERTIES
    RecordsHold
CHECK_DEADLOCK FALSE
