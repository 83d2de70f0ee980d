CONSTANTS
    p1 = p1  q1 = q1  q2 = q2  w1 = w1  w2 = w2  c1 = c1  v1 = v1  v2 = v2
    i1 = i1  i2 = i2  s1 = s1  s2 = s2
    Sessions = {s1, s2}
    Projects = {p1}
    Works = {q1, q2}
    Subtasks = {w1, w2}
    Comments = {c1}
    Members = {i1}
    Writers = {v1, v2}
    Phases = {q1, q2}
    Epics = {c1}
    Invoices = {i1}
    Totals = {2}
    Amounts = {1, 2}
    PhaseInputs = {"IN_PROGRESS", "COMPLETED"}
    InvoiceInputs = {"CANCELLED"}
    Names <- MCNames
    AskedVersions = {10, 12}
    MaxDocuments = 3
    Placements = {q1}
    Complaints = {c1}
    Kpis = {i1}
    ClientCodes = {1, 2}
    Ends = {0, 1}
    Rates = {0, 1}
    LetterDates = {1, 2, 3, 4}
    Ratings = {v1, v2}
    MaxSpos = 4
    MaxAmendments = 2
    Sheets = {q1, q2}
    Items = {i1, i2}
    Reports = {w1, w2}
    SheetMonths = {1, 2}
    SheetDays = {1, 2}
    Leads = {q1}
    Numbers = {1, 2}
    Targets = {c1}
    ProposalIds = {w1, w2}
    Specs <- MCSpecs
    MaxItems = 3
    MaxActivities = 1
SPECIFICATION BoundedDelivery
SYMMETRY DeliverySymmetry
INVARIANTS
    DeliveryTypeOK NumberedOnce SheetsAddUp
PROPERTIES
    SentWhenDue SettledStays
CHECK_DEADLOCK FALSE
