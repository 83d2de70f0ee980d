SPECIFICATION Spec
CONSTANTS
    p1 = p1
    p2 = p2
    c1 = c1
    c2 = c2
    c3 = c3
    c4 = c4
    s1 = s1
    s2 = s2
    Jt = 1
    Ptkp = 54
    Slips = {p1, p2}
    Ids = {c1, c2, c3, c4}
    Amounts <- MCAmounts
    Taxes <- MCTaxes
    Entries <- MCEntries
    Sessions = {s1, s2}
    Exclusive = TRUE
    MayFail = FALSE
INVARIANTS TypeOK TotalsMatchLines MoreLeavesMore
PROPERTY TaxesBorne
SYMMETRY Symmetry
CHECK_DEADLOCK FALSE
