SPECIFICATION Spec
CONSTANTS
    Requests = {q1, q2}
    AdminColumns = {}
    MaxPeriods = 2
    MaxBegun = 2
SYMMETRY Symmetry
CHECK_DEADLOCK FALSE
INVARIANT HighForPremium
