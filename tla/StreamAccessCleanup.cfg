SPECIFICATION Spec
CONSTANTS
    Rows = {r1, r2}
    Requests = {q1, q2}
    Faulty = {q1, q2}
    Grants = {g1}
    NoRow = NoRow
    NoGrant = NoGrant
    AdFrequency = 1
    AdsAvailable = TRUE
    Plans <- AnyPlan
    MaxDay = 2
    GrantMaxAge = 1
    UnusedTTL = 1
    AbandonedTTL = 1
    UsedTTL = 1
SYMMETRY Symmetric
CHECK_DEADLOCK FALSE
INVARIANTS RowLockHeld 
