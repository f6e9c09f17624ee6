SPECIFICATION Spec
CONSTANTS
    Rows = {r1, r2, r3}
    Requests = {q1, q2}
    Faulty = {q1, q2}
    Grants = {g1, g2}
    NoRow = NoRow
    NoGrant = NoGrant
    AdFrequency = 2
    AdsAvailable = TRUE
    Plans <- FreeOnly
    MaxDay = 0
    GrantMaxAge = 0
    UnusedTTL = 0
    AbandonedTTL = 0
    UsedTTL = 0
SYMMETRY Symmetric
CHECK_DEADLOCK FALSE
INVARIANTS TypeOK PlayedOnce AdBound
