SPECIFICATION Spec
CONSTANTS
    Requests = {q1, q2}
    Faulty = {q1, q2}
    Identities = {i1, i2}
    NoIdentity = NoIdentity
    MaxRow = 2
    MaxToken = 3
SYMMETRY Symmetry
CHECK_DEADLOCK FALSE
INVARIANTS TypeOK RotatedOnce EndedUnusable
PROPERTIES EndedNotExchanged
