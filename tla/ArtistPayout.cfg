SPECIFICATION Spec
CONSTANTS
    Deposits = {d1, d2, d3}
    NoDeposit = NoDeposit
    Sessions = {s1, s2}
    Admins = {a1}
    AdminTargets <- NoReopening
    Quanta = 2
    MinimumPayout = 1
    PlayWorths <- Worths
    MaxEarned = 7
SYMMETRY Symmetric
CHECK_DEADLOCK FALSE
INVARIANTS TypeOK OneActive
 
