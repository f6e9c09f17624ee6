SPECIFICATION FairSpec
CONSTANTS
    Users = {u1}
    NoUser = NoUser
    Hooks = {h1}
    Homes = {q1}
    Worker = Worker
    MaxTaste = 2
    MaxFaults = 1
CHECK_DEADLOCK FALSE
INVARIANTS TypeOK FreshnessHonest 
 
