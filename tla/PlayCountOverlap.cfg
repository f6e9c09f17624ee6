SPECIFICATION Spec
CONSTANTS
    Songs = {s1}
    Readers = {q1}
    Queries <- MCQueries
    NoCount = NoCount
    MaxPlay = 2
    MaxOpen = 2
    MaxNamespace = 3
    MaxCrashes = 0
    Outages = FALSE
CHECK_DEADLOCK FALSE
INVARIANT NoOldSnapshot
