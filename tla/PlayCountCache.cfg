SPECIFICATION Spec
CONSTANTS
    Songs = {s1}
    Readers = {q1}
    Queries <- MCQueries
    NoCount = NoCount
    MaxPlay = 2
    MaxOpen = 1
    MaxNamespace = 3
    MaxCrashes = 1
    Outages = TRUE
CHECK_DEADLOCK FALSE
INVARIANTS TypeOK NoUndercount AnswerFresh
