SPECIFICATION Spec
CONSTANTS
    Actors = {h1, h2}
    NoSubject = NoSubject
    Subjects = {s1}
    Sockets = {k1}
    MaxRows = 2
    MaxChanges = 3
    MaxFaults = 1
    NoMix = NoMix
    Mixes = {m1}
    Requests = {p1}
    MaxKeys = 2
    MaxPasses = 2
    MaxMixFaults = 1
    Taps = {q1, q2, q3}
    Items = {i1, i2}
    Recommended = {r1, r2}
    Own = {o1}
    MaxClock = 6
    PageSizes = {1, 2}
    NoOrder = NoOrder
    MaxOrder = 2
    MaxWrites = 1
    CachedSongs = {c1}
    NoVersion = NoVersion
    MaxBegun = 2
    MaxRaises = 2
    MaxCacheFaults = 1
    Banners = {1, 2}
    NoList = NoList
    NoTotal = NoTotal
    Admins = {m0}
    MaxServes = 2
    EarningSongs = {1, 2, 3}
    Quanta = 2
    MaxIncome = 2
    MaxPayouts = 2
SYMMETRY Symmetry
CHECK_DEADLOCK FALSE
INVARIANTS
    NoticesReach MixesKept TapsAgree HistoryWhole PlaylistsWhole BannersCounted ListsCurrent SplitsHold
