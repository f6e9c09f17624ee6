SPECIFICATION AccessSpec
CONSTANTS
    Senders = {s1, s2}
    Verifiers = {v1, v2}
    Faulty = {s1, s2, v1, v2}
    MaxCode = 2
    MaxAttempts = 1
    Outages = {"latest"}
    MarksVerified = TRUE
    AdminColumns = {"plan", "quality", "roles", "banned"}
    MaxPeriods = 2
    MaxBegun = 2
    Users = {u1, u2}
    NoUser = NoUser
    NoProfile = NoProfile
    MaxSubmissions = 2
    MaxEdits = 4
    MaxStops = 1
    MaxNames = 3
    MaxUploads = 3
    Collections = {c1, c2}
    NoAlbum = NoAlbum
    MaxMoves = 4
SYMMETRY Symmetry
CHECK_DEADLOCK FALSE
INVARIANTS
    CodesSound PremiumLasts DecisionsStand FilesMatch AlbumsFilled
PROPERTIES
    StepsMeant
