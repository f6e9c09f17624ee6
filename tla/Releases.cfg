SPECIFICATION Spec
CONSTANTS
    Releases = {r1, r2}
    Songs = {s1, s2}
    NoSong = NoSong
    MaxTime = 1
    Limit = 1
    MaxBroken = 0
    MaxLost = 1
    MaxAdditions = 1
    MaxEdits = 1
SYMMETRY Symmetry
CHECK_DEADLOCK FALSE
INVARIANTS TypeOK LivePublished
PROPERTIES PublicWithRelease OnlyDuePublished
