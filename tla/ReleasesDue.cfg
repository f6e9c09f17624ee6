SPECIFICATION FairSpec
CONSTANTS
    Releases = {r1, r2}
    Songs = {s1, s2}
    NoSong = NoSong
    MaxTime = 2
    Limit = 1
    MaxBroken = 1
    MaxLost = 0
    MaxAdditions = 0
    MaxEdits = 0
CHECK_DEADLOCK FALSE
PROPERTIES DuePublished
