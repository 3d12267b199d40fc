\* Saves, moves, deletions, start and stop in any order.
SPECIFICATION FairSpec
CONSTANTS
    Paths = {p1, p2}
    Workers = {w1}
    Cleaners = {k1, k2}
    Contents = {v1, v2}
    Broken = Broken
    Missing = Missing
    MaxEdits = 2
INVARIANTS
    TypeOK
    ApartIsClean
    StoppedIsSilent
PROPERTIES
    Settles
