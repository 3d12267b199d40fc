\* Two deletions at once, or one beside a run.
SPECIFICATION Spec
CONSTANTS
    Paths = {p1, p2}
    Workers = {w1}
    Cleaners = {k1, k2}
    Contents = {v1}
    Broken = Broken
    Missing = Missing
    MaxEdits = 2
INVARIANTS
    SettledIsClean
