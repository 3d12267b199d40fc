\* Two paths, two workers: the same path wanted by both workers, reruns,
\* drain() and stop() at every point.
SPECIFICATION FairSpec
CONSTANTS
    Paths = {p1, p2}
    Workers = {w1, w2}
    NoPath = NoPath
    MaxSubmits = 4
INVARIANTS
    TypeOK
    MutualExclusion
    BookkeepingExact
    DrainCovers
PROPERTIES
    ImplementsPathGuard
    ChangesAreHandled
    CallersReturn
