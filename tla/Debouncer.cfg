\* Any use: bursts, cancels and submissions right after a cancel.
SPECIFICATION FairSpec
CONSTANTS
    Paths = {p1, p2}
    Tasks = {t1, t2, t3}
    NoTask = NoTask
    Delay = 2
    MaxTime = 5
    MaxSubmits = 3
INVARIANTS
    TypeOK
    EntriesAgree
    NoLostSubmission
PROPERTIES
    QuietBurstsFire
