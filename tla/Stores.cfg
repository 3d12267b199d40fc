\* Every operation on the stores, by threads of two processes.
SPECIFICATION Spec
CONSTANTS
    daemon = daemon
    command = command
    d1 = d1
    d2 = d2
    c1 = c1
    Processes = {daemon, command}
    Threads = {d1, d2, c1}
    home <- MCHome
    Files = {f1}
    Codes = {v1, v2}
    Attempts = {0, 1}
    Missing = Missing
    Torn = Torn
    Nobody = Nobody
    MaxOps = 4
SYMMETRY Symmetry
CHECK_DEADLOCK FALSE
INVARIANTS
    TypeOK
    LocksSuffice
    SnapshotsMatch
