\* Two generations of a test, and a rollback to the baseline.
SPECIFICATION Spec
CONSTANTS
    daemon = daemon
    command = command
    d1 = d1
    d2 = d2
    c1 = c1
    Processes = {daemon, command}
    Threads = {d1, d2, c1}
    home <- MCHome
    Files = {f1}
    Codes = {v1, v2}
    Attempts = {0, 1}
    Missing = Missing
    Torn = Torn
    Nobody = Nobody
    MaxOps = 3
CHECK_DEADLOCK FALSE
INVARIANT
    RestoresEarliest
