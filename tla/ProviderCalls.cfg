\* Calls of chat() by coroutines that share a rate limiter.
SPECIFICATION FairSpec
CONSTANTS
    Callers = {a, b}
    Interval = 2
    MaxRetries = 1
    BaseDelay = 2
    MaxDelay = 3
    Jitters = {0, 1}
    MaxTime = 1
    MaxCalls = 3
CHECK_DEADLOCK FALSE
INVARIANTS
    TypeOK
    CallsAreSpaced
    GivesUpRightly
PROPERTIES
    CallsEnd
