\* One run of two tests that fail, fork, hang or skip.
SPECIFICATION RunnerFairSpec
CONSTANTS
    ImportError = ImportError
    AssertionError = AssertionError
    Failed = Failed
    Children = {c1}
    Tests = {t1, t2}
    Collectors = {file}
    Known = {ImportError, AssertionError}
    Unknown = {Failed}
    Matched = {ImportError, AssertionError}
    Guesses = {ImportError}
    Nothing = Nothing
    class <- MCClass
CHECK_DEADLOCK FALSE
INVARIANTS
    RunnerTypeOK
    HungRunsAreReaped
    BlameIsOfAFailure
PROPERTIES
    RunsReturn
