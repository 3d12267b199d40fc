\* A test leaves a process behind that keeps the pipes, and pytest ends.
SPECIFICATION RunnerSpec
CONSTANTS
    ImportError = ImportError
    AssertionError = AssertionError
    Failed = Failed
    Children = {c1}
    Tests = {t1, t2}
    Collectors = {file}
    Known = {ImportError, AssertionError}
    Unknown = {Failed}
    Matched = {ImportError, AssertionError}
    Guesses = {ImportError}
    Nothing = Nothing
    class <- MCClass
CHECK_DEADLOCK FALSE
INVARIANT
    NothingSurvives
