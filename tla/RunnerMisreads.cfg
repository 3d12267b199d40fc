\* A file cannot be collected, and its report names something else.
SPECIFICATION RunnerSpec
CONSTANTS
    ImportError = ImportError
    AssertionError = AssertionError
    Failed = Failed
    Children = {c1}
    Tests = {t1, t2}
    Collectors = {file}
    Known = {ImportError, AssertionError}
    Unknown = {Failed}
    Matched = {ImportError, AssertionError}
    Guesses = {ImportError}
    Nothing = Nothing
    class <- MCClass
CHECK_DEADLOCK FALSE
INVARIANT
    TypesAreExact
