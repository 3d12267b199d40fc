\* The commands of a user, one after the other, and the edits in between.
SPECIFICATION Spec
CONSTANTS
    k1 = k1
    k2 = k2
    Providers = {"groq", "openai", "ollama"}
    KeyVars <- MCKeyVars
    ContainedIn <- MCContainedIn
    Keys = {k1, k2}
    Empty = Empty
    Blank = Blank
    Unset = Unset
    Malformed = Malformed
    Bad = Bad
    PathOrder <- MCPathOrder
    OutputDir = "tests"
    IgnoreDirs = {"build", "tests"}
    IgnoreFiles = {}
    Patterns = {".py"}
    Imports <- MCImports
    Weight <- MCWeight
    Tests <- MCTests
    Attempts = {0, 1}
    Beginnings <- MCBeginnings
    Targets <- MCTargets
    Dirs <- MCDirs
    Typed = {k1}
    Limits = {1, 5}
    DefaultLimit = 5
    MaxCommands = 3
CHECK_DEADLOCK FALSE
INVARIANTS
    TypeOK
    AgreedKeyIsUsed
    SelectionIsSound
PROPERTIES
    CommandsKeepTheirWord
