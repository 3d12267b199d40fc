\* A test is written by hand while one is generated.
SPECIFICATION Spec
CONSTANTS
    Contents = {v1}
    Missing = Missing
    NoHash = NoHash
    MaxHeal = 1
    MaxEdits = 1
PROPERTIES
    HandwrittenSurvives
