\* An edit during a run and its undoing.
SPECIFICATION Spec
CONSTANTS
    Contents = {v1, v2}
    Missing = Missing
    NoHash = NoHash
    MaxHeal = 1
    MaxEdits = 3
INVARIANTS
    SkippedWasTested
