\* Any options and answers, with the user editing at any moment.
SPECIFICATION FairSpec
CONSTANTS
    Contents = {v1, v2}
    Missing = Missing
    NoHash = NoHash
    MaxHeal = 2
    MaxEdits = 2
INVARIANTS
    TypeOK
    HealsAreAllowed
    ReportsLastTest
    UnfinishedIsRetried
PROPERTIES
    UndisturbedIsRight
    RunsEnd
