SPECIFICATION Spec
CONSTANTS
    MaxId = 2
    MaxBirths = 2
    Columns = {"a", "limit"}
    ForeignKey = "a"
    Default <- MCDefault
    NewModels <- MCNewModels
    Stored = {1, 2, Null}
    Assigned = {1, 2}
    Wheres <- MCWheres
    FilterKeys = {"limit"}
    InsertModes = {"default", "ForceAutoGeneration"}
    Null = Null
    Absent = Absent
PROPERTIES
    NeverAnotherRow
    OnlyMatching
    OthersKept
    AnswersHonest
CHECK_DEADLOCK FALSE
