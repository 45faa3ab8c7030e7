SPECIFICATION Spec
CONSTANTS
    v1 = v1  v2 = v2
    None = None
    MaxId = 4
    Values <- TwoValues
    Nested = FALSE
    LateTriggers = FALSE
    MaxToggles = 2
SYMMETRY Symmetry
INVARIANTS
    OwnContext
    OnlyPendingHold
CHECK_DEADLOCK FALSE
