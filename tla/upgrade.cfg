SPECIFICATION FairSpec
CONSTANTS
    u1 = u1  u2 = u2  parent = parent  child = child
    id = id  a = a  added = added  dropped = dropped  i1 = i1  i2 = i2  r1 = r1
    None = None
    Upgraders <- TwoUpgraders
    Tables <- BothTables
    Cols <- FourCols
    Indexes <- TwoIndexes
    Rows <- OneRow
    Model <- Version2
    Starts <- AllStarts
    Order <- ParentFirst
    Options <- AllOptions
    Enforcing <- OneUpgrader
    Faults = {"statement", "crash"}
    MaxFaults = 1
INVARIANTS
    RowsKept
    NoDebris
    ResolvedIsActual
    ForeignKeysRestored
PROPERTIES
    Converges
CHECK_DEADLOCK FALSE
