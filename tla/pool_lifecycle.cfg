SPECIFICATION Spec
CONSTANTS
    c1 = c1  c2 = c2  c3 = c3
    w1 = w1  w2 = w2  w3 = w3  w4 = w4
    h1 = h1  h2 = h2  h3 = h3  h4 = h4
    f1 = f1
    None = None
    Calls <- TwoCalls
    Conns <- FourConns
    Handles <- ThreeHandles
    Files <- OneFile
    Min = 3
    Max = 3
    HasSettings = TRUE
    Timeouts = {2}
    Faults = {"open","settings"}
    AppOps = {"txn", "schema", "steal"}
    Overlap = {"admin"}
    MaxAdmin = 3
SYMMETRY Symmetry
INVARIANTS
    TypeOK
    Exclusive
    IdleClean
    IdleUsable
PROPERTIES
    LeaseContract
CHECK_DEADLOCK FALSE
