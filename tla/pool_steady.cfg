SPECIFICATION Spec
CONSTANTS
    c1 = c1  c2 = c2  c3 = c3
    w1 = w1  w2 = w2  w3 = w3  w4 = w4
    h1 = h1  h2 = h2  h3 = h3  h4 = h4
    f1 = f1
    None = None
    Calls <- ThreeCalls
    Conns <- FourConns
    Handles <- ThreeHandles
    Files <- OneFile
    Min = 1
    Max = 2
    HasSettings = TRUE
    Timeouts = {0, 2}
    Faults = {}
    AppOps = {"txn", "schema", "steal"}
    Overlap = {}
    MaxAdmin = 2
SYMMETRY Symmetry
INVARIANTS
    NoOrphan
    NoLeakedSlot
PROPERTIES
    LeaseContract
CHECK_DEADLOCK FALSE
