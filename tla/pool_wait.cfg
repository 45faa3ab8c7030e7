SPECIFICATION FairSpec
CONSTANTS
    c1 = c1  c2 = c2  c3 = c3
    w1 = w1  w2 = w2  w3 = w3  w4 = w4
    h1 = h1  h2 = h2  h3 = h3  h4 = h4
    f1 = f1
    None = None
    Calls <- ThreeCalls
    Conns <- FourConns
    Handles <- TwoHandles
    Files <- OneFile
    Min = 1
    Max = 1
    HasSettings = FALSE
    Timeouts = {0, 2}
    Faults = {}
    AppOps = {}
    Overlap = {}
    MaxAdmin = 1
INVARIANTS
    WaiterHasReason
PROPERTIES
    NeverForgotten
CHECK_DEADLOCK FALSE
