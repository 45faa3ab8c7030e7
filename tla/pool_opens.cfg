SPECIFICATION FairSpec
CONSTANTS
    c1 = c1  c2 = c2  c3 = c3
    w1 = w1  w2 = w2  w3 = w3  w4 = w4
    h1 = h1  h2 = h2  h3 = h3  h4 = h4
    f1 = f1
    None = None
    Calls <- ThreeCalls
    Conns <- FourConns
    Handles <- FourHandles
    Files <- OneFile
    Min = 2
    Max = 0
    HasSettings = TRUE
    Timeouts = {}
    Faults = {"open"}
    AppOps = {}
    Overlap = {"admin"}
    MaxAdmin = 3
PROPERTIES
    OpensSettle
CHECK_DEADLOCK FALSE
