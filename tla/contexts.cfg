SPECIFICATION FairSpec
CONSTANTS
    r1 = r1  r2 = r2  o1 = o1  o2 = o2  main = main  log1 = log1
    s1 = s1  s2 = s2  s3 = s3
    x0 = x0  x1 = x1  x2 = x2  x3 = x3  x4 = x4
    None = None
    Default = x0
    Requests <- TwoRequests
    Ops <- OneOp
    Names <- BothNames
    Sessions <- ThreeSessions
    PoolOf <- ScarceMain
    Holders <- Dictionaries
    EarlyOps = FALSE
    Faults = {"open", "commit"}
INVARIANTS
    Isolation
    NoLeak
    OutcomeHonest
    SameConnection
PROPERTIES
    Served
CHECK_DEADLOCK FALSE
