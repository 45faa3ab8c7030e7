SPECIFICATION Spec
CONSTANTS
    t1 = t1  t2 = t2  t3 = t3
    d1 = d1  d2 = d2
    None = None
    Txns <- ThreeTxns
    Conns <- TwoConns
    Steps = 2
    Faults = {"begin", "commit"}
    MaxCrashes = 1
SYMMETRY Symmetry
INVARIANTS
    AllOrNothing
    NoDanglingTxn
CHECK_DEADLOCK FALSE
