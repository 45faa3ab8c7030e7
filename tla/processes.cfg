SPECIFICATION FairSpec
CONSTANTS
    e1 = e1  e2 = e2
    None = None
    Execs <- MCExecs
    Items <- MCItems
    MaxCalls = 3
    Codes = {0, None}
    Ignoring <- MCIgnoring
    Capturing <- MCFirst
    MaxSpawn = 3
INVARIANTS
    WaitHonest
    RunResolves
    Connected
PROPERTIES
    RunSettles
CHECK_DEADLOCK FALSE
