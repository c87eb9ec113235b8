SPECIFICATION FairSpec
CONSTANTS
    None = None
    Proc = {p1}
    Client = {c1, c2}
    TimedClients = {c2}
    MaxOut = 2
    Cap = 2
    FileMax = 2
PROPERTIES
    WaitReturns
    ContextsFreed
CHECK_DEADLOCK FALSE
