SPECIFICATION MCSpec
CONSTANTS
    None = None
    Proc = {p1, p2}
    Client = {c1, c2}
    TimedClients = {c2}
    MaxOut = 4
    Cap = 2
    FileMax = 2
SYMMETRY ProcSymmetry
INVARIANTS
    OutputComplete
    ResultIsTrue
CHECK_DEADLOCK FALSE
