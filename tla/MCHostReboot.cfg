SPECIFICATION FairReboot
CONSTANTS
    m1 = m1  n1 = n1
    None = None
    Agent = {a1, a2}
    BusName = {w1, w2}
    Machine = {m1}
    Name = {n1}
    Test = {}
    Role = {}
    Uuid = {u1, u2}
    MaxHosts = 1
    MachineOf <- MCMachineOf
    HostnameOf <- MCHostnameOf
    Reconnecting = {a1, a2}
    EarlyAgents = {}
    Targets <- MCTargets
    Options <- RebootOptions
INVARIANTS
    BackMeansNewAgent
PROPERTY WaitEnds
CHECK_DEADLOCK FALSE
