SPECIFICATION Spec
CONSTANTS
    a1 = a1  a2 = a2  a3 = a3
    m1 = m1  m2 = m2
    n1 = n1
    None = None
    Agent = {a1, a2, a3}
    BusName = {w1, w2}
    Machine = {m1, m2}
    Name = {n1}
    Test = {}
    Role = {}
    Uuid = {u1, u2, u3}
    MaxHosts = 2
    MachineOf <- MCMachineOf
    HostnameOf <- MCHostnameOf
    Reconnecting = {a1, a2}
    EarlyAgents = {a3}
INVARIANTS
    ReadyHasAgent
    ReadyHostIsServed
SYMMETRY Symmetry
CHECK_DEADLOCK FALSE
