SPECIFICATION Spec
CONSTANTS
    a1 = a1  a2 = a2
    m1 = m1  m2 = m2
    n1 = n1  n2 = n2
    None = None
    Agent = {a1, a2}
    BusName = {w1, w2}
    Machine = {m1, m2}
    Name = {n1, n2}
    Test = {t1, t2}
    Role = {r1, r2}
    Uuid = {u1, u2}
    MaxHosts = 2
    MachineOf <- MCMachineOf
    HostnameOf <- MCHostnameOf
    Reconnecting = {a2}
    EarlyAgents = {}
SYMMETRY Symmetry
INVARIANTS
    OneHostPerAgent
    ClaimsConsistent
CHECK_DEADLOCK FALSE
