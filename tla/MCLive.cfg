SPECIFICATION LiveSpec
CONSTANTS
    a1 = a1  a2 = a2
    m1 = m1
    n1 = n1
    None = None
    Agent = {a1, a2}
    BusName = {w1, w2}
    Machine = {m1}
    Name = {n1}
    Test = {}
    Role = {}
    Uuid = {u1, u2}
    MaxHosts = 2
    MachineOf <- MCSameMachine
    HostnameOf <- MCHostnameOf
    Reconnecting = {a1, a2}
    EarlyAgents = {}
    MaxChannel = 1
    ReadSize = 3
    SimplexCredit = 1
    MultiplexCredit = 2
    LineSize = 2
    SockSize = 1
    MaxSend <- BothSend
    Closers = {"host"}
PROPERTIES
    DeadAgentsNoticed
    RegistrationCompletes
    DataArrives
    CloseArrives
CHECK_DEADLOCK FALSE
