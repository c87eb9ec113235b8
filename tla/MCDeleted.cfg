SPECIFICATION MCSpec
CONSTANTS
    Host = {h1}
    Test = {t1, t2}
    Command = {c1}
    Process = {p1}
    File = {f1, f2}
    Global = Global
    Name = {stdout}
    Role = {sut}
    HostHome = {t2}
    FileHome = {c1}
    None = None
    Nil = Nil
    Path = {"root", "host", "proc"}
    Root = "root"
    Up <- MCUp
    Class = {"container", "hostclass", "procclass"}
    Super <- MCSuper
    ClassOf <- MCClassOf
    Interface = {"Container", "Host", "Process", "Fileset", "Hostset"}
    Compatible <- MCCompatible
    FeatureServices <- MCFeatureServices
    Methods <- MCMethods
    HasProperty = {"Host"}
    Method = {"delete"}
    Value = {1}
    MaxCalls = 3
    TmpFile = {g1}
    Proc = {q1, q2, q3}
    Nothing = Nothing
    Source <- MCSource
    ReadOnly = {g1}
    Chunk = 2
    SizeMax = 4
    HostData <- MCHostData
    Changes = 1
INVARIANT NoCallToFreed
CHECK_DEADLOCK FALSE
