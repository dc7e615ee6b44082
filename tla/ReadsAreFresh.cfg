CONSTANTS
    p1 = p1
    p2 = p2
    g1 = g1
    g2 = g2
    g3 = g3
    k1 = k1
    k2 = k2
    Instances = {p1}
    Goroutines = {g1, g2, g3}
    InstanceOf <- OneInstance
    Writers = {g1, g2, g3}
    TxClients = {}
    Keys = {k1}
    InitRows = {k1}
    EnableL1Cache = FALSE
    MaxOpenConns = 4
    MaxStamp = 3
    MaxHooks = 2
    Faults = {}
    None = None
SPECIFICATION Spec
INVARIANT ReadsAreFresh
