CONSTANTS
    p1 = p1
    p2 = p2
    g1 = g1
    g2 = g2
    g3 = g3
    k1 = k1
    k2 = k2
    Instances = {p1, p2}
    Goroutines = {g1, g3}
    InstanceOf <- TwoInstances
    Writers = {g1, g3}
    TxClients = {g1}
    Keys = {k1, k2}
    InitRows = {k1}
    EnableL1Cache = FALSE
    MaxOpenConns = 1
    MaxStamp = 3
    MaxHooks = 2
    Faults = {"redis", "db", "commit", "crash"}
    None = None
SPECIFICATION Spec
INVARIANTS CachedWasCommitted StaleRowExplained DirtyReadsStayLocal
