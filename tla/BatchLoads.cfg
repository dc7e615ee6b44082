CONSTANTS
    g1 = g1
    g2 = g2
    g3 = g3
    k1 = k1
    k2 = k2
    k3 = k3
    Goroutines = {g1, g2}
    Keys = {k1, k2, k3}
    InitRows = {k1, k2}
    Pages <- MCPages
    MaxRedisBatch = 2
    MaxDBIn = 2
    MaxStamp = 3
    Faults = {"redis", "db"}
SPECIFICATION Spec
SYMMETRY Symmetry
INVARIANTS TypeOK NoRowLost RightRow StaleRowExplained
