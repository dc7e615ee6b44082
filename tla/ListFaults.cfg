CONSTANTS
    g1 = g1
    g2 = g2
    g3 = g3
    Goroutines = {g1, g2}
    InitialVersion = 0
    MaxStamp = 1
    MaxHooks = 2
    Faults = {"redis", "db", "commit", "crash", "evict"}
SPECIFICATION FairSpec
PROPERTY EventuallyFresh
