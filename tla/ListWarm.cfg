CONSTANTS
    g1 = g1
    g2 = g2
    g3 = g3
    Goroutines = {g1, g2, g3}
    InitialVersion = 1
    MaxStamp = 2
    MaxHooks = 1
    Faults = {"db", "commit", "crash"}
SPECIFICATION Spec
SYMMETRY Symmetry
INVARIANTS TypeOK ListFresh ListReadsFresh
