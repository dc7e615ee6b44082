CONSTANTS
    g1 = g1
    g2 = g2
    g3 = g3
    Goroutines = {g1, g2, g3}
    InitialVersion = 0
    MaxStamp = 3
    MaxHooks = 2
    Faults = {}
SPECIFICATION Spec
SYMMETRY Symmetry
INVARIANT ListFresh
