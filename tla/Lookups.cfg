CONSTANTS
    g1 = g1
    g2 = g2
    r1 = r1
    r2 = r2
    uk = uk
    ck = ck
    a = a
    b = b
    Goroutines = {g1, g2}
    TxClients = {g1}
    Rows = {r1, r2}
    Contents = {a, b}
    Uniques = {uk}
    Conditions = {ck}
    Selected <- SelectA
    InitTables <- OneRow
    MaxWrites = 2
    Faults = {"redis", "db", "commit", "crash"}
    None = None
    Miss = Miss
    Failed = Failed
SPECIFICATION FairSpec
INVARIANTS TypeOK MappingWasCommitted WrongMappingExplained AnswersWereTrue LookupsSeeOwnWrites
PROPERTY EventuallyRight
