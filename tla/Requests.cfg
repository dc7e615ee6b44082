CONSTANTS
    g1 = g1
    g2 = g2
    m1 = m1
    m2 = m2
    r = r
    Goroutines = {g1, g2}
    Workers = {g1}
    Requests = {r}
    Models = {m1, m2}
    Setups <- MCSetups
    MaxOpenConns = 2
    MaxTxs = 2
    MaxDepth = 2
    MaxRoutes = 2
    MaxShared = 3
    NoReq = NoReq
    DBs = 3
    Points <- MCPoints
    MaxInt = 200
    NoKey = NoKey
    NotANumber = NotANumber
    NoDB = NoDB
SPECIFICATION Spec
INVARIANTS TypeOK StatementsStayInTx NothingInvalidatedEarly InvalidationsDone NoOpenTxLeft IdOfOwnRequest
PROPERTY HooksKeepContract
CHECK_DEADLOCK FALSE
