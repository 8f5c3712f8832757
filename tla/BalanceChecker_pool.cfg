CONSTANTS
    Addrs = {"A1", "A2", "A3"}
    Tokens = {"T1", "T2"}
    Balances = {"1", "2"}
    InitChain <- MCInitChain
    InitStore <- MCInitStore
    NoRow = NoRow
    MaxGoroutines = 2
    MaxChainSteps = 1
    MaxProxyErrors = 1
    MaxEsErrors = 1
SPECIFICATION Spec
CHECK_DEADLOCK FALSE
INVARIANTS TypeOK PoolBounded
PROPERTY CheckAllRefined
