SPECIFICATION BusySpec
CONSTANTS
    c1 = c1
    c2 = c2
    u1 = u1
    a = a
    b = b
    c = c
    Clients = {c1, c2}
    Refreshes = {}
    Repositories = {a}
    Order <- OneSource
    Configured <- OneConfigured
    RulesOf <- NoRules
    Path <- Asked
    CacheWrites = {a}
    Mutable = FALSE
    Threshold = 2
    Recovery = 2
    NegativeTTL = 1
    MaxAttempts = 2
    ChecksumPath = FALSE
    MaxValidations = 2
    MaxCancels = 1
    MaxPattern = 4
    MaxPath = 3
    NoEntry = NoEntry
    NoRepository = NoRepository
CHECK_DEADLOCK TRUE
INVARIANT TypeOK
PROPERTY ProbesSpaced
PROPERTY FetchEnds
PROPERTY CircuitRecovers
