SPECIFICATION Spec
CONSTANTS
    c1 = c1
    c2 = c2
    u1 = u1
    a = a
    b = b
    c = c
    Clients = {c1}
    Refreshes = {u1}
    Repositories = {a, b}
    Order <- TwoSources
    Configured <- AllConfigured
    RulesOf <- RulesOfAll
    Path <- Asked
    CacheWrites = {a}
    Mutable = TRUE
    Threshold = 1
    Recovery = 1
    NegativeTTL = 1
    MaxAttempts = 1
    ChecksumPath = TRUE
    MaxValidations = 2
    MaxCancels = 0
    NoEntry = NoEntry
    NoRepository = NoRepository
    MaxPattern = 4
    MaxPath = 3
CHECK_DEADLOCK TRUE
INVARIANT NotFoundIsConfirmed
INVARIANT EverySourceTried
INVARIANT RoutedByRules
