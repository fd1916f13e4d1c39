SPECIFICATION FairSpec
CONSTANTS
    f1 = f1
    f2 = f2
    f3 = f3
    b1 = b1
    r1 = r1
    r2 = r2
    Foreground = {f1, f2, f3}
    Background = {b1}
    Repositories = {r1, r2}
    GlobalLimit = 2
    RepositoryLimit <- OneNarrow
    Burst = 2
CHECK_DEADLOCK TRUE
INVARIANT TypeOK
INVARIANT PermitsBalanced
INVARIANT LimitsRespected
INVARIANT WorkConserving
PROPERTY ImplementsAdmission
PROPERTY RefreshWaitsItsTurn
PROPERTY FirstComeFirstServed
PROPERTY UnrestrainedServed
