SPECIFICATION FairSpec
CONSTANTS
    n1 = n1
    n2 = n2
    n3 = n3
    q1 = q1
    Requests = {n1, n2, q1}
    Tenant <- MCTenant
    Cap <- OneSlot
    Burst <- OneToken
    Cost <- MCCost
    PoolSize = 2
    CommandsFail = TRUE
INVARIANTS TypeOK InFlightBounded QuietNotRefused NothingLeftBehind
PROPERTY Answered
