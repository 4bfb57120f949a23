SPECIFICATION Spec
CONSTANTS
    n1 = n1
    n2 = n2
    n3 = n3
    q1 = q1
    Requests = {n1, n2, n3, q1}
    Tenant <- MCTenant
    Cap <- OneSlot
    Burst <- ThreeTokens
    Cost <- MCCost
    PoolSize = 3
    CommandsFail = FALSE
INVARIANT NoTenantExhaustsPool
