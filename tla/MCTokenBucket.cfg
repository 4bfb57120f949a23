SPECIFICATION Spec
CONSTANTS
    Capacity = 3
    Rate = 2
    Scale = 3
    BucketTTL = 2
    Endpoints <- MCEndpoints
    Cost <- MCCost
    MaxTime = 9
    MaxWindow = 8
    MaxStepBack = 3
INVARIANTS TypeOK WindowBound RetryAfterHonoured RetryAfterTight
PROPERTY ImplementsBudget
