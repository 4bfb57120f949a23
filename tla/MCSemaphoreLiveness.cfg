SPECIFICATION FairSpec
CONSTANTS
    r1 = r1
    r2 = r2
    r3 = r3
    Requests = {r1, r2, r3}
    Capacity = 1
    TTL = 2
    MaxAhead = 0
    MaxBehind = 0
    MaxLag = 1
    Faults <- NothingLost
INVARIANT NoOrphans
PROPERTIES RetryAdmitted KeyGoes
