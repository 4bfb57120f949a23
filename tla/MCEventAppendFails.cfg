SPECIFICATION FairSpec
CONSTANTS
    a1 = a1
    a2 = a2
    a3 = a3
    e1 = e1
    Events = {e1}
    Attempts = {a1, a2}
    TTL = 2
    MaxTime = 3
    Faults <- OnlyAppendFails
PROPERTY DuplicateIsAuthoritative
