SPECIFICATION Spec
CONSTANTS
    r1 = r1
    r2 = r2
    r3 = r3
    Requests = {r1, r2, r3}
    Capacity = 2
    TTL = 4
    MaxAhead = 1
    MaxBehind = 1
    MaxLag = 1
    Faults <- AllFaults
SYMMETRY Interchangeable
INVARIANTS TypeOK CapHolds SlotKept
PROPERTIES RefusalJustified ImplementsLeases
