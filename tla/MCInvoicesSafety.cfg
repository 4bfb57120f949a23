SPECIFICATION Spec
CONSTANTS
    c1 = c1
    g1 = g1
    g2 = g2
    g3 = g3
    Calculations = {c1}
    Generations = {g1, g2, g3}
    TTL = 2
    Price = 2
    MaxEvents = 1
    MaxTime = 6
    Aborts = TRUE
SYMMETRY Interchangeable
INVARIANTS TypeOK IssuedAsQuoted IssuedIsKept NoImmortals IssuedAtIsLatest
CHECK_DEADLOCK FALSE
