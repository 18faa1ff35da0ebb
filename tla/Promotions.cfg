SPECIFICATION Spec
CONSTANTS
    d1 = d1
    d2 = d2
    d3 = d3
    b1 = b1
    p1 = p1
    Nothing = Nothing
    Deploys = {d1, d2}
    Rollbacks = {b1}
    Prunes = {p1}
    RouterCount = 2
    Keep = 2
    PruneKeeps = {0, 1}
    MaxFaults = 1
    MaxLost = 1
SYMMETRY Symmetry
INVARIANTS
    TypeOK
    ActiveIsNewest
    KeptIsUp
    RoutersFollow
    ServedIsUp
PROPERTY
    ImplementsHistory
CHECK_DEADLOCK FALSE
