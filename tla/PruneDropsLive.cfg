SPECIFICATION Spec
CONSTANTS
    d1 = d1
    d2 = d2
    d3 = d3
    b1 = b1
    p1 = p1
    Nothing = Nothing
    Deploys = {d1, d2, d3}
    Rollbacks = {}
    Prunes = {p1}
    RouterCount = 1
    Keep = 3
    PruneKeeps = {0, 1}
    MaxFaults = 1
    MaxLost = 1
SYMMETRY Symmetry
INVARIANTS
    ServedStaysUp
CHECK_DEADLOCK FALSE
