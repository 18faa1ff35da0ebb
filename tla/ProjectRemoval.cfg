SPECIFICATION Spec
CONSTANTS
    d1 = d1
    d2 = d2
    r1 = r1
    r2 = r2
    e1 = e1
    e2 = e2
    Project = Project
    Free = Free
    Environments = {e1, e2}
    Named = {}
    Deploys = {d1, d2}
    Removals = {r1, r2}
SYMMETRY Symmetry
INVARIANTS
    TypeOK
    RemovesAlone
    NothingOrphaned
PROPERTIES
    ImplementsAccess
    LeavesOnlyAmid
CHECK_DEADLOCK FALSE
