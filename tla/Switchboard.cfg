SPECIFICATION FairSpec
CONSTANTS
    r1 = r1
    c1 = c1
    c2 = c2
    k1 = k1
    k2 = k2
    u1 = u1
    u2 = u2
    Nothing = Nothing
    First = u1
    Requests = {r1}
    Rollouts = {c1, c2}
    Keys = {k1, k2}
    Upstreams = {u1, u2}
INVARIANTS
    TypeOK
    DrainedIsOver
    CutsOnlyReplaced
    RoutedRuns
    StopsDrained
    DrainsHear
PROPERTIES
    DrainsEnd
CHECK_DEADLOCK FALSE
