SPECIFICATION FairSpec
CONSTANTS
    d1 = d1
    r1 = r1
    r2 = r2
    Free = Free
    Holders = {d1, r1, r2}
    Deploys = {d1}
    TTL = 8
    Renewal = 3
    Retry = 1
    Margin = 4
    Answer = 2
INVARIANTS
    TypeOK
    HoldsWhatItWorksUnder
    UnwindsAlone
PROPERTIES
    ImplementsReservation
    ImplementsLease
    TakesEnd
CHECK_DEADLOCK FALSE
