SPECIFICATION Spec
CONSTANTS
    c1 = c1
    c2 = c2
    Worker = Worker
    Consumers = {c1, c2}
    Batching = {c1}
    Ordered = {c2}
    Limits = {0, 1}
    InFlight = 2
    MaxReceive = 2
    MaxWaiting = 2
    MaxLeaving = 1
INVARIANTS
    TypeOK
    SlotsAccounted
PROPERTIES
    NeverOverbooked
