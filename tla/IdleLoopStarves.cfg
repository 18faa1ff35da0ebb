SPECIFICATION FairSpec
CONSTANTS
    c1 = c1
    c2 = c2
    Worker = Worker
    Consumers = {c1, c2}
    Batching = {}
    Ordered = {}
    Limits = {1}
    InFlight = 2
    MaxReceive = 2
    MaxWaiting = 1
    MaxLeaving = 1
PROPERTIES
    Received
