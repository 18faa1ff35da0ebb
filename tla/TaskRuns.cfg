SPECIFICATION Spec
CONSTANTS
    e1 = e1
    w1 = w1
    w2 = w2
    c1 = c1
    NoHandle = NoHandle
    Executions = {e1}
    Tasks = {e1}
    Deliverers = {w1, w2}
    Callers = {c1}
    Expiry = "ahead"
    Ordered = FALSE
    MaxReceives = 0
    ReceiptHandles = TRUE
    CallersFail = TRUE
    LateRenewals = TRUE
    MaxFaults = 2
    MaxAttempts = 2
    MaxDelivery = 1
SYMMETRY Symmetry
INVARIANTS
    TypeOK
    OneOwner
PROPERTIES
    SettledStays
    LeaseRespected
    NoEarlyStart
    ImplementsLifecycle
CHECK_DEADLOCK FALSE
