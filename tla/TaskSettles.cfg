SPECIFICATION FairSpec
CONSTANTS
    e1 = e1
    w1 = w1
    w2 = w2
    c1 = c1
    NoHandle = NoHandle
    Executions = {e1}
    Tasks = {e1}
    Deliverers = {w1, w2}
    Callers = {c1}
    Expiry = "none"
    Ordered = FALSE
    MaxReceives = 0
    ReceiptHandles = TRUE
    CallersFail = FALSE
    LateRenewals = FALSE
    MaxFaults = 1
    MaxAttempts = 2
    MaxDelivery = 1
INVARIANTS
    MessageKept
PROPERTIES
    Settles
    QueueDrains
CHECK_DEADLOCK FALSE
