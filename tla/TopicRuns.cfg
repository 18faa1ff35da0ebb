\* Two callers publish, cancel, redrive and purge; a dead letter is put back and fails again.
SPECIFICATION Spec
CONSTANTS
    e1 = e1
    w1 = w1
    w2 = w2
    c1 = c1
    c2 = c2
    NoHandle = NoHandle
    Executions = {e1}
    Tasks = {}
    Deliverers = {w1, w2}
    Callers = {c1, c2}
    Expiry = "ahead"
    Ordered = TRUE
    MaxReceives = 2
    ReceiptHandles = TRUE
    CallersFail = TRUE
    LateRenewals = TRUE
    MaxFaults = 0
    MaxAttempts = 2
    MaxDelivery = 2
SYMMETRY Symmetry
INVARIANTS
    OneLetterInFlight
PROPERTIES
    ImplementsLifecycle
CHECK_DEADLOCK FALSE
