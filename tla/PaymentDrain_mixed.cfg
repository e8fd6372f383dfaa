CONSTANTS
    t1 = t1
    t2 = t2
    w1 = w1
    i1 = i1
    d1 = d1
    d2 = d2
    Tasks = {t1, t2}
    PaykitTasks = {t1}
    Workers = {w1}
    InvoiceWorkers = {i1}
    DeletionWorkers = {d1}
    MaxFaults = 1
    MaxDrainFaults = 0
SPECIFICATION DSpec
CHECK_DEADLOCK FALSE
INVARIANTS
    NonPaykitClosed
PROPERTIES
    ImplementsVerificationTasks
