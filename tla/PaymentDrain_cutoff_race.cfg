\* No failures: a worker and the cutoff transaction alone.
SPECIFICATION DSpec
CONSTANTS
    t1 = t1
    t2 = t2
    w1 = w1
    i1 = i1
    d1 = d1
    d2 = d2
    Tasks = {t1}
    PaykitTasks = {t1}
    Workers = {w1}
    InvoiceWorkers = {i1}
    DeletionWorkers = {d1}
    MaxFaults = 0
    MaxDrainFaults = 0
INVARIANT PaidIsEligible
CHECK_DEADLOCK FALSE
