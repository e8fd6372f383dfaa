\* One deletion worker that may fail, stall or crash once.
SPECIFICATION FairDSpec
CONSTANTS
    t1 = t1
    t2 = t2
    w1 = w1
    i1 = i1
    d1 = d1
    d2 = d2
    Tasks = {t1}
    PaykitTasks = {t1}
    Workers = {w1}
    InvoiceWorkers = {i1}
    DeletionWorkers = {d1}
    MaxFaults = 0
    MaxDrainFaults = 1
PROPERTY DrainEnds
PROPERTY DrainPublicationCompletes
CHECK_DEADLOCK FALSE
