CONSTANTS
    t1 = t1
    t2 = t2
    w1 = w1
    w2 = w2
    i1 = i1
    i2 = i2
    Tasks = {t2}
    PaykitTasks = {t2}
    Workers = {w1, w2}
    InvoiceWorkers = {i1}
    MaxFaults = 3
SPECIFICATION FairSpec
CHECK_DEADLOCK FALSE
PROPERTIES
    EveryTaskDecided
    PublicationCompletes
