CONSTANTS
    Nodes = {n1}
    Threads = {t1, t2}
    MaxProcs = 1
    MaxTries = 1
    Faults = FALSE
    None = None
SPECIFICATION Spec
CHECK_DEADLOCK FALSE
PROPERTIES OffStaysOff
