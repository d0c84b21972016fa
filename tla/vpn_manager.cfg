CONSTANTS
    Nodes = {n1}
    Threads = {t1, t2}
    MaxProcs = 2
    MaxTries = 1
    Faults = TRUE
    None = None
SPECIFICATION Spec
SYMMETRY Symmetry
CHECK_DEADLOCK FALSE
INVARIANTS TypeOK ActiveIsListed FlagHeld NobodyIsStuck
PROPERTIES JobsAdvance
