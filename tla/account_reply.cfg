CONSTANTS
    Tasks = {t1}
    MaxCreds = 2
SPECIFICATION Spec
CHECK_DEADLOCK FALSE
INVARIANTS KeptIsKept
