CONSTANTS
    Tasks = {t1, t2}
    MaxCreds = 3
SPECIFICATION FairSpec
CHECK_DEADLOCK FALSE
INVARIANTS TypeOK NeverStuck SwitchedIsDurable LoginAlone
PROPERTIES AccountFixedDuringExec StoreSpec LoginReleased
