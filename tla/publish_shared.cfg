CONSTANTS
    t1 = t1
    t2 = t2
    p1 = p1
    p2 = p2
    code = code
    ignored = ignored
    blocked = blocked
    other = other
    Tasks = {t1, t2}
    NoTask = NoTask
    Handler = Handler
    Foreign = Foreign
    Files = {code, ignored, other}
    Projects = {p1, p2}
    ProjectOf <- SharedProjectOf
    Contents = {"v1"}
    Secrets = {}
    Blocked = {}
    Ignored = {ignored}
    Absent = "absent"
    InitialTrees <- SharedInitialTrees
    MaxCommits = 2
    MaxFaults = 1
    MaxOutside = 1
SYMMETRY Symmetry
SPECIFICATION Spec
CHECK_DEADLOCK FALSE
INVARIANTS TypeOK ApprovedIsPublished CommittedIsSuccess OneUnpushedCommit CleanWhenIdle
PROPERTIES CommitIsTheTask RejectedIsUndone ReviewSpec
