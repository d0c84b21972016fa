CONSTANTS
    t1 = t1
    t2 = t2
    p1 = p1
    p2 = p2
    code = code
    ignored = ignored
    blocked = blocked
    other = other
    Tasks = {t1, t2}
    NoTask = NoTask
    Handler = Handler
    Foreign = Foreign
    Files = {code}
    Projects = {p1}
    ProjectOf <- SingleProjectOf
    Contents = {"v1"}
    Secrets = {}
    Blocked = {}
    Ignored = {}
    Absent = "absent"
    InitialTrees <- SingleInitialTrees
    MaxCommits = 1
    MaxFaults = 0
    MaxOutside = 0
SPECIFICATION Spec
CHECK_DEADLOCK FALSE
INVARIANTS RecordedCommitResumable
