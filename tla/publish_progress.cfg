CONSTANTS
    t1 = t1
    t2 = t2
    p1 = p1
    p2 = p2
    code = code
    ignored = ignored
    blocked = blocked
    other = other
    Tasks = {t1, t2}
    NoTask = NoTask
    Handler = Handler
    Foreign = Foreign
    Files = {code, blocked}
    Projects = {p1}
    ProjectOf <- OneProjectOf
    Contents = {"v1", "key"}
    Secrets = {"key"}
    Blocked = {blocked}
    Ignored = {}
    Absent = "absent"
    InitialTrees <- OneInitialTrees
    MaxCommits = 1
    MaxFaults = 0
    MaxOutside = 0
SPECIFICATION FairSpec
CHECK_DEADLOCK FALSE
PROPERTIES WorkEnds
