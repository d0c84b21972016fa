SPECIFICATION Spec
CONSTANTS
    Jobs = {j1, j2}
    Sources = {s1}
    Workers = {w1, w2}
    Packages = {p1, p2}
    MaxFence = 2
    MaxEpoch = 2
    MaxStreams = 1
    None = None
INVARIANTS TypeOK CommitStaysConsumable
PROPERTIES VerdictSpec TableKept LostJobSettles
CHECK_DEADLOCK FALSE
