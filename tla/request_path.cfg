SPECIFICATION Spec
SYMMETRY Symmetry
CONSTANTS
    Sources = {s1}
    Batches = {b1, b2}
    Procs = {p1, p2}
    MaxVersion = 8
    MaxFence = 2
    Requests = {r1}
    Handlers = {h1, h2}
    Followed = {"append","finish","cancel"}
    MaxFollowed = 3
    Retain = 1
    MaxTime = 1
    None = None
INVARIANTS TypeOK AnswersHold PublishedTruth OutputIsConfirmed OneHolder SealedGoesOn
PROPERTIES CancelledIsFinal ContractSpec
CHECK_DEADLOCK FALSE
