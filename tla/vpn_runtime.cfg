CONSTANTS
    Children = {c1, c2}
    Devices = {tun0}
    Sessions = {s1}
    MaxSlots = 1
    MaxIndex = 2
    MaxLines = 2
    None = None
SPECIFICATION FairSpec
CHECK_DEADLOCK FALSE
INVARIANTS TypeOK SocketsOfTheGate HealthyMeansReady TrafficIsTheOwners
PROPERTIES GateCloses GateSpec
