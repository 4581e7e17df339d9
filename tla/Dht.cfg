SPECIFICATION Spec
CONSTANTS
    hub = hub
    a = a
    b = b
    Nodes = {hub, a, b}
    InitLinks <- Star
    RecordTTL = 1
    MaxDelay = 0
    Limit = 2
    MaxTime = 4
    MaxFaults = 1
    LastFault = 1
SYMMETRY Leaves
INVARIANTS
    ForgetsTheGone
    FoundOnce
    ConvergesInTime
