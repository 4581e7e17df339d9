CONSTANTS
    Nodes = {a, b}
    Ids = {1, 2}
    Group = g
    NoGroup = NoGroup
    Members <- MCMembers
    None = None
    MaxFaults = 1
    MaxCrashes = 1
SPECIFICATION FairSpec
INVARIANTS
    NoPhantom
    InboundIsListed
    AnnouncedIsStored
    StatusTellsTheTruth
PROPERTIES
    RowsAreFinal
    PendingResolves
CHECK_DEADLOCK FALSE
