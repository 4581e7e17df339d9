CONSTANTS
    Conns = {c1, c2}
    PeerIds = {a, b}
    All = All
    None = None
    MaxConns = 2
    QueueLen = 1
    MaxMsgs = 2
SPECIFICATION FairSpec
INVARIANTS
    RoutesAreServed
    RoutesAreKept
PROPERTY ShutdownReturns
CHECK_DEADLOCK FALSE
