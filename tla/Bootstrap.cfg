CONSTANTS
    InitialInterval = 1
    MaxInterval = 3
    Multiplier = 2
    RetryLimits = {0, 2}
    Jitter = TRUE
    AttemptsCap = 4
    BootstrapPeers = {p1, p2}
SPECIFICATION BootstrapSpec
INVARIANTS
    DelayIsExponential
    EndsForAReason
PROPERTIES
    Maintains
    StopsWhenTold
CHECK_DEADLOCK FALSE
