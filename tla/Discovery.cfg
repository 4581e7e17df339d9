CONSTANTS
    Peers = {self, bad, p1}
    Attempts = {a1, a2, a3}
    Local = self
    Invalid = {bad}
    EventsBuf = 3
SPECIFICATION Spec
INVARIANTS
    TracksDiscovered
    ConnectingHasDial
PROPERTY ConnectingEnds
CHECK_DEADLOCK FALSE
