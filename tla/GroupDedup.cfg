CONSTANTS
    Callers = {r1, r2}
    Groups = {g}
    Ids = {i1, i2, i3}
    Members = {p1, p2}
    None = None
    MaxSeen = 2
    MaxDelivered = 2
SPECIFICATION Spec
SYMMETRY Symmetry
INVARIANTS
    SeenBounded
    DeliveredOnce
