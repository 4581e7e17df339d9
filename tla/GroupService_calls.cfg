CONSTANTS
    Callers = {c1, c2}
    Groups = {g1, g2}
    Peers = {p1, p2}
    None = None
    CliGroups = {g2}
    StoreFaults = TRUE
SPECIFICATION Spec
SYMMETRY Symmetry
INVARIANTS
    RowsHaveGroups
    RowsHavePeers
    Coherent
PROPERTIES
    HistoryKept
    ImplementsDirectory
