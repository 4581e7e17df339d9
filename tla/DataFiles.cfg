SPECIFICATION Spec
CONSTANTS
    p1 = p1
    p2 = p2
    Procs = {p1, p2}
    Home = Home
    Work = Work
    NoDir = NoDir
    Dirs = {Home, Work}
    Generated = Generated
    Short = Short
    NoName = NoName
    Names = {Generated, Short}
    Length <- Lengths
    Edits <- Moves
    Commands <- Uses
    MaxKeys = 2
    MaxStarts = 3
    MaxEdits = 1
    MaxFaults = 1
SYMMETRY AnyProc
CHECK_DEADLOCK FALSE
INVARIANTS
    KeyIsKept
    ReadableAtRest
    EditsKept
    MetadataFollows
