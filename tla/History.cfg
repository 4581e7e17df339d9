CONSTANTS
    RowIds = {1, 2, 3}
    Times <- MCTimes
    Lib = Lib
    Hex = Hex
    Remotes = {bob}
    Groups = {g}
    NULL = NULL
    MaxRows = 3
SPECIFICATION HistorySpec
INVARIANTS
    PageIsOfConversation
    NeverEmpty
    SameWidthInOrder
CHECK_DEADLOCK FALSE
