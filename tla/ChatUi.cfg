CONSTANTS
    Chans = {ch1, ch2, ch3}
    Events <- MCEvents
    MaxSubs = 2
    SubscriberBuf = 2
    a = a
    b = b
    g = g
    Peers = {a}
    Groups = {g}
    SortKey <- MCSortKey
    MaxMessages = 2
    MaxOther = 1
    MaxActivity = 2
    MaxTexts = 1
    MaxFaults = 1
    HistoryLimit = 2
    NoText = NoText
    Unknown = Unknown
    None = None
SPECIFICATION Spec
INVARIANTS
    OpenIffSubscribed
    ViewIsOpenConversation
    NothingOverlooked
    SendersAreListed
    TextStaysInConversation
    CursorInList
CHECK_DEADLOCK FALSE
