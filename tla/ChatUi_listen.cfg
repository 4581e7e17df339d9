CONSTANTS
    Chans = {ch1, ch2, ch3}
    Events <- MCEvents
    MaxSubs = 2
    SubscriberBuf = 2
    a = a
    b = b
    g = g
    Peers = {a}
    Groups = {}
    SortKey <- MCSortKey
    MaxMessages = 2
    MaxOther = 0
    MaxActivity = 2
    MaxTexts = 0
    MaxFaults = 0
    HistoryLimit = 2
    NoText = NoText
    Unknown = Unknown
    None = None
SPECIFICATION Spec
INVARIANT KeepsListening
CHECK_DEADLOCK FALSE
