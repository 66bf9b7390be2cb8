SPECIFICATION FairSpec
CONSTANTS
    a = a
    b = b
    e = e
    d1 = d1
    d2 = d2
    Group = {a}
    NoGroup = NoGroup
    Draft = {}
    NoDraft = NoDraft
    Keys = {"OpenGroup", "Reload", "Escape", "ToggleRead", "CatchUp", "Quit"}
    Subscribed = {a}
    InitialArticles = 2
    MarkReadOnOpen = TRUE
    MaxRequests = 2
    ChunkSize = 1
    Batches = 1
    InitMarks <- OneGroup
    MaxHigh = 2
    MaxLow = 3
    Faults = {"connect", "break"}
    MaxFaults = 1
PROPERTIES
    FetchesEnd
    SpinnerStops
    QuitEnds
