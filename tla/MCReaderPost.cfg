SPECIFICATION Spec
CONSTANTS
    a = a
    b = b
    e = e
    d1 = d1
    d2 = d2
    Group = {a, e}
    NoGroup = NoGroup
    Draft = {d1}
    NoDraft = NoDraft
    Keys = {"OpenGroup", "OpenEmpty", "ReloadGroups", "Search", "Compose", "Escape", "Quit"}
    Subscribed = {a}
    InitialArticles = 2
    MarkReadOnOpen = TRUE
    MaxRequests = 2
    ChunkSize = 2
    Batches = 2
    InitMarks <- WithEmpty
    MaxHigh = 1
    MaxLow = 1
    Faults = {"refuse", "break", "lost"}
    MaxFaults = 2
INVARIANTS
    DraftKept
    InflightBound
    NoBrokenClientKept
