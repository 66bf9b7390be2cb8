SPECIFICATION Spec
CONSTANTS
    a = a
    b = b
    e = e
    d1 = d1
    d2 = d2
    Group = {a, b}
    NoGroup = NoGroup
    Draft = {}
    NoDraft = NoDraft
    Keys = {"OpenGroup", "Escape"}
    Subscribed = {a, b}
    InitialArticles = 2
    MarkReadOnOpen = TRUE
    MaxRequests = 2
    ChunkSize = 2
    Batches = 1
    InitMarks <- TwoGroups
    MaxHigh = 1
    MaxLow = 1
    Faults = {}
    MaxFaults = 0
INVARIANTS
    CancelNotLeaked
