SPECIFICATION Spec
CONSTANTS
    a = a
    b = b
    e = e
    d1 = d1
    d2 = d2
    Group = {a, e}
    NoGroup = NoGroup
    Draft = {d1, d2}
    NoDraft = NoDraft
    Keys = {"OpenGroup", "Compose"}
    Subscribed = {a}
    InitialArticles = 2
    MarkReadOnOpen = TRUE
    MaxRequests = 3
    ChunkSize = 2
    Batches = 1
    InitMarks <- WithEmpty
    MaxHigh = 0
    MaxLow = 1
    Faults = {"refuse"}
    MaxFaults = 1
INVARIANTS
    DraftKept
