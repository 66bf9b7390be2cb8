SPECIFICATION Spec
CONSTANTS
    a = a
    b = b
    e = e
    d1 = d1
    d2 = d2
    Group = {a, b}
    NoGroup = NoGroup
    Draft = {}
    NoDraft = NoDraft
    Keys = {"OpenGroup", "LoadArticle", "Reload", "Escape"}
    Subscribed = {a, b}
    InitialArticles = 2
    MarkReadOnOpen = TRUE
    MaxRequests = 3
    ChunkSize = 1
    Batches = 1
    InitMarks <- TwoGroups
    MaxHigh = 2
    MaxLow = 2
    Faults = {"connect", "refuse", "break"}
    MaxFaults = 1
SYMMETRY GroupSymmetry
INVARIANTS
    TypeOK
    ListMatchesGroup
    IInv
PROPERTIES
    MarksRightGroup
